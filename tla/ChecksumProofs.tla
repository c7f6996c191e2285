--------------------------- MODULE ChecksumProofs ---------------------------
(***************************************************************************)
(* For octets of any number of values and segments of any length in reach: *)
(* in_cksum yields the one's complement sum of the octets, so each header  *)
(* the router sends verifies, and what tcp_unpack leaves in the checksum   *)
(* field tells a damaged octet.                                            *)
(*                                                                         *)
(* What the loop over the words adds up to is a function defined by        *)
(* recursion; facts about it are proved for the set of the numbers of      *)
(* words they hold for, see AllNumbers.                                    *)
(***************************************************************************)
EXTENDS ChecksumProperties, Integers, SequenceTheorems, WellFoundedInduction, TLAPS

(* Division *)

LEMMA DivMod ==
  ASSUME NEW a \in Nat, NEW n \in Nat \ {0}
  PROVE  a % n \in 0 .. n - 1 /\ a \div n \in Nat /\ a = n * (a \div n) + (a % n)
OBVIOUS

LEMMA DivModIs ==
  ASSUME NEW n \in Nat \ {0}, NEW q \in Nat, NEW r \in 0 .. n - 1
  PROVE  (n * q + r) % n = r /\ (n * q + r) \div n = q
OBVIOUS

LEMMA LastBelow ==
  ASSUME NEW n \in Nat \ {0}, NEW q \in Nat
  PROVE  n * q + n > 0 /\ (n * q + n - 1) % n = n - 1
<1>1. n * q \in Nat /\ n - 1 \in 0 .. n - 1 /\ n * q + n - 1 = n * q + (n - 1)
  OBVIOUS
<1>2. (n * q + (n - 1)) % n = n - 1
  BY <1>1, DivModIs
<1>3. QED
  BY <1>1, <1>2

LEMMA WordIs == WORD \in Nat /\ WORD >= 4
<1>1. \A b \in Nat : b >= 2 => b * b \in Nat /\ b * b >= 4
  OBVIOUS
<1>2. QED
  BY <1>1, ChecksumAssumption DEF WORD

-----------------------------------------------------------------------------
(* The folds *)

\* The first fold takes WORD - 1 away for each carry, and leaves one carry at most.
LEMMA FirstFold ==
  ASSUME NEW s \in 0 .. WORD * WORD - 1
  PROVE  /\ s \div WORD \in Nat /\ Fold(s) \in 0 .. 2 * WORD - 2
         /\ s = (WORD - 1) * (s \div WORD) + Fold(s)
         /\ s > 0 => Fold(s) > 0
<1> DEFINE q == s \div WORD
           r == s % WORD
<1>1. s \in Nat /\ WORD \in Nat \ {0}
  BY WordIs
<1>2. q \in Nat /\ r \in 0 .. WORD - 1 /\ s = WORD * q + r
  BY <1>1, DivMod
<1>3. Fold(s) = q + r
  BY DEF Fold
<1> HIDE DEF q, r
<1>4. q <= WORD - 1
  <2>1. CASE q >= WORD
    <3>1. WORD * q >= WORD * WORD
      BY <1>1, <1>2, <2>1
    <3>2. s < WORD * WORD
      BY <1>1
    <3>3. QED
      BY <1>1, <1>2, <3>1, <3>2
  <2>2. QED
    BY <1>1, <1>2, <2>1
<1>5. WORD * q = (WORD - 1) * q + q
  BY <1>1, <1>2
<1>6. q + r = 0 => WORD * q = 0
  BY <1>1, <1>2
<1>7. QED
  BY <1>1, <1>2, <1>3, <1>4, <1>5, <1>6 DEF q

\* The second one takes that away too.
LEMMA SecondFold ==
  ASSUME NEW s \in 0 .. WORD * WORD - 1
  PROVE  FoldedTwice(s) = IF Fold(s) < WORD THEN Fold(s) ELSE Fold(s) - WORD + 1
<1> DEFINE f == Fold(s)
<1>1. WORD \in Nat \ {0} /\ WORD >= 4 /\ f \in 0 .. 2 * WORD - 2
  BY WordIs, FirstFold
<1>2. FoldedTwice(s) = (f + (f \div WORD)) % WORD
  BY DEF FoldedTwice
<1> HIDE DEF f
<1>3. CASE f < WORD
  <2>1. f \in 0 .. WORD - 1 /\ f = WORD * 0 + f
    BY <1>1, <1>3
  <2>2. f \div WORD = 0 /\ f % WORD = f
    BY <1>1, <2>1, DivModIs
  <2>3. QED
    BY <1>1, <1>2, <1>3, <2>2 DEF f
<1>4. CASE f >= WORD
  <2>1. f - WORD \in 0 .. WORD - 1 /\ f = WORD * 1 + (f - WORD)
    BY <1>1, <1>4
  <2>2. f \div WORD = 1
    BY <1>1, <2>1, DivModIs
  <2>3. f - WORD + 1 \in 0 .. WORD - 1 /\ f + 1 = WORD * 1 + (f - WORD + 1)
    BY <1>1, <1>4
  <2>4. (f + 1) % WORD = f - WORD + 1
    BY <1>1, <2>3, DivModIs
  <2>5. QED
    BY <1>1, <1>2, <1>4, <2>2, <2>4 DEF f
<1>5. QED
  BY <1>1, <1>3, <1>4

\* in_cksum folds the carries of its int into the word twice: whatever the sum, if it is
\* below WORD^2, the result is the one's complement sum.
THEOREM TwoFoldsSuffice ==
  \A s \in 0 .. WORD * WORD - 1 : FoldedTwice(s) = OnesComplement(s)
<1> SUFFICES ASSUME NEW s \in 0 .. WORD * WORD - 1
             PROVE  FoldedTwice(s) = OnesComplement(s)
  OBVIOUS
<1> DEFINE q == s \div WORD
           f == Fold(s)
           n == WORD - 1
<1>1. /\ WORD \in Nat /\ WORD >= 4 /\ q \in Nat /\ f \in 0 .. 2 * WORD - 2
      /\ s = n * q + f /\ (s > 0 => f > 0) /\ s \in Nat
  BY WordIs, FirstFold
<1>2. FoldedTwice(s) = IF f < WORD THEN f ELSE f - WORD + 1
  BY SecondFold
<1>3. OnesComplement(s) = IF s = 0 THEN 0 ELSE ((s - 1) % n) + 1
  BY DEF OnesComplement
<1> HIDE DEF q, f
<1>4. n \in Nat \ {0}
  BY <1>1
<1>5. CASE s = 0
  <2>1. n * q >= 0
    BY <1>1, <1>4
  <2>2. f = 0
    BY <1>1, <1>4, <1>5, <2>1
  <2>3. QED
    BY <1>1, <1>2, <1>3, <1>5, <2>2
<1>6. CASE s > 0 /\ f < WORD
  <2>1. f - 1 \in 0 .. n - 1 /\ s - 1 = n * q + (f - 1)
    BY <1>1, <1>6
  <2>2. (s - 1) % n = f - 1
    BY <1>1, <1>4, <2>1, DivModIs
  <2>3. QED
    BY <1>1, <1>2, <1>3, <1>6, <2>2
<1>7. CASE s > 0 /\ f >= WORD
  <2>1. n * (q + 1) = n * q + n
    BY <1>1, <1>4
  <2>2. f - WORD \in 0 .. n - 1 /\ s - 1 = n * (q + 1) + (f - WORD) /\ q + 1 \in Nat
    BY <1>1, <1>7, <2>1
  <2>3. (s - 1) % n = f - WORD
    BY <1>1, <1>4, <2>2, DivModIs
  <2>4. QED
    BY <1>1, <1>2, <1>3, <1>7, <2>3
<1>8. QED
  BY <1>1, <1>5, <1>6, <1>7

-----------------------------------------------------------------------------
(* What the checksum adds to a sum *)

LEMMA FinishIs ==
  ASSUME NEW s \in 0 .. WORD * WORD - 1
  PROVE  /\ Finish(s) \in Words
         /\ OnesComplement(s + Finish(s)) = WORD - 1
<1> DEFINE n == WORD - 1
           q == (s - 1) \div n
           m == (s - 1) % n
<1>1. WORD \in Nat /\ WORD >= 4 /\ n \in Nat \ {0} /\ s \in Nat
  BY WordIs
<1>2. Finish(s) = n - OnesComplement(s)
  BY TwoFoldsSuffice DEF Finish
<1>3. CASE s = 0
  <2>1. Finish(s) = n /\ s + Finish(s) = n
    BY <1>1, <1>2, <1>3 DEF OnesComplement
  <2>2. n - 1 \in 0 .. n - 1 /\ n - 1 = n * 0 + (n - 1)
    BY <1>1
  <2>3. (n - 1) % n = n - 1
    BY <1>1, <2>2, DivModIs
  <2>4. QED
    BY <1>1, <2>1, <2>3 DEF OnesComplement, Words
<1>4. CASE s > 0
  <2>1. s - 1 \in Nat
    BY <1>1, <1>4
  <2>2. m \in 0 .. n - 1 /\ q \in Nat /\ s - 1 = n * q + m
    BY <1>1, <2>1, DivMod
  <2>3. OnesComplement(s) = m + 1
    BY <1>1, <1>4 DEF OnesComplement
  <2> HIDE DEF q, m
  <2>4. Finish(s) = n - m - 1
    BY <1>1, <1>2, <2>2, <2>3
  <2>5. s + Finish(s) = n * q + n
    BY <1>1, <2>2, <2>4
  <2> DEFINE t == s + Finish(s)
  <2>6. OnesComplement(t) = IF t = 0 THEN 0 ELSE ((t - 1) % n) + 1
    BY DEF OnesComplement
  <2>7. Finish(s) \in Words
    BY <1>1, <2>2, <2>4 DEF Words
  <2> HIDE DEF n, t
  <2>8. n * q + n > 0 /\ (n * q + n - 1) % n = n - 1
    BY <1>1, <2>2, LastBelow
  <2>9. t = n * q + n
    BY <2>5 DEF t
  <2>10. OnesComplement(t) = n
    <3>1. t # 0 /\ (t - 1) % n = n - 1
      BY <1>1, <2>2, <2>8, <2>9
    <3>2. OnesComplement(t) = n - 1 + 1
      BY <2>6, <3>1
    <3>3. QED
      BY <1>1, <3>2
  <2>11. QED
    BY <2>7, <2>10 DEF n, t
<1>5. QED
  BY <1>1, <1>3, <1>4

-----------------------------------------------------------------------------
(* Numbers, and the sums defined by recursion *)

Below == {ss \in Nat \X Nat : ss[1] < ss[2]}

LEMMA BelowWellFounded == IsWellFoundedOn(Below, Nat)
<1>1. Below = OpToRel(<, Nat)
  BY Z3 DEF Below, OpToRel
<1>2. QED
  BY <1>1, NatLessThanWellFounded

\* Induction over the numbers, for a set: its least missing number is 0, or follows one
\* that is not missing.
LEMMA AllNumbers ==
  ASSUME NEW T \in SUBSET Nat, 0 \in T, \A n \in T : n + 1 \in T
  PROVE  \A n \in Nat : n \in T
<1> SUFFICES ASSUME Nat \ T # {} PROVE FALSE
  OBVIOUS
<1> DEFINE M == Nat \ T
<1>1. PICK n \in M : \A m \in M : ~ (<<m, n>> \in Below)
  <2>1. M \subseteq Nat /\ M # {}
    OBVIOUS
  <2> HIDE DEF M
  <2> QED
    BY <2>1, BelowWellFounded, WFMin
<1>2. n \in Nat /\ n # 0 /\ n - 1 \in Nat
  BY <1>1
<1>3. <<n - 1, n>> \in Below
  BY <1>2 DEF Below
<1>4. n - 1 \in T
  BY <1>1, <1>2, <1>3
<1>5. n - 1 + 1 = n
  BY <1>2
<1> QED
  BY <1>1, <1>4, <1>5

LEMMA AddedIs ==
  ASSUME NEW words, NEW n \in Nat
  PROVE  /\ Added(words, n)[0] = 0
         /\ \A k \in 1 .. n : Added(words, n)[k] = Added(words, n)[k - 1] + words[k]
<1> DEFINE Adds(g, m) == g = [k \in 0 .. m |-> IF k = 0 THEN 0 ELSE g[k - 1] + words[k]]
           T == {m \in Nat : \E g : Adds(g, m)}
<1>1. 0 \in T
  <2>1. Adds([k \in 0 .. 0 |-> 0], 0)
    OBVIOUS
  <2> QED
    BY <2>1
<1>2. ASSUME NEW m \in T PROVE m + 1 \in T
  <2>1. PICK g : Adds(g, m)
    OBVIOUS
  <2> DEFINE h == [k \in 0 .. m + 1 |-> IF k = 0 THEN 0 ELSE g[k - 1] + words[k]]
  <2>2. \A k \in 0 .. m : h[k] = g[k]
    BY <2>1
  <2>3. \A k \in 1 .. m + 1 : k - 1 \in 0 .. m
    OBVIOUS
  <2>4. \A k \in 0 .. m + 1 : h[k] = IF k = 0 THEN 0 ELSE g[k - 1] + words[k]
    OBVIOUS
  <2>5. \A k \in 0 .. m + 1 :
          (IF k = 0 THEN 0 ELSE g[k - 1] + words[k]) = IF k = 0 THEN 0 ELSE h[k - 1] + words[k]
    <3> HIDE DEF h
    <3> QED
      BY <2>2, <2>3
  <2>6. Adds(h, m + 1)
    BY <2>5
  <2>7. m + 1 \in Nat
    OBVIOUS
  <2> HIDE DEF Adds, h
  <2> QED
    BY <2>6, <2>7
<1>3. n \in T
  <2> HIDE DEF T
  <2> QED
    BY <1>1, <1>2, AllNumbers DEF T
<1>4. Added(words, n) = CHOOSE g : Adds(g, n)
  BY DEF Added
<1> DEFINE a == Added(words, n)
<1>5. Adds(a, n)
  BY <1>3, <1>4
<1> HIDE DEF a
<1>6. QED
  <2>1. \A k \in 0 .. n : a[k] = IF k = 0 THEN 0 ELSE a[k - 1] + words[k]
    BY <1>5
  <2> QED
    BY <2>1 DEF a

LEMMA EndAroundSumIs ==
  ASSUME NEW words, NEW n \in Nat
  PROVE  LET sum == EndAroundSum(words, n)
         IN  sum[0] = 0 /\ \A k \in 1 .. n : sum[k] = EndAround(sum[k - 1], words[k])
<1> DEFINE Adds(g, m) == g = [k \in 0 .. m |-> IF k = 0 THEN 0 ELSE EndAround(g[k - 1], words[k])]
           T == {m \in Nat : \E g : Adds(g, m)}
<1>1. 0 \in T
  <2>1. Adds([k \in 0 .. 0 |-> 0], 0)
    OBVIOUS
  <2> QED
    BY <2>1
<1>2. ASSUME NEW m \in T PROVE m + 1 \in T
  <2>1. PICK g : Adds(g, m)
    OBVIOUS
  <2> DEFINE h == [k \in 0 .. m + 1 |-> IF k = 0 THEN 0 ELSE EndAround(g[k - 1], words[k])]
  <2>2. \A k \in 0 .. m : h[k] = g[k]
    BY <2>1
  <2>3. \A k \in 1 .. m + 1 : k - 1 \in 0 .. m
    OBVIOUS
  <2>4. \A k \in 0 .. m + 1 :
          (IF k = 0 THEN 0 ELSE EndAround(g[k - 1], words[k]))
            = IF k = 0 THEN 0 ELSE EndAround(h[k - 1], words[k])
    <3> HIDE DEF h
    <3> QED
      BY <2>2, <2>3
  <2>5. Adds(h, m + 1)
    BY <2>4
  <2>6. m + 1 \in Nat
    OBVIOUS
  <2> HIDE DEF Adds, h
  <2> QED
    BY <2>5, <2>6
<1>3. n \in T
  <2> HIDE DEF T
  <2> QED
    BY <1>1, <1>2, AllNumbers DEF T
<1>4. EndAroundSum(words, n) = CHOOSE g : Adds(g, n)
  BY DEF EndAroundSum
<1> DEFINE a == EndAroundSum(words, n)
<1>5. Adds(a, n)
  BY <1>3, <1>4
<1> HIDE DEF a
<1>6. \A k \in 0 .. n : a[k] = IF k = 0 THEN 0 ELSE EndAround(a[k - 1], words[k])
  BY <1>5
<1>7. QED
  BY <1>6 DEF a

-----------------------------------------------------------------------------
(* Sums of words *)

\* The sum of the first words depends on these alone.
LEMMA AddedAgrees ==
  ASSUME NEW v, NEW w, NEW n \in Nat, NEW m \in Nat, NEW l \in 0 .. n, l <= m,
         \A k \in 1 .. l : v[k] = w[k]
  PROVE  \A k \in 0 .. l : Added(v, n)[k] = Added(w, m)[k]
<1> DEFINE T == {k \in Nat : k <= l => Added(v, n)[k] = Added(w, m)[k]}
<1>1. 0 \in T
  BY AddedIs
<1>2. ASSUME NEW k \in T PROVE k + 1 \in T
  <2>1. CASE k + 1 <= l
    <3>1. k + 1 \in 1 .. n /\ k + 1 \in 1 .. m /\ k + 1 \in 1 .. l /\ k + 1 - 1 = k
      BY <2>1
    <3>2. Added(v, n)[k + 1] = Added(v, n)[k] + v[k + 1]
      BY <3>1, AddedIs
    <3>3. Added(w, m)[k + 1] = Added(w, m)[k] + w[k + 1]
      BY <3>1, AddedIs
    <3> QED
      BY <2>1, <3>1, <3>2, <3>3
  <2>2. CASE ~ (k + 1 <= l)
    BY <2>2
  <2> QED
    BY <2>1, <2>2
<1>3. \A k \in Nat : k \in T
  <2> HIDE DEF T
  <2> QED
    BY <1>1, <1>2, AllNumbers DEF T
<1> QED
  BY <1>3

LEMMA AddedBound ==
  ASSUME NEW w, NEW n \in Nat, \A k \in 1 .. n : w[k] \in Words
  PROVE  \A k \in 0 .. n : Added(w, n)[k] \in Nat /\ Added(w, n)[k] <= k * (WORD - 1)
<1> DEFINE T == {k \in Nat : k <= n => Added(w, n)[k] \in Nat /\ Added(w, n)[k] <= k * (WORD - 1)}
<1>0. WORD \in Nat /\ WORD >= 4
  BY WordIs
<1>1. 0 \in T
  BY AddedIs, <1>0
<1>2. ASSUME NEW k \in T PROVE k + 1 \in T
  <2>1. CASE k + 1 <= n
    <3>1. k + 1 \in 1 .. n /\ k + 1 - 1 = k
      BY <2>1
    <3>2. Added(w, n)[k + 1] = Added(w, n)[k] + w[k + 1]
      BY <3>1, AddedIs
    <3>3. w[k + 1] \in 0 .. WORD - 1
      BY <3>1 DEF Words
    <3>4. Added(w, n)[k] \in Nat /\ Added(w, n)[k] <= k * (WORD - 1)
      BY <2>1
    <3>5. (k + 1) * (WORD - 1) = k * (WORD - 1) + (WORD - 1) /\ k * (WORD - 1) \in Nat
      BY <1>0
    <3> QED
      BY <1>0, <3>2, <3>3, <3>4, <3>5
  <2>2. CASE ~ (k + 1 <= n)
    BY <2>2
  <2> QED
    BY <2>1, <2>2
<1>3. \A k \in Nat : k \in T
  <2> HIDE DEF T
  <2> QED
    BY <1>1, <1>2, AllNumbers DEF T
<1> QED
  BY <1>3

\* Another word in one place changes the sum by the difference.
LEMMA AddedReplaced ==
  ASSUME NEW v, NEW w, NEW n \in Nat, NEW j \in 1 .. n,
         \A k \in 1 .. n : v[k] \in Words /\ w[k] \in Words,
         \A k \in 1 .. n : k # j => v[k] = w[k]
  PROVE  Added(v, n)[n] = Added(w, n)[n] - w[j] + v[j]
<1> DEFINE a == Added(v, n)
           b == Added(w, n)
           T == {k \in Nat : k <= n => a[k] = IF k < j THEN b[k] ELSE b[k] - w[j] + v[j]}
<1>0. /\ a[0] = 0 /\ \A k \in 1 .. n : a[k] = a[k - 1] + v[k]
      /\ b[0] = 0 /\ \A k \in 1 .. n : b[k] = b[k - 1] + w[k]
      /\ \A k \in 0 .. n : a[k] \in Nat /\ b[k] \in Nat
      /\ \A k \in 1 .. n : v[k] \in Nat /\ w[k] \in Nat
  BY AddedIs, AddedBound, WordIs DEF Words
<1> HIDE DEF a, b
<1>1. 0 \in T
  BY <1>0
<1>2. ASSUME NEW k \in T PROVE k + 1 \in T
  <2>1. CASE k + 1 <= n
    <3>1. k + 1 \in 1 .. n /\ k + 1 - 1 = k /\ k \in 0 .. n
      BY <2>1
    <3>2. a[k + 1] = a[k] + v[k + 1] /\ b[k + 1] = b[k] + w[k + 1]
      BY <1>0, <3>1
    <3>3. a[k] = IF k < j THEN b[k] ELSE b[k] - w[j] + v[j]
      BY <3>1
    <3>4. a[k] \in Nat /\ b[k] \in Nat /\ v[k + 1] \in Nat /\ w[k + 1] \in Nat
          /\ v[j] \in Nat /\ w[j] \in Nat
      BY <1>0, <3>1
    <3>5. CASE k + 1 = j
      BY <3>2, <3>3, <3>4, <3>5
    <3>6. CASE k + 1 # j
      <4>1. v[k + 1] = w[k + 1]
        BY <3>1, <3>6
      <4> QED
        BY <3>2, <3>3, <3>4, <3>6, <4>1
    <3> QED
      BY <3>5, <3>6
  <2>2. CASE ~ (k + 1 <= n)
    BY <2>2
  <2> QED
    BY <2>1, <2>2
<1>3. \A k \in Nat : k \in T
  <2> HIDE DEF T
  <2> QED
    BY <1>1, <1>2, AllNumbers DEF T
<1> QED
  BY <1>3 DEF a, b

-----------------------------------------------------------------------------
(* Octets *)

LEMMA OctetIs == BYTE \in Nat /\ BYTE >= 2 /\ \A o \in Octets : o \in 0 .. BYTE - 1
BY ChecksumAssumption DEF Octets

\* Two octets are a word.
LEMMA WordOf ==
  ASSUME NEW low \in Octets, NEW high \in Octets
  PROVE  low + BYTE * high \in Words /\ low \in Words
<1>1. BYTE \in Nat /\ BYTE >= 2 /\ low \in 0 .. BYTE - 1 /\ high \in 0 .. BYTE - 1
  BY OctetIs
<1>2. BYTE * high <= BYTE * (BYTE - 1) /\ BYTE * high >= 0 /\ BYTE * high \in Int
  BY <1>1
<1>3. BYTE * (BYTE - 1) = BYTE * BYTE - BYTE /\ BYTE <= BYTE * BYTE /\ BYTE * BYTE \in Nat
  BY <1>1
<1>4. QED
  BY <1>1, <1>2, <1>3 DEF Words, WORD

WordCount(octets) == (Len(octets) + 1) \div 2

LEMMA PaddedWords ==
  ASSUME NEW octets \in Seq(Octets)
  PROVE  /\ WordCount(octets) \in Nat
         /\ \A k \in 1 .. WordCount(octets) : Padded(octets)[k] \in Words
<1> DEFINE n == WordCount(octets)
<1>1. Len(octets) \in Nat /\ n \in Nat
  BY DEF WordCount
<1>2. ASSUME NEW k \in 1 .. n PROVE Padded(octets)[k] \in Words
  <2>1. 2 * k - 1 \in 1 .. Len(octets) /\ octets[2 * k - 1] \in Octets
    BY <1>1, <1>2 DEF WordCount
  <2>2. Padded(octets)[k]
          = octets[2 * k - 1] + (IF 2 * k <= Len(octets) THEN BYTE * octets[2 * k] ELSE 0)
    BY <1>2 DEF Padded, WordCount
  <2>3. CASE 2 * k <= Len(octets)
    <3>1. octets[2 * k] \in Octets
      BY <1>1, <1>2, <2>3
    <3> QED
      BY <2>1, <2>2, <2>3, <3>1, WordOf
  <2>4. CASE ~ (2 * k <= Len(octets))
    <3>1. Padded(octets)[k] = octets[2 * k - 1] + 0
      BY <2>2, <2>4
    <3>2. octets[2 * k - 1] \in Words /\ octets[2 * k - 1] \in Nat
      BY <2>1, WordOf, OctetIs
    <3> QED
      BY <3>1, <3>2
  <2> QED
    BY <2>3, <2>4
<1> QED
  BY <1>1, <1>2

\* in_cksum, which adds an odd last octet after the loop, adds up the padded words.
LEMMA SumIsAdded ==
  ASSUME NEW octets \in Seq(Octets)
  PROVE  Sum(octets) = Added(Padded(octets), WordCount(octets))[WordCount(octets)]
<1> DEFINE n == WordCount(octets)
           h == Len(octets) \div 2
           w == WordsOf(octets)
           p == Padded(octets)
<1>1. Len(octets) \in Nat /\ n \in Nat /\ h \in Nat /\ h <= n
  BY DEF WordCount
<1>2. \A k \in 1 .. h : w[k] = p[k]
  <2> TAKE k \in 1 .. h
  <2>1. k \in 1 .. n /\ 2 * k <= Len(octets)
    BY <1>1 DEF WordCount
  <2>2. p[k] = octets[2 * k - 1] + BYTE * octets[2 * k]
    BY <2>1 DEF Padded, WordCount
  <2> QED
    BY <2>2 DEF WordsOf
<1>3. Sum(octets) = Added(w, h)[h] + (IF Len(octets) % 2 = 1 THEN octets[Len(octets)] ELSE 0)
  BY DEF Sum
<1>4. \A k \in 1 .. n : p[k] \in Words
  BY PaddedWords
<1>5. n = WordCount(octets) /\ h = Len(octets) \div 2
  OBVIOUS
<1>6. Len(octets) % 2 = 1 =>
        n = h + 1 /\ Len(octets) = 2 * n - 1 /\ n \in 1 .. n /\ p[n] = octets[Len(octets)]
  <2> SUFFICES ASSUME Len(octets) % 2 = 1
               PROVE  n = h + 1 /\ Len(octets) = 2 * n - 1 /\ n \in 1 .. n /\ p[n] = octets[Len(octets)]
    OBVIOUS
  <2>1. n = h + 1 /\ Len(octets) = 2 * n - 1 /\ n \in 1 .. n
    BY <1>1 DEF WordCount
  <2>2. p[n] = octets[2 * n - 1] + 0
    BY <1>1, <2>1 DEF Padded, WordCount
  <2>3. octets[2 * n - 1] \in Nat
    <3>1. 2 * n - 1 \in 1 .. Len(octets)
      BY <1>1, <2>1
    <3> QED
      BY <3>1, OctetIs
  <2> QED
    BY <2>1, <2>2, <2>3
<1>7. Len(octets) % 2 # 1 => n = h
  BY <1>1 DEF WordCount
<1> HIDE DEF n, h, w, p
<1>8. Added(w, h)[h] = Added(p, n)[h]
  <2>1. h \in Nat /\ n \in Nat /\ h \in 0 .. h /\ h <= n
    BY <1>1
  <2>2. \A k \in 0 .. h : Added(w, h)[k] = Added(p, n)[k]
    BY ONLY <1>2, <2>1, AddedAgrees
  <2> QED
    BY <2>1, <2>2
<1>9. \A k \in 0 .. n : Added(p, n)[k] \in Nat
  BY <1>1, <1>4, AddedBound
<1>10. CASE Len(octets) % 2 = 1
  <2>1. Added(p, n)[n] = Added(p, n)[n - 1] + p[n]
    BY <1>1, <1>6, <1>10, AddedIs
  <2> QED
    BY <1>1, <1>3, <1>6, <1>8, <1>10, <2>1 DEF n, p
<1>11. CASE Len(octets) % 2 # 1
  BY <1>1, <1>3, <1>7, <1>8, <1>9, <1>11 DEF n, p
<1> QED
  BY <1>10, <1>11

\* What the folds can be given.
LEMMA SumBound ==
  ASSUME NEW octets \in Seq(Octets)
  PROVE  Sum(octets) \in Nat /\ (Len(octets) <= 2 * WORD => Sum(octets) \in 0 .. WORD * WORD - 1)
<1> DEFINE n == WordCount(octets)
<1>1. n \in Nat /\ Sum(octets) \in Nat /\ Sum(octets) <= n * (WORD - 1)
  BY PaddedWords, AddedBound, SumIsAdded
<1>2. WORD \in Nat /\ WORD >= 4
  BY WordIs
<1>3. ASSUME Len(octets) <= 2 * WORD PROVE Sum(octets) < WORD * WORD
  <2>1. n <= WORD
    BY <1>2, <1>3 DEF WordCount
  <2> HIDE DEF n
  <2>2. n * (WORD - 1) <= WORD * (WORD - 1)
    BY <1>1, <1>2, <2>1
  <2>3. WORD * (WORD - 1) = WORD * WORD - WORD /\ WORD * WORD \in Nat
    BY <1>2
  <2> QED
    BY <1>1, <1>2, <2>2, <2>3
<1> QED
  BY <1>1, <1>2, <1>3

\* Another octet in one place changes the sum by the difference, BYTE times if it is the
\* high one of its word.
LEMMA OctetReplaced ==
  ASSUME NEW octets \in Seq(Octets), NEW new \in Seq(Octets), Len(new) = Len(octets),
         NEW p \in 1 .. Len(octets), \A k \in 1 .. Len(octets) : k # p => new[k] = octets[k]
  PROVE  Sum(new) = IF p % 2 = 1 THEN Sum(octets) - octets[p] + new[p]
                    ELSE Sum(octets) - BYTE * octets[p] + BYTE * new[p]
<1> DEFINE n == WordCount(octets)
           o == new[p]
           j == (p + 1) \div 2
           v == Padded(new)
           w == Padded(octets)
<1>1. /\ WordCount(new) = n
      /\ \A k \in 1 .. Len(octets) : new[k] = IF k = p THEN o ELSE octets[k]
      /\ Len(octets) \in Nat /\ n \in Nat
  BY DEF WordCount
<1>2. j \in 1 .. n
  BY <1>1 DEF WordCount
<1>3. \A k \in 1 .. n : v[k] \in Words /\ w[k] \in Words
  BY <1>1, PaddedWords
<1>4. \A k \in 1 .. n :
        /\ 2 * k - 1 \in 1 .. Len(octets)
        /\ v[k] = new[2 * k - 1] + (IF 2 * k <= Len(octets) THEN BYTE * new[2 * k] ELSE 0)
        /\ w[k] = octets[2 * k - 1] + (IF 2 * k <= Len(octets) THEN BYTE * octets[2 * k] ELSE 0)
  BY <1>1 DEF Padded, WordCount
<1>5. Sum(new) = Added(v, n)[n] /\ Sum(octets) = Added(w, n)[n]
  BY <1>1, SumIsAdded
<1>6. j = (p + 1) \div 2 /\ p \in Nat
  BY <1>1
<1>7. BYTE \in Nat /\ o \in Nat /\ \A k \in 1 .. Len(octets) : octets[k] \in Nat
  <2>1. o \in Octets /\ \A k \in 1 .. Len(octets) : octets[k] \in Octets
    OBVIOUS
  <2> QED
    BY <2>1, OctetIs
<1> HIDE DEF n, o, j, v, w
<1>8. \A k \in 1 .. n : k # j => v[k] = w[k]
  <2> SUFFICES ASSUME NEW k \in 1 .. n, k # j PROVE v[k] = w[k]
    OBVIOUS
  <2>1. 2 * k - 1 # p /\ 2 * k # p
    BY <1>1, <1>6
  <2>2. new[2 * k - 1] = octets[2 * k - 1]
    BY <1>1, <1>4, <2>1
  <2>3. 2 * k <= Len(octets) => new[2 * k] = octets[2 * k]
    BY <1>1, <2>1
  <2> QED
    BY <1>4, <2>2, <2>3
<1>9. Added(v, n)[n] = Added(w, n)[n] - w[j] + v[j]
  BY <1>1, <1>2, <1>3, <1>8, AddedReplaced
<1>10. Added(w, n)[n] \in Nat
  BY <1>1, <1>3, AddedBound
<1>11. CASE p % 2 = 1
  <2>1. p = 2 * j - 1
    BY <1>6, <1>11
  <2>2. 2 * j <= Len(octets) => new[2 * j] = octets[2 * j] /\ BYTE * octets[2 * j] \in Nat
    BY <1>1, <1>2, <1>7, <2>1
  <2>3. v[j] = w[j] - octets[p] + o
    <3> DEFINE high == IF 2 * j <= Len(octets) THEN BYTE * octets[2 * j] ELSE 0
    <3>1. new[2 * j - 1] = o /\ octets[2 * j - 1] = octets[p]
      BY <1>1, <2>1
    <3>2. high \in Nat
      BY <2>2
    <3>3. v[j] = o + high /\ w[j] = octets[p] + high
      BY <1>2, <1>4, <2>2, <3>1
    <3> HIDE DEF high
    <3>4. o \in Nat /\ octets[p] \in Nat
      BY <1>7
    <3> QED
      BY <3>2, <3>3, <3>4
  <2>4. v[j] \in Nat /\ w[j] \in Nat
    BY <1>2, <1>3, WordIs DEF Words
  <2> QED
    BY <1>5, <1>7, <1>9, <1>10, <1>11, <2>3, <2>4 DEF o
<1>12. CASE p % 2 # 1
  <2>1. p = 2 * j /\ 2 * j <= Len(octets)
    BY <1>6, <1>12
  <2>2. new[2 * j - 1] = octets[2 * j - 1] /\ octets[2 * j - 1] \in Nat
    <3>1. 2 * j - 1 \in 1 .. Len(octets)
      BY <1>2, <1>4
    <3>2. 2 * j - 1 # p
      BY <1>6, <2>1
    <3> QED
      BY <1>1, <1>7, <3>1, <3>2
  <2>3. BYTE * o \in Nat /\ BYTE * octets[p] \in Nat
    BY <1>7
  <2>4. v[j] = new[2 * j - 1] + BYTE * new[2 * j] /\ w[j] = octets[2 * j - 1] + BYTE * octets[2 * j]
    BY <1>2, <1>4, <2>1
  <2>5. new[2 * j] = o
    BY <1>1, <2>1
  <2>6. v[j] = w[j] - BYTE * octets[p] + BYTE * o
    BY <2>1, <2>2, <2>3, <2>4, <2>5
  <2>7. v[j] \in Nat /\ w[j] \in Nat
    BY <1>2, <1>3, WordIs DEF Words
  <2> QED
    BY <1>5, <1>9, <1>10, <1>12, <2>3, <2>6, <2>7 DEF o
<1> QED
  BY <1>11, <1>12

-----------------------------------------------------------------------------
(* The one's complement sum *)

\* Adding a word with its carry coming back is adding it, for the one's complement.
LEMMA EndAroundStep ==
  ASSUME NEW s \in Nat, NEW w \in Words
  PROVE  EndAround(OnesComplement(s), w) = OnesComplement(s + w)
<1> DEFINE n == WORD - 1
           q == (s - 1) \div n
           m == (s - 1) % n
<1>1. WORD \in Nat /\ n \in Nat \ {0} /\ WORD = n + 1 /\ w \in 0 .. n
  BY WordIs DEF Words
<1>2. CASE s = 0
  <2>1. OnesComplement(s) = 0 /\ s + w = w
    BY <1>1, <1>2 DEF OnesComplement
  <2>2. EndAround(0, w) = w
    BY <1>1 DEF EndAround
  <2>3. w > 0 => (w - 1) % n = w - 1
    <3> SUFFICES ASSUME w > 0 PROVE (w - 1) % n = w - 1
      OBVIOUS
    <3>1. w - 1 \in 0 .. n - 1 /\ n * 0 + (w - 1) = w - 1
      BY <1>1
    <3> HIDE DEF n
    <3>2. (n * 0 + (w - 1)) % n = w - 1
      BY <1>1, <3>1, DivModIs
    <3> QED
      BY <3>1, <3>2
  <2>4. OnesComplement(w) = w
    BY <1>1, <2>3 DEF OnesComplement
  <2> QED
    BY <2>1, <2>2, <2>4
<1>3. CASE s > 0
  <2>1. m \in 0 .. n - 1 /\ q \in Nat /\ s - 1 = n * q + m
    <3>1. s - 1 \in Nat
      BY <1>3
    <3> QED
      BY <1>1, <3>1, DivMod
  <2>2. OnesComplement(s) = m + 1
    BY <1>3 DEF OnesComplement
  <2>3. OnesComplement(s + w) = ((s + w - 1) % n) + 1
    BY <1>1, <1>3 DEF OnesComplement
  <2> HIDE DEF m, q
  <2>4. CASE m + w >= n
    <3>1. EndAround(m + 1, w) = m + 1 + w - n
      BY <1>1, <2>1, <2>4 DEF EndAround
    <3>2. n * (q + 1) = n * q + n /\ q + 1 \in Nat /\ n * q \in Nat
      BY <1>1, <2>1
    <3>3. m + w - n \in 0 .. n - 1 /\ s + w - 1 = n * (q + 1) + (m + w - n)
      BY <1>1, <2>1, <2>4, <3>2
    <3> HIDE DEF n
    <3>4. (n * (q + 1) + (m + w - n)) % n = m + w - n
      BY <1>1, <3>2, <3>3, DivModIs
    <3> QED
      BY <1>1, <2>1, <2>2, <2>3, <3>1, <3>3, <3>4
  <2>5. CASE m + w < n
    <3>1. EndAround(m + 1, w) = m + 1 + w
      BY <1>1, <2>1, <2>5 DEF EndAround
    <3>2. m + w \in 0 .. n - 1 /\ s + w - 1 = n * q + (m + w)
      BY <1>1, <2>1, <2>5
    <3> HIDE DEF n
    <3>3. (n * q + (m + w)) % n = m + w
      BY <1>1, <2>1, <3>2, DivModIs
    <3> QED
      BY <1>1, <2>1, <2>2, <2>3, <3>1, <3>2, <3>3
  <2> QED
    BY <1>1, <2>1, <2>4, <2>5
<1> QED
  BY <1>2, <1>3

\* Added word by word with the carries coming back, or added up and reduced at the end.
THEOREM CarriesMayWait ==
  \A octets \in Seq(Octets) : OnesComplementOf(octets) = OnesComplement(Sum(octets))
<1> SUFFICES ASSUME NEW octets \in Seq(Octets)
             PROVE  OnesComplementOf(octets) = OnesComplement(Sum(octets))
  OBVIOUS
<1> DEFINE n == WordCount(octets)
           w == Padded(octets)
           sum == EndAroundSum(w, n)
           T == {k \in Nat : k <= n => sum[k] = OnesComplement(Added(w, n)[k])}
<1>1. n \in Nat /\ \A k \in 1 .. n : w[k] \in Words
  BY PaddedWords
<1>2. sum[0] = 0 /\ \A k \in 1 .. n : sum[k] = EndAround(sum[k - 1], w[k])
  BY <1>1, EndAroundSumIs
<1>3. Added(w, n)[0] = 0 /\ \A k \in 1 .. n : Added(w, n)[k] = Added(w, n)[k - 1] + w[k]
  BY <1>1, AddedIs
<1>4. \A k \in 0 .. n : Added(w, n)[k] \in Nat
  BY <1>1, AddedBound
<1>5. OnesComplementOf(octets) = sum[n] /\ Sum(octets) = Added(w, n)[n]
  BY SumIsAdded DEF OnesComplementOf, WordCount
<1> HIDE DEF n, w, sum
<1>6. 0 \in T
  BY <1>2, <1>3 DEF OnesComplement
<1>7. ASSUME NEW k \in T PROVE k + 1 \in T
  <2>1. CASE k + 1 <= n
    <3>1. k + 1 \in 1 .. n /\ k + 1 - 1 = k /\ k \in 0 .. n
      BY <1>1, <2>1
    <3>2. sum[k + 1] = EndAround(sum[k], w[k + 1])
      BY <1>2, <3>1
    <3>3. Added(w, n)[k + 1] = Added(w, n)[k] + w[k + 1]
      BY <1>3, <3>1
    <3>4. sum[k] = OnesComplement(Added(w, n)[k])
      BY <3>1
    <3>5. sum[k + 1] = OnesComplement(Added(w, n)[k + 1])
      BY <1>1, <1>4, <3>1, <3>2, <3>3, <3>4, EndAroundStep
    <3> QED
      BY <3>5
  <2>2. CASE ~ (k + 1 <= n)
    BY <2>2
  <2> QED
    BY <2>1, <2>2
<1>8. \A k \in Nat : k \in T
  <2> HIDE DEF T
  <2> QED
    BY <1>6, <1>7, AllNumbers DEF T
<1>9. sum[n] = OnesComplement(Added(w, n)[n])
  BY <1>1, <1>8
<1> QED
  BY <1>5, <1>9

-----------------------------------------------------------------------------
(* Headers *)

LEMMA TimeAndProtocal ==
  ASSUME NEW time \in Octets, NEW protocal \in Octets
  PROVE  time + BYTE * protocal \in Words
<1>1. BYTE \in Nat /\ BYTE >= 2 /\ time \in 0 .. BYTE - 1 /\ protocal \in 0 .. BYTE - 1
  BY ChecksumAssumption DEF Octets
<1>2. BYTE * protocal <= BYTE * (BYTE - 1) /\ BYTE * protocal >= 0
  BY <1>1
<1>3. BYTE * (BYTE - 1) = BYTE * BYTE - BYTE
  BY <1>1
<1>4. QED
  BY <1>1, <1>2, <1>3 DEF Words, WORD

\* A header that is given its checksum verifies.
LEMMA CheckedVerifies ==
  ASSUME NEW h \in Header
  PROVE  Checked(h) \in Header /\ OnesComplement(HeaderSum(Checked(h))) = WORD - 1
<1> DEFINE s == h.others + (h.time + BYTE * h.protocal)
<1>1. /\ h.others \in 0 .. MaxOthers /\ h.time \in Octets /\ h.protocal \in Octets
      /\ MaxOthers \in Nat
  BY ChecksumAssumption DEF Header
<1>2. h.time + BYTE * h.protocal \in Words
  BY <1>1, TimeAndProtocal
<1> DEFINE w == h.time + BYTE * h.protocal
<1> HIDE DEF w
<1>3. WORD * WORD \in Nat /\ MaxOthers + 2 * WORD <= WORD * WORD
  BY WordIs, ChecksumAssumption
<1>4. s \in 0 .. WORD * WORD - 1
  <2>1. w \in 0 .. WORD - 1
    BY <1>2 DEF w, Words
  <2>2. h.others + w \in 0 .. WORD * WORD - 1
    BY <1>1, <1>3, <2>1, WordIs
  <2>3. QED
    BY <2>2 DEF w
<1>5. HeaderSum([h EXCEPT !.csum = 0]) = s
  BY <1>1, <1>4 DEF HeaderSum, Header
<1> HIDE DEF s
<1>6. Checked(h) = [h EXCEPT !.csum = Finish(s)]
  BY <1>5 DEF Checked
<1>7. Finish(s) \in Words /\ OnesComplement(s + Finish(s)) = WORD - 1
  BY <1>4, FinishIs
<1>8. Checked(h) \in Header
  BY <1>6, <1>7 DEF Header
<1>9. HeaderSum(Checked(h)) = s + Finish(s)
  BY <1>6, <1>7 DEF HeaderSum, Header, s
<1>10. QED
  BY <1>7, <1>8, <1>9

-----------------------------------------------------------------------------
(* Segments *)

\* The octets that tcp_pack and tcp_unpack add up.
Summed(s) == Sum(Pseudo \o s)

SegmentOK(s) == s \in Seq(Octets) /\ Len(s) \in 4 .. 4 + MaxTail

\* Until it is unpacked, a segment adds up to all ones if and only if it came as it was
\* packed.
SegmentInv ==
  /\ damaged \in BOOLEAN /\ csum \in Words /\ stored \in Words \cup {Unpacked}
  /\ IF segment = <<>> THEN stored = Unpacked /\ ~damaged ELSE SegmentOK(segment)
  /\ segment # <<>> /\ stored = Unpacked =>
       (damaged <=> OnesComplement(Summed(segment)) # WORD - 1)
  /\ UnpackTells

LEMMA OctetsJoined ==
  ASSUME NEW s \in Seq(Octets), NEW t \in Seq(Octets)
  PROVE  /\ s \o t \in Seq(Octets) /\ Len(s \o t) = Len(s) + Len(t)
         /\ \A k \in 1 .. Len(s) + Len(t) :
              (s \o t)[k] = IF k <= Len(s) THEN s[k] ELSE t[k - Len(s)]
BY ConcatProperties

\* A header, its checksum field and the tail behind it.
LEMMA Joined ==
  ASSUME NEW start \in Seq(Octets), NEW field \in Seq(Octets), NEW tail \in Seq(Octets),
         Len(start) = 2, Len(field) = 2
  PROVE  /\ start \o field \o tail \in Seq(Octets)
         /\ Len(start \o field \o tail) = 4 + Len(tail)
         /\ \A k \in 1 .. 4 + Len(tail) :
              (start \o field \o tail)[k]
                = IF k <= 2 THEN start[k] ELSE IF k <= 4 THEN field[k - 2] ELSE tail[k - 4]
         /\ Pseudo \o start \o field \o tail = Pseudo \o (start \o field \o tail)
<1> DEFINE front == start \o field
<1>1. Pseudo \in Seq(Octets)
  BY ChecksumAssumption
<1>2. /\ front \in Seq(Octets) /\ Len(front) = Len(start) + Len(field)
      /\ \A k \in 1 .. Len(start) + Len(field) :
           front[k] = IF k <= Len(start) THEN start[k] ELSE field[k - Len(start)]
  BY ConcatProperties
<1>3. (Pseudo \o start) \o field = Pseudo \o front
  BY <1>1, ConcatAssociative
<1> HIDE DEF front
<1>4. Len(front) = 4 /\ \A k \in 1 .. 4 : front[k] = IF k <= 2 THEN start[k] ELSE field[k - 2]
  BY <1>2
<1>5. /\ front \o tail \in Seq(Octets) /\ Len(front \o tail) = Len(front) + Len(tail)
      /\ \A k \in 1 .. Len(front) + Len(tail) :
           (front \o tail)[k] = IF k <= Len(front) THEN front[k] ELSE tail[k - Len(front)]
  BY <1>2, OctetsJoined
<1>6. \A k \in 1 .. 4 + Len(tail) : k <= 4 => k \in 1 .. 4
  OBVIOUS
<1>7. (Pseudo \o front) \o tail = Pseudo \o (front \o tail)
  <2>1. Pseudo \in Seq(Octets) /\ front \in Seq(Octets) /\ tail \in Seq(Octets)
    BY <1>1, <1>2
  <2> QED
    BY ONLY <2>1, ConcatAssociative
<1>8. \A k \in 1 .. 4 + Len(tail) :
        (front \o tail)[k]
          = IF k <= 2 THEN start[k] ELSE IF k <= 4 THEN field[k - 2] ELSE tail[k - 4]
  <2> TAKE k \in 1 .. 4 + Len(tail)
  <2>1. (front \o tail)[k] = IF k <= 4 THEN front[k] ELSE tail[k - 4]
    BY <1>4, <1>5
  <2>2. k <= 4 => front[k] = IF k <= 2 THEN start[k] ELSE field[k - 2]
    BY <1>4, <1>6
  <2>3. k <= 2 => k <= 4
    OBVIOUS
  <2> QED
    BY <2>1, <2>2, <2>3
<1> QED
  BY <1>3, <1>4, <1>5, <1>7, <1>8 DEF front

LEMMA WithPseudo ==
  ASSUME NEW s \in Seq(Octets), NEW n, Len(s) = n
  PROVE  /\ Pseudo \o s \in Seq(Octets) /\ Len(Pseudo \o s) = Len(Pseudo) + n
         /\ \A k \in 1 .. Len(Pseudo) + n :
              (Pseudo \o s)[k] = IF k <= Len(Pseudo) THEN Pseudo[k] ELSE s[k - Len(Pseudo)]
         /\ \A k \in 1 .. n : (Pseudo \o s)[Len(Pseudo) + k] = s[k]
<1>1. Pseudo \in Seq(Octets) /\ Len(Pseudo) \in Nat /\ n \in Nat
  BY ChecksumAssumption
<1>2. /\ Pseudo \o s \in Seq(Octets) /\ Len(Pseudo \o s) = Len(Pseudo) + n
      /\ \A k \in 1 .. Len(Pseudo) + n :
           (Pseudo \o s)[k] = IF k <= Len(Pseudo) THEN Pseudo[k] ELSE s[k - Len(Pseudo)]
  BY <1>1, ConcatProperties
<1>3. \A k \in 1 .. n : /\ Len(Pseudo) + k \in 1 .. Len(Pseudo) + n
                        /\ ~ (Len(Pseudo) + k <= Len(Pseudo))
                        /\ Len(Pseudo) + k - Len(Pseudo) = k
  BY <1>1
<1> QED
  BY <1>2, <1>3

\* tcp_pack and tcp_unpack see in_cksum yield the one's complement of the sum.
LEMMA CksumOfSegment ==
  ASSUME NEW s \in Seq(Octets), Len(s) <= 4 + MaxTail
  PROVE  /\ Summed(s) \in 0 .. WORD * WORD - 1
         /\ in_cksum(Pseudo \o s) = WORD - 1 - OnesComplement(Summed(s))
         /\ OnesComplementOf(Pseudo \o s) = OnesComplement(Summed(s))
<1>1. Pseudo \o s \in Seq(Octets) /\ Len(Pseudo \o s) <= 2 * WORD
  <2>1. Len(Pseudo) + 4 + MaxTail <= 2 * WORD /\ MaxTail \in Nat /\ Len(Pseudo) \in Nat
    BY ChecksumAssumption
  <2> QED
    BY <2>1, WithPseudo, WordIs
<1>2. Sum(Pseudo \o s) \in 0 .. WORD * WORD - 1
  BY <1>1, SumBound
<1> QED
  BY <1>1, <1>2, TwoFoldsSuffice, CarriesMayWait DEF Summed, in_cksum, Finish

\* Another octet in one place is less than a multiple of WORD - 1 away.
LEMMA DamageShows ==
  ASSUME NEW s \in Nat, NEW t \in Nat, s # t, OnesComplement(s) = WORD - 1,
         s - t < WORD - 1, t - s < WORD - 1
  PROVE  OnesComplement(t) # WORD - 1
<1> DEFINE n == WORD - 1
<1>1. WORD \in Nat /\ n \in Nat \ {0} /\ n >= 3
  BY WordIs
<1> HIDE DEF n
<1>2. ASSUME NEW a \in Nat, OnesComplement(a) = n
      PROVE  \E q \in Nat : a = n * q + n
  <2>1. a # 0 /\ ((a - 1) % n) + 1 = n
    BY <1>1, <1>2 DEF OnesComplement, n
  <2>2. a - 1 \in Nat
    BY <2>1
  <2> DEFINE q == (a - 1) \div n
             m == (a - 1) % n
  <2>3. m \in 0 .. n - 1 /\ q \in Nat /\ a - 1 = n * q + m
    BY <1>1, <2>2, DivMod
  <2>4. m + 1 = n
    BY <2>1
  <2> HIDE DEF m, q
  <2>5. a = n * q + n
    BY <1>1, <2>3, <2>4
  <2> QED
    BY <2>3, <2>5
<1> SUFFICES ASSUME OnesComplement(t) = n PROVE FALSE
  BY DEF n
<1>3. PICK q \in Nat : s = n * q + n
  BY <1>2 DEF n
<1>4. PICK r \in Nat : t = n * r + n
  BY <1>2
<1>5. s - t < n /\ t - s < n
  BY DEF n
<1>6. CASE q > r
  <2>1. n * q = n * r + n * (q - r) /\ n * (q - r) >= n /\ n * r \in Nat /\ n * (q - r) \in Int
    BY <1>1, <1>6
  <2> QED
    BY <1>1, <1>3, <1>4, <1>5, <2>1
<1>7. CASE r > q
  <2>1. n * r = n * q + n * (r - q) /\ n * (r - q) >= n /\ n * q \in Nat /\ n * (r - q) \in Int
    BY <1>1, <1>7
  <2> QED
    BY <1>1, <1>3, <1>4, <1>5, <2>1
<1> QED
  BY <1>3, <1>4, <1>6, <1>7

LEMMA FieldIs ==
  ASSUME NEW word \in Words
  PROVE  /\ Field(word) \in Seq(Octets) /\ Len(Field(word)) = 2
         /\ Field(word)[1] \in Octets /\ Field(word)[2] \in Octets
         /\ word = Field(word)[1] + BYTE * Field(word)[2]
<1>1. BYTE \in Nat \ {0} /\ word \in 0 .. BYTE * BYTE - 1 /\ BYTE * BYTE \in Nat
  BY OctetIs DEF Words, WORD
<1>2. word % BYTE \in 0 .. BYTE - 1 /\ word \div BYTE \in Nat
      /\ word = BYTE * (word \div BYTE) + (word % BYTE)
  <2>1. word \in Nat
    BY <1>1
  <2> QED
    BY <1>1, <2>1, DivMod
<1>3. word \div BYTE <= BYTE - 1
  <2>1. CASE word \div BYTE >= BYTE
    <3>1. BYTE * (word \div BYTE) >= BYTE * BYTE
      BY <1>1, <1>2, <2>1
    <3> QED
      BY <1>1, <1>2, <3>1
  <2> QED
    BY <1>1, <1>2, <2>1
<1> QED
  BY <1>1, <1>2, <1>3 DEF Field, Octets

\* With its checksum in the field that was 0, a segment adds up to all ones.
LEMMA PackedIsAllOnes ==
  ASSUME NEW start \in [1 .. 2 -> Octets], NEW tail \in Tails
  PROVE  LET check  == in_cksum(Pseudo \o start \o Field(0) \o tail)
             packed == start \o Field(check) \o tail
         IN  SegmentOK(packed) /\ OnesComplement(Summed(packed)) = WORD - 1
<1> DEFINE clear  == start \o Field(0) \o tail
           check  == in_cksum(Pseudo \o start \o Field(0) \o tail)
           packed == start \o Field(check) \o tail
           low    == Field(check)[1]
           high   == Field(check)[2]
           l      == Len(Pseudo)
           first  == [Pseudo \o clear EXCEPT ![l + 3] = low]
<1>1. start \in Seq(Octets) /\ Len(start) = 2
  <2>1. \A n \in Nat : \A f \in [1 .. n -> Octets] : f \in Seq(Octets) /\ Len(f) = n
    OBVIOUS
  <2> QED
    BY <2>1
<1>2. tail \in Seq(Octets) /\ Len(tail) \in 0 .. MaxTail /\ MaxTail \in Nat
  <2>1. PICK k \in 0 .. MaxTail : tail \in [1 .. k -> Octets]
    BY DEF Tails
  <2> QED
    BY <2>1, ChecksumAssumption
<1>3. Pseudo \in Seq(Octets) /\ l \in Nat /\ l % 2 = 0
  BY ChecksumAssumption
<1>4. 0 \in Words /\ BYTE \in Nat /\ BYTE # 0
  BY WordIs, OctetIs DEF Words
<1>5. /\ Field(0) \in Seq(Octets) /\ Len(Field(0)) = 2
      /\ Field(0)[1] = 0 /\ Field(0)[2] = 0
  BY <1>4, FieldIs, DivModIs DEF Field
<1>6. /\ clear \in Seq(Octets) /\ Len(clear) = 4 + Len(tail)
      /\ \A k \in 1 .. 4 + Len(tail) :
           clear[k] = IF k <= 2 THEN start[k]
                      ELSE IF k <= 4 THEN Field(0)[k - 2] ELSE tail[k - 4]
      /\ Pseudo \o start \o Field(0) \o tail = Pseudo \o clear
  BY <1>1, <1>2, <1>5, Joined
<1>7. check = in_cksum(Pseudo \o clear)
  BY <1>6
<1>8. Len(clear) <= 4 + MaxTail
  BY <1>2, <1>6
<1>9. /\ Summed(clear) \in 0 .. WORD * WORD - 1 /\ check = Finish(Summed(clear))
  BY <1>6, <1>7, <1>8, CksumOfSegment DEF in_cksum, Summed
<1>10. check \in Words /\ OnesComplement(Summed(clear) + check) = WORD - 1
  BY <1>9, FinishIs
<1>11. /\ Field(check) \in Seq(Octets) /\ Len(Field(check)) = 2
       /\ low \in Octets /\ high \in Octets /\ check = low + BYTE * high
  BY <1>10, FieldIs
<1>12. /\ packed \in Seq(Octets) /\ Len(packed) = 4 + Len(tail)
       /\ \A k \in 1 .. 4 + Len(tail) :
            packed[k] = IF k <= 2 THEN start[k]
                        ELSE IF k <= 4 THEN Field(check)[k - 2] ELSE tail[k - 4]
  BY <1>1, <1>2, <1>11, Joined
<1> HIDE DEF check, clear, packed, low, high, l
<1>13. SegmentOK(packed)
  BY <1>2, <1>12 DEF SegmentOK
<1>14. /\ Pseudo \o clear \in Seq(Octets) /\ Len(Pseudo \o clear) = l + 4 + Len(tail)
       /\ Pseudo \o packed \in Seq(Octets) /\ Len(Pseudo \o packed) = l + 4 + Len(tail)
       /\ \A k \in 1 .. l + 4 + Len(tail) :
            /\ (Pseudo \o clear)[k] = IF k <= l THEN Pseudo[k] ELSE clear[k - l]
            /\ (Pseudo \o packed)[k] = IF k <= l THEN Pseudo[k] ELSE packed[k - l]
  <2> DEFINE n == 4 + Len(tail)
  <2>1. n \in Nat /\ l + n = l + 4 + Len(tail)
    BY <1>2, <1>3
  <2> HIDE DEF n
  <2>2. Len(clear) = n /\ Len(packed) = n
    BY <1>6, <1>12 DEF n
  <2>3. /\ Pseudo \o clear \in Seq(Octets) /\ Len(Pseudo \o clear) = l + n
        /\ \A k \in 1 .. l + n :
             (Pseudo \o clear)[k] = IF k <= l THEN Pseudo[k] ELSE clear[k - l]
    BY <1>6, <2>2, WithPseudo DEF l
  <2>4. /\ Pseudo \o packed \in Seq(Octets) /\ Len(Pseudo \o packed) = l + n
        /\ \A k \in 1 .. l + n :
             (Pseudo \o packed)[k] = IF k <= l THEN Pseudo[k] ELSE packed[k - l]
    BY <1>12, <2>2, WithPseudo DEF l
  <2> QED
    BY <2>1, <2>3, <2>4
<1>15. l + 3 \in 1 .. l + 4 + Len(tail) /\ l + 4 \in 1 .. l + 4 + Len(tail) /\ l + 3 # l + 4
  BY <1>2, <1>3
<1>16. first \in Seq(Octets) /\ Len(first) = l + 4 + Len(tail)
       /\ \A k \in 1 .. l + 4 + Len(tail) :
            first[k] = IF k = l + 3 THEN low ELSE (Pseudo \o clear)[k]
  <2> DEFINE all == Pseudo \o clear
             n   == l + 4 + Len(tail)
  <2>1. all \in Seq(Octets) /\ Len(all) = n /\ l + 3 \in 1 .. n /\ low \in Octets
    BY <1>11, <1>14, <1>15
  <2>2. first = [all EXCEPT ![l + 3] = low]
    OBVIOUS
  <2> HIDE DEF all, first, n
  <2>3. /\ first \in Seq(Octets) /\ Len(first) = n
        /\ \A k \in 1 .. n : first[k] = IF k = l + 3 THEN low ELSE all[k]
    BY <2>1, <2>2
  <2> QED
    BY <2>3 DEF all, n
<1> HIDE DEF first
<1>17. (Pseudo \o clear)[l + 3] = 0 /\ (Pseudo \o clear)[l + 4] = 0
  <2>1. clear[3] = 0 /\ clear[4] = 0
    BY <1>2, <1>5, <1>6
  <2>2. \A k \in 1 .. Len(clear) : (Pseudo \o clear)[l + k] = clear[k]
    BY <1>6, WithPseudo DEF l
  <2>3. 3 \in 1 .. Len(clear) /\ 4 \in 1 .. Len(clear)
    BY <1>2, <1>6
  <2> QED
    BY <2>1, <2>2, <2>3
<1>18. Pseudo \o packed = [first EXCEPT ![l + 4] = high]
  <2> DEFINE both == [first EXCEPT ![l + 4] = high]
  <2>1. both \in Seq(Octets) /\ Len(both) = l + 4 + Len(tail)
        /\ \A k \in 1 .. l + 4 + Len(tail) : both[k] = IF k = l + 4 THEN high ELSE first[k]
    BY <1>11, <1>15, <1>16
  <2> HIDE DEF both
  <2>2. ASSUME NEW k \in 1 .. l + 4 + Len(tail) PROVE (Pseudo \o packed)[k] = both[k]
    <3>1. CASE k <= l
      <4>1. k # l + 3 /\ k # l + 4
        BY <1>3, <3>1
      <4> QED
        BY <1>14, <1>16, <2>1, <3>1, <4>1
    <3>2. CASE k > l
      <4>1. k - l \in 1 .. 4 + Len(tail)
        BY <1>2, <1>3, <3>2
      <4>2. packed[k - l] = IF k - l = 3 THEN low ELSE IF k - l = 4 THEN high ELSE clear[k - l]
        <5> DEFINE i == k - l
        <5>1. i \in 1 .. 4 + Len(tail) /\ (i = 3 => i - 2 = 1) /\ (i = 4 => i - 2 = 2)
              /\ (~ (i <= 2) /\ i <= 4 => i = 3 \/ i = 4)
          BY <4>1
        <5> HIDE DEF i
        <5>2. packed[i] = IF i = 3 THEN low ELSE IF i = 4 THEN high ELSE clear[i]
          BY <1>6, <1>12, <5>1 DEF low, high
        <5> QED
          BY <5>2 DEF i
      <4>3. (Pseudo \o packed)[k] = packed[k - l] /\ (Pseudo \o clear)[k] = clear[k - l]
        BY <1>3, <1>14, <3>2
      <4>4. (k - l = 3 <=> k = l + 3) /\ (k - l = 4 <=> k = l + 4)
        BY <1>3
      <4> QED
        BY <1>15, <1>16, <2>1, <4>2, <4>3, <4>4
    <3>3. k <= l \/ k > l
      BY <1>3
    <3> QED
      BY <3>1, <3>2, <3>3
  <2> QED
    BY <1>14, <2>1, <2>2, SeqEqual DEF both
<1>19. Sum(first) = Summed(clear) + low
  <2>1. (l + 3) % 2 = 1
    BY <1>3
  <2>2. Sum(first) = Sum(Pseudo \o clear) - 0 + low
    <3> DEFINE all == Pseudo \o clear
               p   == l + 3
    <3>1. /\ all \in Seq(Octets) /\ Len(first) = Len(all) /\ p \in 1 .. Len(all)
          /\ \A k \in 1 .. Len(all) : k # p => first[k] = all[k]
          /\ all[p] = 0 /\ first[p] = low /\ p % 2 = 1
      BY <1>14, <1>15, <1>16, <1>17, <2>1
    <3> HIDE DEF all, p
    <3>2. Sum(first) = Sum(all) - all[p] + first[p]
      BY <1>16, <3>1, OctetReplaced
    <3> QED
      BY <3>1, <3>2 DEF all
  <2> QED
    BY <1>9, <1>11, <2>2 DEF Summed
<1>20. Summed(packed) = Sum(first) + BYTE * high
  <2> DEFINE all == Pseudo \o packed
             p   == l + 4
  <2>1. p % 2 # 1
    BY <1>3
  <2>2. first[p] = 0
    BY <1>15, <1>16, <1>17
  <2>3. /\ all \in Seq(Octets) /\ Len(all) = Len(first) /\ p \in 1 .. Len(first)
        /\ \A k \in 1 .. Len(first) : k # p => all[k] = first[k]
        /\ all[p] = high
    BY <1>11, <1>14, <1>15, <1>16, <1>18
  <2> HIDE DEF all, p
  <2>4. Sum(all) = Sum(first) - BYTE * first[p] + BYTE * all[p]
    BY <1>16, <2>1, <2>3, OctetReplaced
  <2>5. Sum(first) \in Nat /\ BYTE * 0 = 0
    BY <1>4, <1>16, SumBound
  <2> QED
    BY <2>2, <2>3, <2>4, <2>5 DEF all, Summed
<1>21. Summed(packed) = Summed(clear) + check
  <2>1. low \in Nat /\ BYTE * high \in Nat /\ Summed(clear) \in Nat
    BY <1>4, <1>9, <1>11, OctetIs
  <2> QED
    BY <1>11, <1>19, <1>20, <2>1
<1> QED
  BY <1>10, <1>13, <1>21 DEF check, packed

\* A changed octet makes the sum another one, of which the checksum tells.
LEMMA DamagedIsNot ==
  ASSUME NEW s \in Seq(Octets), NEW k \in 1 .. Len(s), NEW octet \in Octets, octet # s[k],
         OnesComplement(Summed(s)) = WORD - 1
  PROVE  OnesComplement(Summed([s EXCEPT ![k] = octet])) # WORD - 1
<1> DEFINE l == Len(Pseudo)
           all == Pseudo \o s
           new == [s EXCEPT ![k] = octet]
<1>1. l \in Nat /\ Pseudo \in Seq(Octets) /\ Len(s) \in Nat
  BY ChecksumAssumption
<1>2. new \in Seq(Octets) /\ Len(new) = Len(s)
      /\ \A i \in 1 .. Len(s) : new[i] = IF i = k THEN octet ELSE s[i]
  BY ExceptSeq
<1>3. all \in Seq(Octets) /\ Len(all) = l + Len(s) /\ all[l + k] = s[k]
      /\ l + k \in 1 .. Len(all)
  BY <1>1, WithPseudo
<1>4. Pseudo \o new = [all EXCEPT ![l + k] = octet]
  <2>1. /\ Pseudo \o new \in Seq(Octets) /\ Len(Pseudo \o new) = l + Len(s)
        /\ \A i \in 1 .. l + Len(s) :
             /\ (Pseudo \o new)[i] = IF i <= l THEN Pseudo[i] ELSE new[i - l]
             /\ all[i] = IF i <= l THEN Pseudo[i] ELSE s[i - l]
    BY <1>1, <1>2, ConcatProperties
  <2> DEFINE other == [all EXCEPT ![l + k] = octet]
  <2>2. other \in Seq(Octets) /\ Len(other) = l + Len(s)
        /\ \A i \in 1 .. l + Len(s) : other[i] = IF i = l + k THEN octet ELSE all[i]
    <3>1. octet \in Octets /\ Len(all) = l + Len(s) /\ all \in Seq(Octets)
          /\ l + k \in 1 .. Len(all)
      BY <1>3
    <3>2. other = [all EXCEPT ![l + k] = octet]
      OBVIOUS
    <3> HIDE DEF all, other, l
    <3> QED
      BY <3>1, <3>2
  <2> HIDE DEF other, all, new, l
  <2>3. ASSUME NEW i \in 1 .. l + Len(s) PROVE (Pseudo \o new)[i] = other[i]
    <3>1. CASE i <= l
      <4>1. i # l + k
        BY <1>1, <3>1
      <4> QED
        BY <2>1, <2>2, <3>1, <4>1
    <3>2. CASE i > l
      <4>1. i - l \in 1 .. Len(s) /\ (i = l + k <=> i - l = k) /\ ~ (i <= l)
        BY <1>1, <3>2
      <4>2. (Pseudo \o new)[i] = new[i - l] /\ all[i] = s[i - l]
        BY <2>1, <4>1
      <4>3. new[i - l] = IF i - l = k THEN octet ELSE s[i - l]
        BY <1>2, <4>1 DEF new
      <4> QED
        BY <2>2, <4>1, <4>2, <4>3
    <3>3. i <= l \/ i > l
      BY <1>1
    <3> QED
      BY <3>1, <3>2, <3>3
  <2> QED
    BY <2>1, <2>2, <2>3, SeqEqual DEF other
<1> HIDE DEF all, new, l
<1>5. BYTE \in Nat /\ BYTE >= 2 /\ octet \in 0 .. BYTE - 1 /\ s[k] \in 0 .. BYTE - 1
  BY OctetIs
<1>6. Sum(all) \in Nat /\ Summed(new) \in Nat /\ Sum(all) = Summed(s)
  BY <1>2, <1>3, SumBound, WithPseudo DEF Summed, all
<1>7. /\ Summed(new) # Sum(all)
      /\ Summed(new) - Sum(all) < WORD - 1 /\ Sum(all) - Summed(new) < WORD - 1
  <2> DEFINE d == octet - s[k]
             other == Pseudo \o new
             p == l + k
  <2>0. Summed(new) = IF (l + k) % 2 = 1 THEN Sum(all) - s[k] + octet
                      ELSE Sum(all) - BYTE * s[k] + BYTE * octet
    <3>1. /\ other \in Seq(Octets) /\ Len(other) = Len(all) /\ p \in 1 .. Len(all)
          /\ \A i \in 1 .. Len(all) : i # p => other[i] = all[i]
          /\ other[p] = octet /\ all[p] = s[k]
      BY <1>3, <1>4
    <3> HIDE DEF other, p
    <3>2. Sum(other) = IF p % 2 = 1 THEN Sum(all) - all[p] + other[p]
                       ELSE Sum(all) - BYTE * all[p] + BYTE * other[p]
      BY <1>3, <3>1, OctetReplaced
    <3> QED
      BY <3>1, <3>2 DEF other, p, Summed
  <2>1. d \in Int /\ d # 0 /\ d <= BYTE - 1 /\ -d <= BYTE - 1
    BY <1>5
  <2>2. WORD = BYTE * BYTE /\ BYTE * BYTE >= 2 * BYTE
    BY <1>5 DEF WORD
  <2>3. CASE (l + k) % 2 = 1
    <3>1. Summed(new) = Sum(all) - s[k] + octet
      BY <2>0, <2>3
    <3> QED
      BY <1>5, <1>6, <2>1, <2>2, <3>1
  <2>4. CASE (l + k) % 2 # 1
    <3>1. Summed(new) = Sum(all) - BYTE * s[k] + BYTE * octet
      BY <2>0, <2>4
    <3>2. BYTE * octet = BYTE * s[k] + BYTE * d /\ BYTE * s[k] \in Nat /\ BYTE * d \in Int
      BY <1>5
    <3>3. Summed(new) = Sum(all) + BYTE * d
      BY <1>6, <3>1, <3>2
    <3> HIDE DEF d
    <3>4. BYTE * d <= BYTE * (BYTE - 1)
      BY <1>5, <2>1
    <3>5. BYTE * (-d) <= BYTE * (BYTE - 1) /\ BYTE * (-d) = -(BYTE * d)
      BY <1>5, <2>1
    <3>6. BYTE * d # 0
      BY <1>5, <2>1
    <3>7. BYTE * (BYTE - 1) = BYTE * BYTE - BYTE /\ BYTE * BYTE \in Nat
      BY <1>5
    <3> DEFINE e == BYTE * d
    <3>8. e \in Int /\ e # 0 /\ e < WORD - 1 /\ -e < WORD - 1
      BY <1>5, <2>2, <3>2, <3>4, <3>5, <3>6, <3>7
    <3>9. Summed(new) = Sum(all) + e
      BY <3>3
    <3> HIDE DEF e
    <3> QED
      BY <1>6, <3>8, <3>9, WordIs
  <2> QED
    BY <2>3, <2>4
<1> QED
  BY <1>6, <1>7, DamageShows DEF new

-----------------------------------------------------------------------------
(* The invariant *)

IInv == header \in Header /\ HeaderVerifies /\ SegmentInv

LEMMA Initially == Init => IInv
<1>1. 0 \in Octets /\ 0 \in Words /\ 0 \in 0 .. MaxOthers
  BY WordIs, ChecksumAssumption DEF Octets, Words
<1>2. Init => SegmentInv
  BY <1>1 DEF Init, SegmentInv, UnpackTells
<1>3. Init => header \in Header /\ HeaderVerifies
  BY <1>1 DEF Init, Header, HeaderVerifies
<1> QED
  BY <1>2, <1>3 DEF IInv

LEMMA HeaderStep == IInv /\ [Next]_vars => (header \in Header /\ HeaderVerifies)'
<1> SUFFICES ASSUME IInv, [Next]_vars PROVE (header \in Header /\ HeaderVerifies)'
  OBVIOUS
<1>1. CASE IpPack
  <2>1. PICK others \in 0 .. MaxOthers, protocal \in Octets :
          header' = Checked([others |-> others, time |-> TTL, protocal |-> protocal,
                             csum |-> 0, sent |-> TRUE])
    BY <1>1 DEF IpPack
  <2>2. [others |-> others, time |-> TTL, protocal |-> protocal,
         csum |-> 0, sent |-> TRUE] \in Header
    BY WordIs, ChecksumAssumption DEF Header, Words
  <2>3. QED
    BY <2>1, <2>2, CheckedVerifies DEF HeaderVerifies
<1>2. CASE Route
  <2>1. header' = Checked(CountDown(header))
    BY <1>2 DEF Route
  <2>2. (header.time + BYTE - 1) % BYTE \in Octets
    <3>1. BYTE \in Nat \ {0} /\ header.time + BYTE - 1 \in Nat
      BY ChecksumAssumption DEF IInv, Header, Octets
    <3>2. QED
      BY <3>1, DivMod DEF Octets
  <2>3. CountDown(header) \in Header
    BY <2>2 DEF CountDown, IInv, Header
  <2>4. QED
    BY <2>1, <2>3, CheckedVerifies DEF HeaderVerifies
<1>3. CASE UNCHANGED header
  BY <1>3 DEF IInv, HeaderVerifies, HeaderSum
<1>4. QED
  BY <1>1, <1>2, <1>3 DEF Next, TcpPack, Damage, TcpUnpack, vars

LEMMA UnpackedIs == Unpacked \notin Words
BY WordIs DEF Unpacked, Words

LEMMA SegmentStep == IInv /\ [Next]_vars => SegmentInv'
<1> SUFFICES ASSUME SegmentInv, [Next]_vars PROVE SegmentInv'
  BY DEF IInv
<1> USE DEF SegmentInv
<1>1. CASE UNCHANGED <<segment, damaged, csum, stored>>
  BY <1>1 DEF UnpackTells, Reported
<1>2. CASE TcpPack
  <2>1. PICK start \in [1 .. 2 -> Octets], tail \in Tails :
          LET sum == in_cksum(Pseudo \o start \o Field(0) \o tail)
          IN  segment' = start \o Field(sum) \o tail
    BY <1>2 DEF TcpPack
  <2>2. SegmentOK(segment') /\ OnesComplement(Summed(segment')) = WORD - 1
    BY <2>1, PackedIsAllOnes
  <2>3. segment' # <<>>
    BY <2>2 DEF SegmentOK
  <2>4. stored = Unpacked /\ ~damaged /\ UNCHANGED <<damaged, csum, stored>>
    BY <1>2 DEF TcpPack
  <2> QED
    BY <2>2, <2>3, <2>4 DEF UnpackTells
<1>3. CASE Damage
  <2>1. /\ segment # <<>> /\ ~damaged /\ stored = Unpacked /\ damaged' = TRUE
        /\ csum' = csum /\ stored' = stored
    BY <1>3 DEF Damage
  <2>2. SegmentOK(segment) /\ OnesComplement(Summed(segment)) = WORD - 1
    BY <2>1
  <2>3. PICK k \in 1 .. Len(segment), octet \in Octets :
          octet # segment[k] /\ segment' = [segment EXCEPT ![k] = octet]
    BY <1>3 DEF Damage
  <2>4. OnesComplement(Summed(segment')) # WORD - 1
    BY <2>2, <2>3, DamagedIsNot DEF SegmentOK
  <2>5. SegmentOK(segment') /\ segment' # <<>>
    BY <2>2, <2>3, ExceptSeq DEF SegmentOK
  <2> QED
    BY <2>1, <2>4, <2>5 DEF UnpackTells
<1>4. CASE TcpUnpack
  <2>1. /\ segment # <<>> /\ stored = Unpacked /\ stored' = in_cksum(Pseudo \o segment)
        /\ segment' = [segment EXCEPT ![3] = Field(stored')[1], ![4] = Field(stored')[2]]
        /\ damaged' = damaged /\ csum' = segment[3] + BYTE * segment[4]
    BY <1>4 DEF TcpUnpack
  <2>2. SegmentOK(segment) /\ MaxTail \in Nat /\ Len(segment) <= 4 + MaxTail
    BY <2>1, ChecksumAssumption DEF SegmentOK
  <2>3. /\ Summed(segment) \in 0 .. WORD * WORD - 1
        /\ stored' = WORD - 1 - OnesComplement(Summed(segment))
    BY <2>1, <2>2, CksumOfSegment DEF SegmentOK
  <2>4. stored' \in Words
    BY <2>1, <2>3, FinishIs DEF in_cksum, Summed
  <2>5. stored' = 0 <=> ~damaged
    <3>1. WORD \in Nat /\ OnesComplement(Summed(segment)) \in Int
      <4>1. Summed(segment) = 0 \/ (Summed(segment) - 1 \in Nat /\ WORD - 1 \in Nat \ {0})
        BY <2>3, WordIs
      <4> QED
        BY <4>1, DivMod, WordIs DEF OnesComplement
    <3> QED
      BY <2>1, <2>3, <3>1
  <2>6. SegmentOK(segment') /\ segment' # <<>>
    <3>1. Field(stored')[1] \in Octets /\ Field(stored')[2] \in Octets
      BY <2>4, FieldIs
    <3>2. 3 \in 1 .. Len(segment) /\ 4 \in 1 .. Len(segment) /\ segment \in Seq(Octets)
      BY <2>2 DEF SegmentOK
    <3> DEFINE first == [segment EXCEPT ![3] = Field(stored')[1]]
    <3>3. first \in Seq(Octets) /\ Len(first) = Len(segment)
      BY <3>1, <3>2, ExceptSeq
    <3>4. segment' = [first EXCEPT ![4] = Field(stored')[2]]
      BY <2>1
    <3> HIDE DEF first
    <3>5. segment' \in Seq(Octets) /\ Len(segment') = Len(segment)
      BY <3>1, <3>2, <3>3, <3>4, ExceptSeq
    <3> QED
      BY <2>2, <3>5 DEF SegmentOK
  <2>7. csum' \in Words
    <3>1. segment[3] \in Octets /\ segment[4] \in Octets
      BY <2>2 DEF SegmentOK
    <3> QED
      BY <2>1, <3>1, WordOf
  <2>8. UnpackTells'
    <3>1. damaged' = damaged /\ stored' # Unpacked
      BY <2>1, <2>4, UnpackedIs
    <3> QED
      BY <2>5, <3>1 DEF UnpackTells, Reported
  <2> QED
    BY <2>1, <2>4, <2>6, <2>7, <2>8, UnpackedIs
<1> QED
  BY <1>1, <1>2, <1>3, <1>4 DEF Next, IpPack, Route, vars

LEMMA Inductive == IInv /\ [Next]_vars => IInv'
BY HeaderStep, SegmentStep DEF IInv

LEMMA Always == Spec => []IInv
BY Initially, Inductive, PTL DEF Spec

\* The fields hold words and octets: no checksum and no TTL leaves its width.
THEOREM TypeCorrect == Spec => []TypeOK
<1>1. IInv => TypeOK
  BY EmptySeq DEF IInv, SegmentInv, SegmentOK, TypeOK
<1> QED
  BY <1>1, Always, PTL

\* Each header that ip_pack, route or showicmp has put a checksum in verifies wherever
\* it is checked: its words with the checksum add up to all ones.
THEOREM HeadersVerify == Spec => []HeaderVerifies
<1>1. IInv => HeaderVerifies
  BY DEF IInv
<1> QED
  BY <1>1, Always, PTL

\* in_cksum, which lets the carries wait in an int, returns what RFC 1071 asks of it for
\* every segment, whether its number of octets is even or odd.
THEOREM CarriesAreFolded == Spec => []CarriesFolded
<1>1. IInv => CarriesFolded
  <2> SUFFICES ASSUME IInv PROVE CarriesFolded
    OBVIOUS
  <2>1. segment = <<>> => segment \in Seq(Octets) /\ Len(segment) = 0
    BY EmptySeq
  <2>2. MaxTail \in Nat
    BY ChecksumAssumption
  <2>3. segment \in Seq(Octets) /\ Len(segment) <= 4 + MaxTail
    BY <2>1, <2>2 DEF IInv, SegmentInv, SegmentOK
  <2> QED
    BY <2>3, CksumOfSegment DEF CarriesFolded, Summed
<1> QED
  BY <1>1, Always, PTL

\* After tcp_unpack, which adds the checksum up with the rest, the field is 0 for a
\* segment that came as it was packed, and not 0 for one with a damaged octet.
THEOREM UnpackIsTelling == Spec => []UnpackTells
<1>1. IInv => UnpackTells
  BY DEF IInv, SegmentInv
<1> QED
  BY <1>1, Always, PTL
=============================================================================
