------------------------------ MODULE Checksum ------------------------------
(***************************************************************************)
(* The checksums of function/function_head.c: in_cksum, the headers that   *)
(* ip_pack and tcp_pack fill in, the new checksum route() and showicmp     *)
(* give a header whose TTL they count down, and tcp_unpack, which compares *)
(* a sum that includes the checksum itself.                                *)
(*                                                                         *)
(* An IP header or a TCP segment goes through these functions alone; an    *)
(* octet of the segment may be damaged on the way.                         *)
(***************************************************************************)
EXTENDS Naturals, Sequences

CONSTANTS BYTE,          \* values of an octet, 256 in the code
          TTL,           \* what ip_pack sets, 64 in the code
          Pseudo,        \* the octets of the pseudo header
          MaxTail,       \* bound on a segment's octets behind its checksum
          MaxOthers      \* bound on the sum of the header's other words

WORD   == BYTE * BYTE
Octets == 0 .. BYTE - 1
Words  == 0 .. WORD - 1

ASSUME ChecksumAssumption ==
  /\ BYTE \in Nat /\ BYTE >= 2
  /\ TTL \in Octets
  /\ Pseudo \in Seq(Octets) /\ Len(Pseudo) % 2 = 0
  /\ MaxTail \in Nat /\ MaxOthers \in Nat
  \* No sum reaches WORD^2, 2^32 in the code: an IP packet's does not reach half of it,
  \* which is what an int holds.
  /\ MaxOthers + 2 * WORD <= WORD * WORD
  /\ Len(Pseudo) + 4 + MaxTail <= 2 * WORD

VARIABLES header,        \* the IP header, see Header
          segment,       \* the octets of the TCP segment, <<>> for none yet
          damaged,       \* an octet of it is not what it was
          csum,          \* tcp_unpack's csum: the checksum the segment came with
          stored         \* what tcp_unpack has put in its place

vars == <<header, segment, damaged, csum, stored>>

\* The words that stay what they are count by their sum; sent says that ip_pack is done.
Header == [others : 0 .. MaxOthers, time : Octets, protocal : Octets, csum : Words,
           sent : BOOLEAN]

Unpacked == WORD       \* tcp_unpack has not been called

TypeOK ==
  /\ header \in Header
  /\ segment \in Seq(Octets) /\ damaged \in BOOLEAN
  /\ csum \in Words /\ stored \in Words \cup {Unpacked}

Init ==
  /\ header = [others |-> 0, time |-> 0, protocal |-> 0, csum |-> 0, sent |-> FALSE]
  /\ segment = <<>> /\ damaged = FALSE /\ csum = 0 /\ stored = Unpacked

-----------------------------------------------------------------------------
(* in_cksum *)

\* Octets as words, low octet first; an odd last one is not in them.
WordsOf(octets) ==
  [k \in 1 .. Len(octets) \div 2 |-> octets[2 * k - 1] + BYTE * octets[2 * k]]

\* The loop over n words: what has been added up after each of them.
Added(words, n) ==
  LET sum[k \in 0 .. n] == IF k = 0 THEN 0 ELSE sum[k - 1] + words[k]
  IN  sum

\* Mutant: the last octet of an odd number is left out.
TaillessSum(octets) == Added(WordsOf(octets), Len(octets) \div 2)[Len(octets) \div 2]

\* The words, and an odd last octet.
Sum(octets) ==
  Added(WordsOf(octets), Len(octets) \div 2)[Len(octets) \div 2]
  + (IF Len(octets) % 2 = 1 THEN octets[Len(octets)] ELSE 0)

\* sum = (sum >> 16) + (sum & 0xffff)
Fold(sum) == (sum \div WORD) + (sum % WORD)

\* Mutant: the carry of the first fold is dropped.
FoldedOnce(sum) == Fold(sum) % WORD

\* Mutant: the result is not cut to a word.
UntruncatedFoldedTwice(sum) == Fold(sum) + (Fold(sum) \div WORD)

\* sum += sum >> 16, and the low word of that.
FoldedTwice(sum) == (Fold(sum) + (Fold(sum) \div WORD)) % WORD

\* res = ~sum
Finish(sum) == WORD - 1 - FoldedTwice(sum)

in_cksum(octets) == Finish(Sum(octets))

-----------------------------------------------------------------------------
(* IP headers *)

HeaderSum(h) == h.others + (h.time + BYTE * h.protocal) + h.csum

\* The field is cleared, and the sum of the header put in it.
Checked(h) == [h EXCEPT !.csum = Finish(HeaderSum([h EXCEPT !.csum = 0]))]

\* Its argument time is not used.
IpPack ==
  /\ ~header.sent /\ segment = <<>>
  /\ \E others \in 0 .. MaxOthers, protocal \in Octets :
       header' = Checked([others |-> others, time |-> TTL, protocal |-> protocal,
                          csum |-> 0, sent |-> TRUE])
  /\ UNCHANGED <<segment, damaged, csum, stored>>

\* ip->time --, in route() and in showicmp, also from 0.
CountDown(h) == [h EXCEPT !.time = (@ + BYTE - 1) % BYTE]

\* Mutant: the old checksum is not cleared.
UnclearedRoute ==
  /\ header.sent
  /\ LET h == CountDown(header) IN header' = [h EXCEPT !.csum = Finish(HeaderSum(h))]
  /\ UNCHANGED <<segment, damaged, csum, stored>>

\* The checksum is made anew.
Route ==
  /\ header.sent
  /\ header' = Checked(CountDown(header))
  /\ UNCHANGED <<segment, damaged, csum, stored>>

-----------------------------------------------------------------------------
(* TCP segments: two octets for the header up to its checksum, which is on an even *)
(* place, and a tail for the rest                                                  *)

Tails == UNION {[1 .. n -> Octets] : n \in 0 .. MaxTail}
Field(word) == <<word % BYTE, word \div BYTE>>

TcpPack ==
  /\ segment = <<>> /\ ~header.sent
  /\ \E start \in [1 .. 2 -> Octets], tail \in Tails :
       LET sum == in_cksum(Pseudo \o start \o Field(0) \o tail)
       IN  segment' = start \o Field(sum) \o tail
  /\ UNCHANGED <<header, damaged, csum, stored>>

\* The network changes an octet.
Damage ==
  /\ segment # <<>> /\ ~damaged /\ stored = Unpacked
  /\ \E k \in 1 .. Len(segment), octet \in Octets :
       octet # segment[k] /\ segment' = [segment EXCEPT ![k] = octet]
  /\ damaged' = TRUE
  /\ UNCHANGED <<header, csum, stored>>

\* The segment is copied before its field is cleared, so the sum includes the field;
\* and the sum replaces it.
TcpUnpack ==
  /\ segment # <<>> /\ stored = Unpacked
  /\ csum' = segment[3] + BYTE * segment[4]
  /\ stored' = in_cksum(Pseudo \o segment)
  /\ segment' = [segment EXCEPT ![3] = Field(stored')[1], ![4] = Field(stored')[2]]
  /\ UNCHANGED <<header, damaged>>

\* The test at its end, which reports a "csum error".
Reported == stored # Unpacked /\ stored # csum

Next == IpPack \/ Route \/ TcpPack \/ Damage \/ TcpUnpack

Spec == Init /\ [][Next]_vars
=============================================================================
