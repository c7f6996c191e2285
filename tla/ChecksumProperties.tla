------------------------- MODULE ChecksumProperties -------------------------
(***************************************************************************)
(* What the checksums of the router are worth to those who check them.     *)
(***************************************************************************)
EXTENDS Checksum

\* The one's complement sum of words whose sum is s: every carry out of the word comes
\* back in at its low end, so that WORD - 1 counts for nothing.
OnesComplement(s) == IF s = 0 THEN 0 ELSE ((s - 1) % (WORD - 1)) + 1

\* The same, word by word, as RFC 1071 defines it.
EndAround(a, b) == IF a + b >= WORD THEN a + b - (WORD - 1) ELSE a + b

EndAroundSum(words, n) ==
  LET sum[k \in 0 .. n] == IF k = 0 THEN 0 ELSE EndAround(sum[k - 1], words[k])
  IN  sum

\* An odd last octet is a word with 0 for its high octet.
Padded(octets) ==
  [k \in 1 .. (Len(octets) + 1) \div 2 |->
     octets[2 * k - 1] + (IF 2 * k <= Len(octets) THEN BYTE * octets[2 * k] ELSE 0)]

OnesComplementOf(octets) ==
  LET n == (Len(octets) + 1) \div 2 IN EndAroundSum(Padded(octets), n)[n]

\* in_cksum adds in an int and folds the carries twice at the end; that is the one's
\* complement sum, for words in any number and also with an odd octet at the end.
CarriesFolded ==
  LET octets == Pseudo \o segment
  IN  /\ in_cksum(octets) = WORD - 1 - OnesComplementOf(octets)
      /\ OnesComplementOf(octets) = OnesComplement(Sum(octets))

\* A header the router sends verifies wherever it is checked: with its checksum
\* its words add up to all ones, also after each change of the TTL.
HeaderVerifies == header.sent => OnesComplement(HeaderSum(header)) = WORD - 1

\* What tcp_unpack leaves in the checksum field tells a segment that came as it was
\* packed from one with a damaged octet, wherever in the segment that is.  What it reports
\* does not: of the segments that came as they were packed it reports each, but for those
\* whose checksum is 0.
UnpackTells ==
  stored # Unpacked =>
    /\ stored = 0 <=> ~damaged
    /\ ~damaged => (Reported <=> csum # 0)
=============================================================================
