------------------------------ MODULE ArpProofs ------------------------------
(***************************************************************************)
(* For every even number of places, and any hosts, packets and replies: a  *)
(* packet only goes to an address its next hop has announced, and waits    *)
(* for it until it has been handed out; every scan of the wait buffer goes *)
(* upwards, once one has handed a packet out handle_arp never returns, and *)
(* what waits in a place with an even index is never sent.                 *)
(***************************************************************************)
EXTENDS ArpProperties, SequenceTheorems, TLAPS

(* The inductive invariant *)

\* While a reply is handled its address is in the cache.
ReplyEntered == handler # "idle" => reply \in Entry /\ Announced(reply.ip, reply.mac)

\* A place that was ever used still holds a packet and the hop of that very packet.
PlacesAgree ==
  \A s \in Slots : arp_wait_ip[s] # NoHost =>
    /\ arp_wait_buf[s] \in 1 .. Len(packet)
    /\ packet[arp_wait_buf[s]] = arp_wait_ip[s]

\* The packet handed out is for the host that answered.
HandedForReply ==
  handler = "found" => buff \in 1 .. Len(packet) /\ packet[buff] = reply.ip

IInv == TypeOK /\ ReplyEntered /\ PlacesAgree /\ HandedForReply /\ SentToItsHop /\ WaitsOrGone

-----------------------------------------------------------------------------
(* One more entry, one more packet *)

LEMMA OneMoreEntry ==
  ASSUME TypeOK, NEW e \in Entry, arp_table' = Append(arp_table, e)
  PROVE  /\ arp_table' \in Seq(Entry)
         /\ Announced(e.ip, e.mac)'
         /\ \A a \in Hosts, mac \in Macs : Announced(a, mac) => Announced(a, mac)'
<1>1. arp_table \in Seq(Entry)
  BY DEF TypeOK
<1>2. /\ arp_table' \in Seq(Entry)
      /\ Len(arp_table') = Len(arp_table) + 1
      /\ \A k \in 1 .. Len(arp_table) : arp_table'[k] = arp_table[k]
      /\ arp_table'[Len(arp_table) + 1] = e
  BY <1>1
<1>3. e = [ip |-> e.ip, mac |-> e.mac]
  BY DEF Entry
<1>4. Len(arp_table) \in Nat
  BY <1>1
<1>5. Announced(e.ip, e.mac)'
  BY <1>2, <1>3, <1>4 DEF Announced
<1>6. \A a \in Hosts, mac \in Macs : Announced(a, mac) => Announced(a, mac)'
  BY <1>2, <1>4 DEF Announced
<1>7. QED
  BY <1>2, <1>5, <1>6

LEMMA OneMorePacket ==
  ASSUME TypeOK, NEW a \in Hosts,
         packet' = Append(packet, a)
  PROVE  /\ packet' \in Seq(Hosts)
         /\ Len(packet) \in Nat
         /\ Len(packet') = Len(packet) + 1
         /\ \A p \in 1 .. Len(packet) : packet'[p] = packet[p]
         /\ packet'[Len(packet) + 1] = a
<1>1. packet \in Seq(Hosts) /\ a \in Hosts
  BY DEF TypeOK
<1>2. QED
  BY <1>1

\* The index of the place looked at.
LEMMA NextSlot ==
  ASSUME NEW k \in Slots
  PROVE  (k + 1) % WAIT_SLOTS \in Slots /\ (k + 1) % WAIT_SLOTS = IF k + 1 = WAIT_SLOTS THEN 0 ELSE k + 1
BY ArpAssumption DEF Slots

-----------------------------------------------------------------------------
(* The steps *)

LEMMA Initially == Init => IInv
<1> SUFFICES ASSUME Init PROVE IInv
  OBVIOUS
<1>1. TypeOK
  BY ArpAssumption DEF Init, TypeOK, Slots
<1>2. QED
  BY <1>1 DEF Init, IInv, ReplyEntered, PlacesAgree, HandedForReply, SentToItsHop, WaitsOrGone

\* What was sent before stays right when packets are added.
LEMMA SendKeepsOld ==
  ASSUME IInv, NEW a \in Hosts,
         packet' = Append(packet, a), UNCHANGED arp_table
  PROVE  \A s \in sent : \E k \in 1 .. Len(arp_table') :
           arp_table'[k] = [ip |-> packet'[s.packet], mac |-> s.mac]
<1>1. \A s \in sent : s.packet \in 1 .. Len(packet) /\ packet'[s.packet] = packet[s.packet]
  BY OneMorePacket DEF IInv, TypeOK
<1>2. \A s \in sent : Announced(packet[s.packet], s.mac)
  BY DEF IInv, SentToItsHop
<1>3. QED
  BY <1>1, <1>2 DEF Announced

LEMMA SendStep ==
  ASSUME IInv, NEW a \in Hosts, Send(a)
  PROVE  IInv'
<1> DEFINE p == Len(packet) + 1
<1>1. handler = "idle" /\ UNCHANGED <<arp_table, handler, i, reply, buff>>
      /\ packet' = Append(packet, a)
  BY DEF Send
<1>2. /\ packet' \in Seq(Hosts)
      /\ Len(packet) \in Nat
      /\ Len(packet') = Len(packet) + 1
      /\ \A q \in 1 .. Len(packet) : packet'[q] = packet[q]
      /\ packet'[p] = a
  BY <1>1, OneMorePacket DEF IInv
<1>3. \A s \in sent : \E k \in 1 .. Len(arp_table') :
        arp_table'[k] = [ip |-> packet'[s.packet], mac |-> s.mac]
  BY <1>1, SendKeepsOld
<1>4. ReplyEntered' /\ HandedForReply'
  BY <1>1 DEF ReplyEntered, HandedForReply
<1>5. CASE /\ UNCHANGED <<waitVars, dropped>>
           /\ \E k \in 1 .. Len(arp_table) :
                /\ search_arp_cache(a, k)
                /\ sent' = sent \cup {[packet |-> p, mac |-> arp_table[k].mac]}
  <2>1. PICK k \in 1 .. Len(arp_table) :
          /\ search_arp_cache(a, k)
          /\ sent' = sent \cup {[packet |-> p, mac |-> arp_table[k].mac]}
    BY <1>5
  <2>2. arp_table[k] \in Entry /\ arp_table[k].ip = a
    BY <2>1 DEF IInv, TypeOK, search_arp_cache
  <2>3. PICK mac \in Macs : mac = arp_table[k].mac
    BY <2>2 DEF Entry
  <2>4. arp_table[k] = [ip |-> a, mac |-> mac]
    BY <2>2, <2>3 DEF Entry
  <2>5. sent' = sent \cup {[packet |-> p, mac |-> mac]}
    BY <2>1, <2>3
  <2>6. Announced(a, mac)'
    BY <1>1, <2>4 DEF Announced
  <2>7. TypeOK'
    BY <1>1, <1>2, <1>5, <2>5 DEF IInv, TypeOK, waitVars
  <2>8. PlacesAgree'
    BY <1>2, <1>5 DEF IInv, TypeOK, PlacesAgree, waitVars
  <2>9. SentToItsHop'
    BY <1>2, <1>3, <2>5, <2>6 DEF SentToItsHop, Announced
  <2>10. WaitsOrGone'
    <3>1. \A q \in 1 .. Len(packet') : q = p \/ (q \in 1 .. Len(packet) /\ packet'[q] = packet[q])
      BY <1>2
    <3>2. \E s \in sent' : s.packet = p
      <4>1. PICK s : s = [packet |-> p, mac |-> mac]
        OBVIOUS
      <4>2. s \in sent' /\ s.packet = p
        BY <2>5, <4>1
      <4>3. QED
        BY <4>2
    <3>3. \A q \in 1 .. Len(packet) : Sent(q) => \E s \in sent' : s.packet = q
      BY <2>5 DEF Sent
    <3>4. QED
      BY <1>1, <1>5, <3>1, <3>2, <3>3 DEF IInv, WaitsOrGone, Sent, waitVars
  <2>11. QED
    BY <1>4, <2>7, <2>8, <2>9, <2>10 DEF IInv
<1>6. CASE /\ \E s \in Slots : FirstFree(s) /\ Put(s, p, a)
           /\ UNCHANGED <<sent, dropped>>
  <2>1. PICK t \in Slots : FirstFree(t) /\ Put(t, p, a)
    BY <1>6
  <2>2. ~arp_valid[t]
    BY <2>1 DEF FirstFree
  <2>3. TypeOK'
    BY <1>1, <1>2, <1>6, <2>1 DEF IInv, TypeOK, Put
  <2>4. /\ arp_wait_buf'[t] = p /\ arp_wait_ip'[t] = a /\ arp_valid'[t]
        /\ \A s \in Slots \ {t} : /\ arp_wait_buf'[s] = arp_wait_buf[s]
                                 /\ arp_wait_ip'[s] = arp_wait_ip[s]
                                 /\ arp_valid'[s] = arp_valid[s]
    BY <2>1 DEF IInv, TypeOK, Put
  <2>5. PlacesAgree'
    BY <1>2, <2>4 DEF IInv, PlacesAgree
  <2>6. SentToItsHop'
    BY <1>3, <1>6 DEF SentToItsHop, Announced
  <2>7. WaitsOrGone'
    BY <1>1, <1>2, <1>6, <2>2, <2>4 DEF IInv, WaitsOrGone, Sent
  <2>8. QED
    BY <1>4, <2>3, <2>5, <2>6, <2>7 DEF IInv
<1>7. CASE dropped' = dropped \cup {p} /\ UNCHANGED <<waitVars, sent>>
  <2>1. TypeOK'
    <3>1. dropped' \subseteq 1 .. Len(packet')
      <4>1. dropped \subseteq 1 .. Len(packet)
        BY DEF IInv, TypeOK
      <4>2. p \in 1 .. Len(packet') /\ 1 .. Len(packet) \subseteq 1 .. Len(packet')
        BY <1>2
      <4>3. QED
        BY <1>7, <4>1, <4>2
    <3>2. sent \subseteq [packet : 1 .. Len(packet'), mac : Macs]
      BY <1>2 DEF IInv, TypeOK
    <3>3. QED
      BY <1>1, <1>2, <1>7, <3>1, <3>2 DEF IInv, TypeOK, waitVars
  <2>2. PlacesAgree'
    BY <1>2, <1>7 DEF IInv, TypeOK, PlacesAgree, waitVars
  <2>3. SentToItsHop'
    BY <1>3, <1>7 DEF SentToItsHop, Announced
  <2>4. WaitsOrGone'
    BY <1>1, <1>2, <1>7 DEF IInv, WaitsOrGone, Sent, waitVars
  <2>5. QED
    BY <1>4, <2>1, <2>2, <2>3, <2>4 DEF IInv
<1>8. QED
  BY <1>5, <1>6, <1>7 DEF Send

LEMMA ReplyStep ==
  ASSUME IInv, NEW a \in Hosts, NEW mac \in Macs, Reply(a, mac)
  PROVE  IInv'
<1> DEFINE e == [ip |-> a, mac |-> mac]
<1>1. e \in Entry /\ arp_table' = Append(arp_table, e) /\ reply' = e
  BY DEF Reply, Entry
<1>2. /\ arp_table' \in Seq(Entry)
      /\ Announced(e.ip, e.mac)'
      /\ \A b \in Hosts, m \in Macs : Announced(b, m) => Announced(b, m)'
  BY <1>1, OneMoreEntry DEF IInv
<1>3. handler = "idle" /\ handler' = "scan" /\ i' = 0
      /\ UNCHANGED <<waitVars, packet, sent, dropped, buff>>
  BY DEF Reply
<1>4. TypeOK'
  BY <1>1, <1>2, <1>3, ArpAssumption DEF IInv, TypeOK, waitVars
<1>5. ReplyEntered'
  BY <1>1, <1>2 DEF ReplyEntered, Announced
<1>6. PlacesAgree' /\ HandedForReply'
  BY <1>3 DEF IInv, PlacesAgree, HandedForReply, waitVars
<1>7. SentToItsHop'
  <2>1. \A s \in sent : packet[s.packet] \in Hosts /\ s.mac \in Macs
    <3>1. packet \in Seq(Hosts)
      BY DEF IInv, TypeOK
    <3>2. \A q \in 1 .. Len(packet) : packet[q] \in Hosts
      BY <3>1, ElementOfSeq
    <3>3. \A s \in sent : s.packet \in 1 .. Len(packet) /\ s.mac \in Macs
      BY DEF IInv, TypeOK
    <3>4. QED
      BY <3>2, <3>3
  <2>2. QED
    BY <1>2, <1>3, <2>1 DEF IInv, SentToItsHop, Announced
<1>8. WaitsOrGone'
  BY <1>3 DEF IInv, WaitsOrGone, Sent, waitVars
<1>9. QED
  BY <1>4, <1>5, <1>6, <1>7, <1>8 DEF IInv

\* The scan hands out what the place read holds, and frees that place and no other.
LEMMA ScanNextStep == ASSUME IInv, ScanNext PROVE IInv'
<1>1. PICK next : next = (i + 1) % WAIT_SLOTS
  OBVIOUS
<1>2. i \in Slots /\ handler = "scan"
  <2>1. i \in 0 .. WAIT_SLOTS
    BY DEF IInv, TypeOK
  <2>2. handler = "scan" /\ i < WAIT_SLOTS
    BY DEF ScanNext
  <2>3. QED
    BY <2>1, <2>2, ArpAssumption DEF Slots
<1>3. next \in Slots
  BY <1>1, <1>2, NextSlot
<1>4. UNCHANGED <<arp_table, arp_wait_ip, arp_wait_buf, packet, sent, dropped, reply>>
  BY DEF ScanNext
<1>5. PlacesAgree' /\ SentToItsHop'
  BY <1>4 DEF IInv, PlacesAgree, SentToItsHop, Announced
<1>6. CASE ~Fits(next)
  <2>1. i' = next + 1 /\ UNCHANGED <<arp_valid, handler, buff>>
    BY <1>1, <1>6 DEF ScanNext
  <2>2. i' \in 0 .. WAIT_SLOTS
    BY <1>3, <2>1, ArpAssumption DEF Slots
  <2>3. TypeOK'
    BY <1>4, <2>1, <2>2 DEF IInv, TypeOK
  <2>4. ReplyEntered' /\ HandedForReply'
    BY <1>4, <2>1 DEF IInv, ReplyEntered, HandedForReply, Announced
  <2>5. WaitsOrGone'
    BY <1>4, <2>1 DEF IInv, WaitsOrGone, Sent
  <2>6. QED
    BY <1>5, <2>3, <2>4, <2>5 DEF IInv
<1>7. CASE Fits(next)
  <2>1. /\ buff' = arp_wait_buf[next] /\ arp_valid' = [arp_valid EXCEPT ![next] = FALSE]
        /\ handler' = "found" /\ i' = next
    BY <1>1, <1>7 DEF ScanNext, Free
  <2>2. reply \in Entry /\ arp_wait_ip[next] = reply.ip
    BY <1>2, <1>7 DEF IInv, ReplyEntered, Fits
  <2>3. buff' \in 1 .. Len(packet) /\ packet[buff'] = reply.ip
    BY <1>3, <2>1, <2>2, ArpAssumption DEF IInv, PlacesAgree, Entry
  <2>4. TypeOK'
    BY <1>3, <1>4, <2>1, <2>3, ArpAssumption DEF IInv, TypeOK, Slots
  <2>5. ReplyEntered' /\ HandedForReply'
    BY <1>2, <1>4, <2>1, <2>3 DEF IInv, ReplyEntered, HandedForReply, Announced
  <2>6. WaitsOrGone'
    <3>1. \A s \in Slots : arp_valid[s] => arp_valid'[s] \/ s = next
      BY <2>1 DEF IInv, TypeOK
    <3>2. QED
      BY <1>2, <1>4, <2>1, <3>1 DEF IInv, WaitsOrGone, Sent
  <2>7. QED
    BY <1>5, <2>4, <2>5, <2>6 DEF IInv
<1>8. QED
  BY <1>6, <1>7

LEMMA SendFoundStep == ASSUME IInv, SendFound PROVE IInv'
<1>1. /\ handler = "found" /\ handler' = "scan" /\ i' = 0
      /\ UNCHANGED <<arp_table, waitVars, packet, reply, buff>>
  BY DEF SendFound
<1>2. buff \in 1 .. Len(packet) /\ packet[buff] = reply.ip
  BY <1>1 DEF IInv, HandedForReply
<1>3. reply \in Entry /\ Announced(reply.ip, reply.mac)
  BY <1>1 DEF IInv, ReplyEntered
<1>4. ReplyEntered' /\ PlacesAgree' /\ HandedForReply'
  BY <1>1, <1>3 DEF IInv, ReplyEntered, PlacesAgree, HandedForReply, Announced, waitVars
<1>5. CASE /\ sent' = sent \cup {[packet |-> buff, mac |-> reply.mac]}
           /\ UNCHANGED dropped
  <2>1. TypeOK'
    BY <1>1, <1>2, <1>3, <1>5, ArpAssumption DEF IInv, TypeOK, waitVars, Entry
  <2>2. SentToItsHop'
    BY <1>1, <1>2, <1>3, <1>5 DEF IInv, SentToItsHop, Announced
  <2>3. WaitsOrGone'
    <3>1. \E s \in sent' : s.packet = buff
      <4>1. PICK s : s = [packet |-> buff, mac |-> reply.mac]
        OBVIOUS
      <4>2. s \in sent' /\ s.packet = buff
        BY <1>5, <4>1
      <4>3. QED
        BY <4>2
    <3>2. \A q \in 1 .. Len(packet) : Sent(q) => \E s \in sent' : s.packet = q
      BY <1>5 DEF Sent
    <3>3. QED
      BY <1>1, <1>5, <3>1, <3>2 DEF IInv, WaitsOrGone, Sent, waitVars
  <2>4. QED
    BY <1>4, <2>1, <2>2, <2>3 DEF IInv
<1>6. CASE dropped' = dropped \cup {buff} /\ UNCHANGED sent
  <2>1. TypeOK'
    <3>1. dropped' \subseteq 1 .. Len(packet)
      BY <1>2, <1>6 DEF IInv, TypeOK
    <3>2. i' \in 0 .. WAIT_SLOTS
      BY <1>1, ArpAssumption
    <3>3. QED
      BY <1>1, <1>6, <3>1, <3>2 DEF IInv, TypeOK, waitVars
  <2>2. SentToItsHop'
    BY <1>1, <1>6 DEF IInv, SentToItsHop, Announced
  <2>3. WaitsOrGone'
    BY <1>1, <1>6 DEF IInv, WaitsOrGone, Sent, waitVars
  <2>4. QED
    BY <1>4, <2>1, <2>2, <2>3 DEF IInv
<1>7. QED
  BY <1>5, <1>6 DEF SendFound

\* The other steps only move the scan.
LEMMA ScanMoves ==
  ASSUME IInv, ScanSkip \/ ScanDone \/ UNCHANGED vars
  PROVE  IInv'
<1>1. UNCHANGED <<arp_table, waitVars, packet, sent, dropped, reply, buff>>
  BY DEF ScanSkip, ScanDone, vars
<1>2. i' \in 0 .. WAIT_SLOTS /\ handler' \in {"idle", "scan", "found"}
  BY ArpAssumption DEF IInv, TypeOK, ScanSkip, ScanDone, vars
<1>3. /\ handler' # "idle" => handler # "idle"
      /\ (handler' = "found") <=> (handler = "found")
  BY DEF ScanSkip, ScanDone, vars
<1>4. TypeOK'
  BY <1>1, <1>2 DEF IInv, TypeOK, waitVars
<1>5. ReplyEntered' /\ PlacesAgree' /\ HandedForReply' /\ SentToItsHop'
  BY <1>1, <1>3 DEF IInv, ReplyEntered, PlacesAgree, HandedForReply, SentToItsHop, Announced, waitVars
<1>6. WaitsOrGone'
  BY <1>1, <1>3 DEF IInv, WaitsOrGone, Sent, waitVars
<1>7. QED
  BY <1>4, <1>5, <1>6 DEF IInv

LEMMA Inductive == IInv /\ [Next]_vars => IInv'
BY SendStep, ReplyStep, ScanNextStep, SendFoundStep, ScanMoves DEF Next, HandleArp

LEMMA Invariance == Spec => []IInv
<1>1. QED
  BY Initially, Inductive, PTL DEF Spec

\* Entries, places and indices stay well formed.
THEOREM TypeCorrect == Spec => []TypeOK
<1>1. IInv => TypeOK
  BY DEF IInv
<1>2. QED
  BY Invariance, <1>1, PTL

\* A packet only goes to an address its next hop has announced.
THEOREM OnlyToItsHop == Spec => []SentToItsHop
<1>1. IInv => SentToItsHop
  BY DEF IInv
<1>2. QED
  BY Invariance, <1>1, PTL

\* A packet waits for its next hop until it has been handed out.
THEOREM NoneForgotten == Spec => []WaitsOrGone
<1>1. IInv => WaitsOrGone
  BY DEF IInv
<1>2. QED
  BY Invariance, <1>1, PTL

-----------------------------------------------------------------------------
(* Where the scan goes *)

\* The even places below a place in use are in use: a packet is put into the first free
\* place, and only odd places are set free.
EvenFirst ==
  \A s, t \in Slots : arp_valid[s] /\ t < s /\ t % 2 = 0 => arp_valid[t]

\* The index is even until the scan meets a free place, and there is none in use after
\* that.
OddIsBehind ==
  handler = "scan" /\ i % 2 = 1 => \A s \in Slots : s >= i => ~arp_valid[s]

\* What was handed out lay in an odd place behind one in use.
FoundInOdd ==
  handler = "found" => i \in Slots /\ i % 2 = 1 /\ arp_valid[i - 1] /\ Fits(i)

ScanInv == EvenFirst /\ OddIsBehind /\ FoundInOdd

LEMMA ScanInitially == Init => ScanInv
BY DEF Init, ScanInv, EvenFirst, OddIsBehind, FoundInOdd

\* A place the scan finds in use is even, so the one it looks at is the next and odd.
LEMMA UsedIsEven ==
  ASSUME TypeOK, ScanInv, handler = "scan", i < WAIT_SLOTS, arp_valid[i]
  PROVE  /\ i \in Slots /\ i % 2 = 0
         /\ (i + 1) % WAIT_SLOTS = i + 1 /\ i + 1 \in Slots /\ (i + 1) % 2 = 1
<1>1. i \in Slots /\ i \in Nat
  BY ArpAssumption DEF TypeOK, Slots
<1>2. i % 2 = 0
  <2>1. i % 2 = 1 => ~arp_valid[i]
    BY <1>1 DEF ScanInv, OddIsBehind
  <2> QED
    BY <1>1, <2>1
<1>3. i + 1 # WAIT_SLOTS
  BY <1>1, <1>2, ArpAssumption
<1> QED
  BY <1>1, <1>2, <1>3, NextSlot, ArpAssumption DEF Slots

LEMMA ScanSendStep ==
  ASSUME TypeOK, ScanInv, NEW a \in Hosts, Send(a)
  PROVE  ScanInv'
<1>1. handler = "idle" /\ handler' = "idle"
  BY DEF Send
<1>2. CASE UNCHANGED waitVars
  BY <1>1, <1>2 DEF ScanInv, EvenFirst, OddIsBehind, FoundInOdd, waitVars
<1>3. CASE \E s \in Slots : FirstFree(s) /\ Put(s, Len(packet) + 1, a)
  <2>1. PICK p \in Slots : FirstFree(p) /\ Put(p, Len(packet) + 1, a)
    BY <1>3
  <2>2. \A s \in Slots : arp_valid'[s] = (s = p \/ arp_valid[s])
    BY <2>1 DEF TypeOK, Put
  <2>3. \A t \in Slots : t < p => arp_valid[t]
    BY <2>1, ArpAssumption DEF FirstFree, Slots
  <2>4. EvenFirst'
    BY <2>2, <2>3 DEF ScanInv, EvenFirst
  <2> QED
    BY <1>1, <2>4 DEF ScanInv, OddIsBehind, FoundInOdd
<1> QED
  BY <1>2, <1>3 DEF Send

LEMMA ScanSkipStep == ASSUME TypeOK, ScanInv, ScanSkip PROVE ScanInv'
<1>1. handler = "scan" /\ ~arp_valid[i] /\ i' = i + 1 /\ handler' = "scan" /\ arp_valid' = arp_valid
  BY DEF ScanSkip, waitVars
<1>2. i \in Slots /\ i \in Nat
  BY ArpAssumption DEF TypeOK, ScanSkip, Slots
<1>3. EvenFirst'
  BY <1>1 DEF ScanInv, EvenFirst
<1>4. OddIsBehind'
  <2> SUFFICES ASSUME i' % 2 = 1, NEW s \in Slots, s >= i' PROVE ~arp_valid'[s]
    BY DEF OddIsBehind
  <2>1. i % 2 = 0 /\ i < s
    BY <1>1, <1>2, ArpAssumption DEF Slots
  <2> QED
    BY <1>1, <1>2, <2>1 DEF ScanInv, EvenFirst
<1> QED
  BY <1>1, <1>3, <1>4 DEF ScanInv, FoundInOdd

LEMMA ScanNextKeeps == ASSUME TypeOK, ScanInv, ScanNext PROVE ScanInv'
<1>1. /\ handler = "scan" /\ i \in Slots /\ i \in Nat /\ i % 2 = 0 /\ arp_valid[i]
      /\ (i + 1) % WAIT_SLOTS = i + 1 /\ i + 1 \in Slots /\ (i + 1) % 2 = 1
  BY UsedIsEven DEF ScanNext, Slots
<1>2. arp_wait_ip' = arp_wait_ip /\ reply' = reply
  BY DEF ScanNext
<1>3. CASE ~Fits(i + 1)
  <2>1. i' = i + 1 + 1 /\ arp_valid' = arp_valid /\ handler' = "scan"
    BY <1>1, <1>3 DEF ScanNext
  <2>2. i' % 2 = 0
    BY <1>1, <2>1
  <2> QED
    BY <2>1, <2>2 DEF ScanInv, EvenFirst, OddIsBehind, FoundInOdd
<1>4. CASE Fits(i + 1)
  <2>1. /\ arp_valid' = [arp_valid EXCEPT ![i + 1] = FALSE]
        /\ handler' = "found" /\ i' = i + 1
    BY <1>1, <1>4 DEF ScanNext, Free
  <2>2. \A s \in Slots : arp_valid'[s] = (s # i + 1 /\ arp_valid[s])
    BY <2>1 DEF TypeOK
  <2>3. EvenFirst'
    <3> SUFFICES ASSUME NEW s \in Slots, NEW t \in Slots, arp_valid'[s], t < s, t % 2 = 0
                 PROVE  arp_valid'[t]
      BY DEF EvenFirst
    <3>1. arp_valid[t]
      BY <2>2 DEF ScanInv, EvenFirst
    <3>2. t # i + 1
      BY <1>1
    <3> QED
      BY <2>2, <3>1, <3>2
  <2>4. FoundInOdd'
    <3>1. i + 1 - 1 = i /\ i # i + 1
      BY <1>1
    <3> QED
      BY <1>1, <1>2, <1>4, <2>1, <2>2, <3>1 DEF FoundInOdd, Fits
  <2> QED
    BY <2>1, <2>3, <2>4 DEF ScanInv, OddIsBehind
<1> QED
  BY <1>3, <1>4

LEMMA ScanInductive == TypeOK /\ ScanInv /\ [Next]_vars => ScanInv'
<1> SUFFICES ASSUME TypeOK, ScanInv, [Next]_vars PROVE ScanInv'
  OBVIOUS
<1>1. ASSUME NEW a \in Hosts, NEW mac \in Macs, Reply(a, mac) PROVE ScanInv'
  BY <1>1 DEF Reply, ScanInv, EvenFirst, OddIsBehind, FoundInOdd, waitVars
<1>2. CASE ScanDone
  BY <1>2 DEF ScanDone, ScanInv, EvenFirst, OddIsBehind, FoundInOdd, waitVars
<1>3. CASE SendFound
  BY <1>3 DEF SendFound, ScanInv, EvenFirst, OddIsBehind, FoundInOdd, waitVars
<1>4. CASE UNCHANGED vars
  BY <1>4 DEF vars, waitVars, ScanInv, EvenFirst, OddIsBehind, FoundInOdd, Fits
<1> QED
  BY <1>1, <1>2, <1>3, <1>4, ScanSendStep, ScanSkipStep, ScanNextKeeps DEF Next, HandleArp

LEMMA ScanInvariance == Spec => [](TypeOK /\ ScanInv)
BY TypeCorrect, ScanInitially, ScanInductive, PTL DEF Spec

\* Each step of a scan takes its index on, for every even number of places: what is read
\* behind a place in use is never the place at the start of the buffer.
THEOREM ScansAdvance == Spec => ScanAdvances
<1>1. ASSUME TypeOK, ScanInv, [Next]_vars PROVE [handler = "scan" /\ handler' = "scan" => i' > i]_vars
  <2> SUFFICES ASSUME Next, handler = "scan", handler' = "scan" PROVE i' > i
    BY <1>1
  <2>1. i \in Nat
    BY <1>1, ArpAssumption DEF TypeOK
  <2>2. CASE ScanSkip
    BY <2>1, <2>2 DEF ScanSkip
  <2>3. CASE ScanNext
    <3>1. (i + 1) % WAIT_SLOTS = i + 1
      BY <1>1, <2>3, UsedIsEven DEF ScanNext
    <3> QED
      BY <2>1, <2>3, <3>1 DEF ScanNext
  <2> QED
    BY <2>2, <2>3 DEF Next, Send, Reply, HandleArp, ScanDone, SendFound
<1> QED
  BY <1>1, ScanInvariance, PTL DEF Spec, ScanAdvances

-----------------------------------------------------------------------------
(* The same packet again *)

\* The scan comes to a place in use, with a packet behind it that fits.
Trapped ==
  /\ handler # "idle"
  /\ \E s \in Slots :
       /\ s % 2 = 0 /\ arp_valid[s] /\ s + 1 \in Slots /\ Fits(s + 1)
       /\ handler = "scan" => i % 2 = 0 /\ i <= s

LEMMA FoundIsTrapped == TypeOK /\ ScanInv /\ handler = "found" => Trapped
<1> SUFFICES ASSUME TypeOK, ScanInv, handler = "found" PROVE Trapped
  OBVIOUS
<1>1. i \in Slots /\ i % 2 = 1 /\ arp_valid[i - 1] /\ Fits(i)
  BY DEF ScanInv, FoundInOdd
<1>2. i - 1 \in Slots /\ (i - 1) % 2 = 0 /\ i - 1 + 1 = i
  BY <1>1, ArpAssumption DEF Slots
<1> QED
  BY <1>1, <1>2 DEF Trapped

LEMMA TrappedStays == TypeOK /\ ScanInv /\ Trapped /\ [Next]_vars => Trapped'
<1> SUFFICES ASSUME TypeOK, ScanInv, Trapped, [Next]_vars PROVE Trapped'
  OBVIOUS
<1>1. PICK s \in Slots :
        /\ s % 2 = 0 /\ arp_valid[s] /\ s + 1 \in Slots /\ Fits(s + 1)
        /\ handler = "scan" => i % 2 = 0 /\ i <= s
  BY DEF Trapped
<1>2. s \in Nat /\ s < WAIT_SLOTS
  BY ArpAssumption DEF Slots
\* Up to s the scan meets places in use only.
<1>3. handler = "scan" => i \in Slots /\ i \in Nat /\ i < WAIT_SLOTS /\ arp_valid[i]
  <2> SUFFICES ASSUME handler = "scan"
               PROVE  i \in Slots /\ i \in Nat /\ i < WAIT_SLOTS /\ arp_valid[i]
    OBVIOUS
  <2>1. i \in Nat /\ i <= s /\ i % 2 = 0
    BY <1>1, ArpAssumption DEF TypeOK
  <2>2. i \in Slots /\ i < WAIT_SLOTS
    BY <1>2, <2>1, ArpAssumption DEF Slots
  <2>3. i = s \/ i < s
    BY <1>2, <2>1
  <2>4. arp_valid[i]
    BY <1>1, <2>1, <2>2, <2>3 DEF ScanInv, EvenFirst
  <2> QED
    BY <2>1, <2>2, <2>4
<1>4. CASE UNCHANGED vars
  BY <1>1, <1>4 DEF Trapped, vars, waitVars, Fits
<1>5. CASE SendFound
  <2>1. handler' = "scan" /\ i' = 0 /\ UNCHANGED <<arp_valid, arp_wait_ip, reply>>
    BY <1>5 DEF SendFound, waitVars
  <2>2. i' % 2 = 0 /\ i' <= s
    BY <1>2, <2>1
  <2> QED
    BY <1>1, <2>1, <2>2 DEF Trapped, Fits
<1>6. CASE ScanNext
  <2>1. /\ handler = "scan" /\ i % 2 = 0 /\ i <= s /\ i \in Nat
        /\ (i + 1) % WAIT_SLOTS = i + 1 /\ i + 1 \in Slots /\ (i + 1) % 2 = 1
    BY <1>1, <1>3, <1>6, UsedIsEven DEF ScanNext
  <2>2. arp_wait_ip' = arp_wait_ip /\ reply' = reply
    BY <1>6 DEF ScanNext
  <2>3. CASE Fits(i + 1)
    <3>1. arp_valid' = [arp_valid EXCEPT ![i + 1] = FALSE] /\ handler' = "found"
      BY <1>6, <2>1, <2>3 DEF ScanNext, Free
    <3>2. s # i + 1
      BY <1>1, <2>1
    <3>3. arp_valid'[s]
      BY <1>1, <3>1, <3>2 DEF TypeOK
    <3> QED
      BY <1>1, <2>2, <3>1, <3>3 DEF Trapped, Fits
  <2>4. CASE ~Fits(i + 1)
    <3>1. i' = i + 1 + 1 /\ arp_valid' = arp_valid /\ handler' = "scan"
      BY <1>6, <2>1, <2>4 DEF ScanNext
    <3>2. i # s
      BY <1>1, <2>4
    <3>3. i' % 2 = 0 /\ i' <= s
      BY <1>1, <1>2, <2>1, <3>1, <3>2
    <3> QED
      BY <1>1, <2>2, <3>1, <3>3 DEF Trapped, Fits
  <2> QED
    BY <2>3, <2>4
<1> QED
  <2>1. handler # "idle"
    BY DEF Trapped
  <2>2. ~ScanSkip /\ ~ScanDone
    <3>1. i \in Nat /\ WAIT_SLOTS \in Nat
      BY ArpAssumption DEF TypeOK
    <3> QED
      BY <1>3, <3>1 DEF ScanSkip, ScanDone
  <2>3. \A a \in Hosts : ~Send(a) /\ \A mac \in Macs : ~Reply(a, mac)
    BY <2>1 DEF Send, Reply
  <2> QED
    BY <1>4, <1>5, <1>6, <2>2, <2>3 DEF Next, HandleArp

\* The place freed is not the place tested, so once the scan of handle_arp hands a packet
\* out it hands packets out for ever, and handle_arp, called for one reply, never returns.
THEOREM NeverReturns == Spec => [](handler = "found" => [](handler # "idle"))
<1>1. Trapped => handler # "idle"
  BY DEF Trapped
<1> QED
  BY <1>1, ScanInvariance, FoundIsTrapped, TrappedStays, PTL DEF Spec

-----------------------------------------------------------------------------
(* Packets nobody reads *)

\* Every packet waits in a place of its own.
OwnPlaces ==
  /\ \A s \in Slots : arp_wait_buf[s] \in 0 .. Len(packet)
  /\ \A s, t \in Slots : arp_wait_buf[s] = arp_wait_buf[t] => s = t \/ arp_wait_buf[s] = 0

HandedFromPlace == handler = "found" => buff = arp_wait_buf[i]

Waits(s) == s % 2 = 0 /\ arp_valid[s]

EvenUnsent == \A s \in Slots : Waits(s) => arp_wait_buf[s] # 0 /\ ~Sent(arp_wait_buf[s])

PlaceInv == OwnPlaces /\ HandedFromPlace /\ EvenUnsent

LEMMA PlaceInit == Init => PlaceInv
<1> SUFFICES ASSUME Init PROVE PlaceInv
  OBVIOUS
<1>1. Len(packet) = 0
  BY DEF Init
<1> QED
  BY <1>1 DEF Init, PlaceInv, OwnPlaces, HandedFromPlace, EvenUnsent, Waits

LEMMA PlaceSendStep ==
  ASSUME TypeOK, PlaceInv, NEW a \in Hosts, Send(a)
  PROVE  PlaceInv' /\ \A s \in Slots : Waits(s) => Waits(s)' /\ arp_wait_buf'[s] = arp_wait_buf[s]
<1> DEFINE new == Len(packet) + 1
<1>1. /\ handler' = "idle" /\ packet' = Append(packet, a)
  BY DEF Send
<1>2. Len(packet) \in Nat /\ Len(packet') = new
  BY <1>1, OneMorePacket
<1>3. \A s \in Slots : arp_wait_buf[s] \in 0 .. Len(packet) /\ arp_wait_buf[s] # new
  BY <1>2 DEF PlaceInv, OwnPlaces
<1>4. ~Sent(new)
  BY <1>2 DEF TypeOK, Sent
<1>5. CASE waitVars' = waitVars /\ \E m : sent' \subseteq sent \cup {[packet |-> new, mac |-> m]}
  <2>1. \A q : q # new /\ ~Sent(q) => ~Sent(q)'
    BY <1>5 DEF Sent
  <2>2. EvenUnsent'
    BY <1>3, <1>5, <2>1 DEF PlaceInv, EvenUnsent, Waits, waitVars, Sent
  <2>3. OwnPlaces'
    BY <1>2, <1>5 DEF PlaceInv, OwnPlaces, waitVars
  <2> QED
    BY <1>1, <1>5, <2>2, <2>3 DEF PlaceInv, HandedFromPlace, Waits, waitVars
<1>6. CASE sent' = sent /\ \E s \in Slots : FirstFree(s) /\ Put(s, new, a)
  <2>1. PICK p \in Slots : ~arp_valid[p] /\ Put(p, new, a)
    BY <1>6 DEF FirstFree
  <2> HIDE DEF new
  <2>2. \A s \in Slots : /\ arp_valid'[s] = (s = p \/ arp_valid[s])
                         /\ arp_wait_buf'[s] = IF s = p THEN new ELSE arp_wait_buf[s]
    BY <2>1 DEF TypeOK, Put
  <2>3. new \in 0 .. Len(packet') /\ \A k \in 0 .. Len(packet) : k \in 0 .. Len(packet')
    BY <1>2 DEF new
  <2>4. OwnPlaces'
    BY <1>3, <2>2, <2>3 DEF PlaceInv, OwnPlaces
  <2>5. new # 0
    BY <1>2 DEF new
  <2>6. EvenUnsent'
    BY <1>4, <1>6, <2>2, <2>5 DEF PlaceInv, EvenUnsent, Waits, Sent
  <2> QED
    BY <1>1, <2>1, <2>2, <2>4, <2>6 DEF PlaceInv, HandedFromPlace, Waits
<1> QED
  BY <1>5, <1>6 DEF Send, waitVars

LEMMA PlaceStep ==
  ASSUME TypeOK, ScanInv, PlaceInv, [Next]_vars
  PROVE  PlaceInv' /\ \A s \in Slots : Waits(s) => Waits(s)' /\ arp_wait_buf'[s] = arp_wait_buf[s]
<1>1. CASE UNCHANGED <<waitVars, packet, sent, handler, i, buff>>
  BY <1>1 DEF PlaceInv, OwnPlaces, HandedFromPlace, EvenUnsent, Waits, Sent, waitVars
<1>2. CASE UNCHANGED <<waitVars, packet, sent>> /\ handler' # "found"
  BY <1>2 DEF PlaceInv, OwnPlaces, HandedFromPlace, EvenUnsent, Waits, Sent, waitVars
<1>3. CASE ScanNext
  <2>1. (i + 1) % WAIT_SLOTS = i + 1 /\ i + 1 \in Slots /\ (i + 1) % 2 = 1
    BY <1>3, UsedIsEven DEF ScanNext
  <2>2. CASE ~Fits(i + 1)
    <3>1. UNCHANGED <<waitVars, packet, sent>> /\ handler' # "found"
      BY <1>3, <2>1, <2>2 DEF ScanNext, waitVars
    <3> QED
      BY <1>2, <3>1
  <2>3. CASE Fits(i + 1)
    <3>1. /\ arp_valid' = [arp_valid EXCEPT ![i + 1] = FALSE]
          /\ i' = i + 1 /\ buff' = arp_wait_buf[i + 1]
          /\ UNCHANGED <<arp_wait_buf, packet, sent>>
      BY <1>3, <2>1, <2>3 DEF ScanNext, Free
    <3>2. \A s \in Slots : Waits(s)' <=> Waits(s)
      BY <2>1, <3>1 DEF TypeOK, Waits
    <3>3. OwnPlaces' /\ HandedFromPlace'
      BY <3>1 DEF PlaceInv, OwnPlaces, HandedFromPlace
    <3>4. EvenUnsent'
      BY <3>1, <3>2 DEF PlaceInv, EvenUnsent, Sent
    <3> QED
      BY <3>1, <3>2, <3>3, <3>4 DEF PlaceInv
  <2> QED
    BY <2>2, <2>3
<1>4. CASE SendFound
  <2>1. handler = "found" /\ handler' = "scan" /\ UNCHANGED <<waitVars, packet>>
    BY <1>4 DEF SendFound
  <2>2. i \in Slots /\ i % 2 = 1 /\ buff = arp_wait_buf[i]
    BY <2>1 DEF ScanInv, FoundInOdd, PlaceInv, HandedFromPlace
  <2>3. \A q : q # buff /\ ~Sent(q) => ~Sent(q)'
    BY <1>4 DEF SendFound, Sent
  <2>4. \A s \in Slots : Waits(s) => arp_wait_buf[s] # buff
    BY <2>2 DEF PlaceInv, OwnPlaces, EvenUnsent, Waits
  <2>5. EvenUnsent'
    BY <2>1, <2>3, <2>4 DEF PlaceInv, EvenUnsent, Waits, waitVars, Sent
  <2> QED
    BY <2>1, <2>5 DEF PlaceInv, OwnPlaces, HandedFromPlace, Waits, waitVars
<1>5. ASSUME NEW a \in Hosts, NEW mac \in Macs, Reply(a, mac)
      PROVE  UNCHANGED <<waitVars, packet, sent>> /\ handler' # "found"
  BY <1>5 DEF Reply
<1>6. ScanSkip \/ ScanDone => UNCHANGED <<waitVars, packet, sent>> /\ handler' # "found"
  BY DEF ScanSkip, ScanDone
<1> QED
  BY <1>1, <1>2, <1>3, <1>4, <1>5, <1>6, PlaceSendStep DEF Next, HandleArp, vars

\* The scan tests the places with even indices and reads those with odd ones: a packet
\* that was put into an even place, the first that waits always, stays there and is
\* never sent, whatever replies arrive.
THEOREM EvenNeverSent ==
  ASSUME NEW s \in Slots, NEW p
  PROVE  Spec => [](Waits(s) /\ arp_wait_buf[s] = p
                      => [](Waits(s) /\ arp_wait_buf[s] = p /\ ~Sent(p)))
<1> DEFINE Stuck == Waits(s) /\ arp_wait_buf[s] = p
<1>1. Spec => [](TypeOK /\ ScanInv /\ PlaceInv)
  <2>1. TypeOK /\ ScanInv /\ PlaceInv /\ [Next]_vars => PlaceInv'
    BY PlaceStep
  <2> QED
    BY <2>1, PlaceInit, ScanInvariance, PTL DEF Spec
<1>2. TypeOK /\ ScanInv /\ PlaceInv /\ Stuck /\ [Next]_vars => Stuck'
  BY PlaceStep
<1>3. PlaceInv /\ Stuck => Waits(s) /\ arp_wait_buf[s] = p /\ ~Sent(p)
  BY DEF PlaceInv, EvenUnsent
<1> HIDE DEF Stuck
<1>4. Spec => [](Stuck => [](Waits(s) /\ arp_wait_buf[s] = p /\ ~Sent(p)))
  BY <1>1, <1>2, <1>3, PTL DEF Spec
<1> QED
  BY <1>4 DEF Stuck
=============================================================================
