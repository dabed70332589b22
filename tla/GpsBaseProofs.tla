--------------------------- MODULE GpsBaseProofs ---------------------------
(***************************************************************************)
(* Proofs about GpsBase, for every size of buffer, of packet and of burst, *)
(* and wherever the thread preempts main: the counter that they share      *)
(* without a lock stays within the buffer, and a steady burst goes on the  *)
(* air as it was received.                                                 *)
(***************************************************************************)
EXTENDS GpsBase, TLAPS

\* Main subtracts a packet only from what it has seen to be there: the thread
\* in between only adds.
PacketCounted ==
  /\ pc \in {"full", "read"} => compteurin >= QUEUE
  /\ pc = "write" => tmp >= QUEUE

CInv == TypeOK /\ PacketCounted

USE BaseAssumption
USE DEF BaseAssumption, Location, Slot, mainVars, lineVars, airVars

LEMMA InitCInv == Init => CInv
<1> SUFFICES ASSUME Init PROVE CInv
  OBVIOUS
<1>1. message \in [Slot -> Nat]
  <2>1. message = [k \in Slot |-> 0]
    BY DEF Init, Garbage
  <2> QED BY <2>1
<1>2. BUFSIZE \in Nat /\ 0 \in 0..BUFSIZE
  OBVIOUS
<1>3. TypeOK
  BY <1>1, <1>2 DEF Init, TypeOK
<1> QED BY <1>3 DEF Init, CInv, PacketCounted

\* The serial line: a byte is counted only while there is room for it.
LEMMA LineCInv ==
  ASSUME CInv, ReadByte \/ BurstStarts PROVE CInv'
<1>1. CASE ReadByte
  <2>1. CASE compteurin < BUFSIZE
    <3>1. compteurin \in Slot
      BY <2>1 DEF CInv, TypeOK
    <3>2. message' \in [Slot -> Nat]
      BY <1>1, <2>1, <3>1 DEF ReadByte, CInv, TypeOK
    <3>3. compteurin' \in 0..BUFSIZE /\ compteurin' >= compteurin
      BY <1>1, <2>1 DEF ReadByte, CInv, TypeOK
    <3> QED
      BY <1>1, <3>2, <3>3 DEF ReadByte, CInv, TypeOK, PacketCounted
  <2>2. CASE ~(compteurin < BUFSIZE)
    BY <1>1, <2>2 DEF ReadByte, CInv, TypeOK, PacketCounted
  <2> QED BY <2>1, <2>2
<1>2. CASE BurstStarts
  <2>1. due' \in Nat
    BY <1>2 DEF BurstStarts
  <2>2. TypeOK'
    BY <1>2, <2>1 DEF BurstStarts, CInv, TypeOK
  <2>3. PacketCounted'
    BY <1>2 DEF BurstStarts, CInv, PacketCounted
  <2> QED BY <2>2, <2>3 DEF CInv
<1> QED BY <1>1, <1>2

\* Main: the test establishes PacketCounted, the write uses it.
LEMMA MainCInv == ASSUME CInv, Main PROVE CInv'
<1> USE DEF CInv, TypeOK, PacketCounted
<1>1. CASE Sample
  <2>1. pc' \in {"sample", "test"} /\ indice' \in Nat /\ oldcompteurin' \in 0..BUFSIZE
    BY <1>1 DEF Sample
  <2>2. UNCHANGED <<compteurin, tmp, message, busy, due, got, paused, fresh, sent, garbled>>
    BY <1>1 DEF Sample
  <2>3. arrived' \in BOOLEAN
    BY <1>1 DEF Sample
  <2> QED BY <2>1, <2>2, <2>3
<1>2. CASE Test
  BY <1>2 DEF Test
<1>3. CASE SendFull
  <2>1. sent' \in Nat /\ garbled' \in BOOLEAN /\ busy' \in BOOLEAN
    BY <1>3 DEF SendFull, Packet
  <2> QED BY <1>3, <2>1 DEF SendFull
<1>4. CASE ReadCounter
  BY <1>4 DEF ReadCounter
<1>5. CASE WriteCounter
  BY <1>5 DEF WriteCounter
<1>6. CASE SendLast
  <2>1. sent' \in Nat /\ garbled' \in BOOLEAN /\ busy' \in BOOLEAN
    BY <1>6 DEF SendLast, Packet
  <2> QED BY <1>6, <2>1 DEF SendLast
<1>7. CASE Clear \/ Loop
  BY <1>7 DEF Clear, Loop
<1> QED BY <1>1, <1>2, <1>3, <1>4, <1>5, <1>6, <1>7 DEF Main

LEMMA NextCInv == CInv /\ [Next]_vars => CInv'
<1> SUFFICES ASSUME CInv, [Next]_vars PROVE CInv'
  OBVIOUS
<1>1. CASE TxEnds
  BY <1>1 DEF TxEnds, CInv, TypeOK, PacketCounted
<1>2. CASE UNCHANGED vars
  BY <1>2 DEF vars, CInv, TypeOK, PacketCounted
<1> QED BY <1>1, <1>2, LineCInv, MainCInv DEF Next

\* The unsigned counter stays in 0..BUFSIZE although main's subtraction is not
\* atomic (and every other variable has its type).
THEOREM CounterInRange == Spec => []TypeOK
<1>1. CInv => TypeOK
  BY DEF CInv
<1> QED BY <1>1, InitCInv, NextCInv, PTL DEF Spec

-----------------------------------------------------------------------------
(* What goes on the air.                                                   *)

\* Main begins to send only when the burst is over, and from then on what it
\* has sent and what it has left to send make up what was received.
Receiving ==
  /\ sent = 0 /\ compteurin = got /\ oldcompteurin <= compteurin
  /\ compteurin > 0 /\ compteurin = oldcompteurin => ~arrived

Idle == compteurin = 0 /\ due = 0 /\ sent = got

SendingInv ==
  /\ pc # "sample" => due = 0
  /\ pc \in {"test", "full", "last", "loop"} => got = sent + compteurin
  /\ pc = "read" => got + QUEUE = sent + compteurin
  /\ pc = "write" => got + QUEUE = sent + tmp
  /\ pc = "clear" => got = sent
  /\ pc \in {"test", "full", "last", "read", "write"}
     \/ (pc = "loop" /\ compteurin > 0) => indice = sent

BurstInv ==
  /\ got + due <= BUFSIZE
  /\ \A k \in 0..(got - 1) : message[k] = k + 1
  /\ ~garbled
  /\ pc = "sample" => Idle \/ Receiving
  /\ SendingInv

SInv == CInv /\ (Steady => BurstInv)

USE DEF Steady, Idle, Receiving, SendingInv

LEMMA InitBurstInv == Init => BurstInv
  BY DEF Init, BurstInv

LEMMA NothingYet ==
  ASSUME NEW d \in 1..BUFSIZE, NEW g, g = 0 PROVE g + d <= BUFSIZE
  OBVIOUS

\* A burst that begins finds nothing of the last one.
LEMMA StartBurstInv == ASSUME CInv, BurstStarts PROVE Steady' => BurstInv'
<1>1. due' \in 1..BUFSIZE
  BY DEF BurstStarts
<1>2. /\ pc' = "sample" /\ compteurin' = 0 /\ got' = 0 /\ sent' = 0
      /\ garbled' = FALSE /\ fresh' = (oldcompteurin = 0)
      /\ oldcompteurin' = oldcompteurin
  BY DEF BurstStarts
<1>3. \A k \in 0..(got' - 1) : message'[k] = k + 1
  BY <1>2
<1>4. got' + due' <= BUFSIZE
  BY <1>1, <1>2, NothingYet
<1>5. Steady' => Receiving'
  <2>1. fresh' => oldcompteurin' = 0
    BY <1>2, Zenon
  <2>2. oldcompteurin' = 0 => Receiving'
    BY <1>2
  <2> QED BY <2>1, <2>2
<1>6. ~garbled'
  BY <1>2
<1>7. SendingInv'
  BY <1>2
<1> QED BY <1>2, <1>3, <1>4, <1>5, <1>6, <1>7 DEF BurstInv

\* A byte is stored in its place, behind those that came before it.
LEMMA ReadBurstInv ==
  ASSUME CInv, Steady, BurstInv, ReadByte PROVE BurstInv'
<1>1. pc = "sample" /\ Receiving /\ due \in Nat /\ due > 0 /\ got \in Nat
  BY DEF ReadByte, BurstInv, CInv, TypeOK
<1>2. compteurin = got /\ compteurin < BUFSIZE /\ compteurin \in Slot
  BY <1>1 DEF BurstInv
<1>3. /\ message' = [message EXCEPT ![compteurin] = got + 1]
      /\ compteurin' = compteurin + 1
      /\ got' = got + 1 /\ due' = due - 1 /\ arrived' = TRUE
      /\ UNCHANGED <<pc, oldcompteurin, indice, tmp, sent, garbled>>
  BY <1>2 DEF ReadByte
<1>4. \A k \in 0..(got' - 1) : message'[k] = k + 1
  <2> TAKE k \in 0..(got' - 1)
  <2>1. CASE k = got
    BY <1>2, <1>3, <2>1 DEF CInv, TypeOK
  <2>2. CASE k < got
    BY <1>1, <1>2, <1>3, <2>2 DEF CInv, TypeOK, BurstInv
  <2> QED BY <1>1, <1>3, <2>1, <2>2
<1>5. got' + due' <= BUFSIZE
  BY <1>1, <1>3 DEF BurstInv
<1>6. Receiving'
  BY <1>1, <1>2, <1>3 DEF CInv, TypeOK
<1>7. ~garbled' /\ SendingInv'
  BY <1>1, <1>3 DEF BurstInv
<1> QED BY <1>4, <1>5, <1>6, <1>7 DEF BurstInv

\* A packet taken from what is left is the next part of the burst.
LEMMA PacketIsNext ==
  ASSUME CInv, BurstInv, NEW len \in Nat,
         indice = sent, sent + len <= got, Packet(len)
  PROVE  ~garbled' /\ sent' = sent + len
<1>1. \A i \in 1..len : ByteAt(indice + i - 1) = sent + i
  <2> TAKE i \in 1..len
  <2> DEFINE k == sent + i - 1
  <2>1. k \in Nat /\ k < got /\ got <= BUFSIZE /\ got \in Nat
    BY DEF CInv, TypeOK, BurstInv
  <2>4. indice + i - 1 = k /\ k + 1 = sent + i
    BY DEF CInv, TypeOK
  <2> HIDE DEF k
  <2>2. k \in Slot /\ k \in 0..(got - 1)
    BY <2>1
  <2>3. message[k] = k + 1
    BY <2>2 DEF BurstInv
  <2> QED BY <2>2, <2>3, <2>4 DEF ByteAt
<1>2. garbled' = (garbled \/ \E i \in 1..len : ByteAt(indice + i - 1) # sent + i)
  BY DEF Packet
<1>3. ~garbled
  BY DEF BurstInv
<1>4. sent' = sent + len
  BY DEF Packet
<1> QED BY <1>1, <1>2, <1>3, <1>4

LEMMA MainBurstInv == ASSUME CInv, Steady, BurstInv, Main PROVE BurstInv'
<1>1. CASE Sample
  <2>1. pc = "sample" /\ (due > 0 => arrived) /\ (Idle \/ Receiving)
    BY <1>1 DEF Sample, BurstInv
  <2>2. UNCHANGED <<compteurin, tmp, message, due, got, sent, garbled>>
        /\ arrived' = FALSE
    BY <1>1 DEF Sample
  <2>3. CASE compteurin > 0 /\ compteurin = oldcompteurin
    <3>1. pc' = "test" /\ indice' = 0 /\ oldcompteurin' = oldcompteurin
      BY <1>1, <2>3 DEF Sample
    <3>2. due = 0 /\ sent = 0 /\ got = compteurin
      BY <2>1, <2>3 DEF CInv, TypeOK
    <3> QED BY <2>2, <3>1, <3>2 DEF BurstInv, CInv, TypeOK
  <2>4. CASE ~(compteurin > 0 /\ compteurin = oldcompteurin)
    <3>1. /\ pc' = pc /\ indice' = indice
          /\ oldcompteurin' = IF compteurin > 0 THEN compteurin ELSE oldcompteurin
      BY <1>1, <2>4 DEF Sample
    <3>2. (Idle \/ Receiving)'
      BY <2>1, <2>2, <3>1 DEF CInv, TypeOK
    <3> QED BY <2>1, <2>2, <3>1, <3>2 DEF BurstInv
  <2> QED BY <2>3, <2>4
<1>2. CASE Test
  BY <1>2 DEF Test, BurstInv
<1>3. CASE SendFull
  <2>1. pc = "full" /\ indice = sent /\ got = sent + compteurin /\ due = 0
        /\ compteurin >= QUEUE
    BY <1>3 DEF SendFull, BurstInv, CInv, PacketCounted
  <2>2. Packet(QUEUE) /\ sent + QUEUE <= got
    BY <1>3, <2>1 DEF SendFull, CInv, TypeOK
  <2>3. ~garbled' /\ sent' = sent + QUEUE
    BY <2>1, <2>2, PacketIsNext
  <2>4. /\ pc' = "read" /\ indice' = indice + QUEUE
        /\ UNCHANGED <<compteurin, message, due, got>>
    BY <1>3 DEF SendFull
  <2> QED BY <2>1, <2>3, <2>4 DEF BurstInv, CInv, TypeOK
<1>4. CASE ReadCounter
  BY <1>4 DEF ReadCounter, BurstInv
<1>5. CASE WriteCounter
  BY <1>5 DEF WriteCounter, BurstInv, CInv, TypeOK
<1>6. CASE SendLast
  <2>1. pc = "last" /\ indice = sent /\ got = sent + compteurin /\ due = 0
    BY <1>6 DEF SendLast, BurstInv
  <2>2. Packet(compteurin) /\ sent + compteurin <= got /\ compteurin \in Nat
    BY <1>6, <2>1 DEF SendLast, CInv, TypeOK
  <2>3. ~garbled' /\ sent' = sent + compteurin
    BY <2>1, <2>2, PacketIsNext
  <2>4. pc' = "clear" /\ UNCHANGED <<message, due, got>>
    BY <1>6 DEF SendLast
  <2> QED BY <2>1, <2>3, <2>4 DEF BurstInv
<1>7. CASE Clear
  BY <1>7 DEF Clear, BurstInv, CInv, TypeOK
<1>8. CASE Loop
  BY <1>8 DEF Loop, BurstInv, CInv, TypeOK
<1> QED BY <1>1, <1>2, <1>3, <1>4, <1>5, <1>6, <1>7, <1>8 DEF Main

LEMMA NextSInv == SInv /\ [Next]_vars => SInv'
<1> SUFFICES ASSUME SInv, [Next]_vars PROVE SInv'
  OBVIOUS
<1>1. CInv /\ CInv'
  BY NextCInv DEF SInv
<1>2. Steady' => BurstInv'
  <2>1. CASE BurstStarts
    BY <1>1, <2>1, StartBurstInv
  <2>2. CASE ~BurstStarts
    <3>1. Steady' = Steady
      BY <2>2 DEF Next, Main, Sample, Test, SendFull, ReadCounter, WriteCounter,
                  SendLast, Clear, Loop, ReadByte, TxEnds, vars
    <3> SUFFICES ASSUME Steady PROVE BurstInv'
      BY <3>1
    <3>2. BurstInv
      BY DEF SInv
    <3>3. CASE Main
      BY <1>1, <3>2, <3>3, MainBurstInv
    <3>4. CASE ReadByte
      BY <1>1, <3>2, <3>4, ReadBurstInv
    <3>5. CASE TxEnds \/ UNCHANGED vars
      <4>1. UNCHANGED <<pc, compteurin, oldcompteurin, indice, tmp, message,
                        due, got, arrived, sent, garbled>>
        BY <3>5 DEF TxEnds, vars
      <4> QED BY <3>2, <4>1 DEF BurstInv
    <3> QED BY <2>2, <3>3, <3>4, <3>5 DEF Next
  <2> QED BY <2>1, <2>2
<1> QED BY <1>1, <1>2 DEF SInv

LEMMA Invariance == Spec => []SInv
<1>1. Init => SInv
  BY InitCInv, InitBurstInv DEF SInv
<1> QED BY <1>1, NextSInv, PTL DEF Spec

\* A burst without a pause, begun with oldcompteurin cleared, goes on the air
\* byte for byte in order, although main and the thread share the counter and
\* the buffer without a lock.
THEOREM BurstSentAsReceived == Spec => []SentAsReceived
<1>1. SInv => SentAsReceived
  BY DEF SInv, BurstInv, SentAsReceived
<1> QED BY <1>1, Invariance, PTL

\* Such a burst's packets are read inside message.
THEOREM PacketsInBuffer == Spec => []PacketInBuffer
<1>1. SInv => PacketInBuffer
  BY DEF SInv, CInv, TypeOK, PacketCounted, BurstInv, PacketInBuffer
<1> QED BY <1>1, Invariance, PTL

LEMMA CountedOutInv == Spec => [](Steady /\ pc = "sample" => Idle \/ Receiving)
<1>1. SInv => (Steady /\ pc = "sample" => Idle \/ Receiving)
  BY DEF SInv, BurstInv
<1> QED BY <1>1, Invariance, PTL

\* And when main is done with it nothing of it is left.
THEOREM BurstIsSentWhole == Spec => []BurstSentWhole
<1>1. (Steady /\ pc = "sample" => Idle \/ Receiving) => BurstSentWhole
  BY DEF BurstSentWhole
<1> QED BY <1>1, CountedOutInv, PTL
=============================================================================
