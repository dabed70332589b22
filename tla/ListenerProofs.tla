--------------------------- MODULE ListenerProofs ---------------------------
(***************************************************************************)
(* Proofs about Listener, for every size of its line and every length of   *)
(* frame, and wherever the receive thread preempts main.                   *)
(***************************************************************************)
EXTENDS Listener, TLAPS

LEMMA Appended ==
  ASSUME NEW S, NEW s \in Seq(S), NEW x \in S
  PROVE  /\ Append(s, x) \in Seq(S)
         /\ Len(Append(s, x)) = Len(s) + 1
         /\ \A i \in 1..Len(s) : Append(s, x)[i] = s[i]
         /\ Append(s, x)[Len(s) + 1] = x
  OBVIOUS

LEMMA Elements ==
  ASSUME NEW S, NEW s \in Seq(S)
  PROVE  Len(s) \in Nat /\ \A i \in 1..Len(s) : s[i] \in S
  OBVIOUS

USE ListenerAssumption
USE DEF ListenerAssumption, Location, Slot, Number, mainVars, sharedVars, airVars

\* A place that frame n reached holds n or a later frame.
MessageInv ==
  /\ \A n \in 1..heard : \A j \in Slot : j < lengths[n] => message[j] >= n
  /\ \A j \in Slot : message[j] <= heard
  /\ heard > 0 => len = lengths[heard]
  /\ flag = 1 => heard > 0

\* What main has written, and the test that let it write the next byte: when
\* it was made some frame, no older than any written, reached that byte.
Current(n) ==
  /\ seen <= n
  /\ \A i \in 1..Len(line) : line[i] <= n

LineInv ==
  /\ seen <= heard
  /\ pc \in {"loop", "byte", "print", "clear"} => 0 < seen
  /\ \A i \in 1..Len(line) : seen <= line[i] /\ line[i] <= heard
  /\ \A i, j \in 1..Len(line) : i <= j => line[i] <= line[j]
  /\ pc \in {"loop", "byte"} => Len(line) = k /\ used <= 2 * k
  /\ pc = "byte" => \E n \in 1..heard : k < lengths[n] /\ Current(n)

\* The same while nothing is heard.
QuietInv ==
  heard = seen =>
    /\ \A i \in 1..Len(line) : line[i] = seen
    /\ pc = "loop" => Len(line) <= len
    /\ pc = "byte" => Len(line) < len
    /\ pc \in {"print", "clear"} => Len(line) = len
    /\ pc = "clear" => counted = len

IInv == TypeOK /\ MessageInv /\ LineInv /\ TempHolds /\ QuietInv

LEMMA InitIInv == Init => IInv
<1> SUFFICES ASSUME Init PROVE IInv
  OBVIOUS
<1>1. 0 \in Number /\ 0 \in Slot /\ Len(line) = 0
  BY DEF Init
<1>2. TypeOK
  BY <1>1 DEF Init, TypeOK
<1>3. MessageInv /\ LineInv /\ TempHolds /\ QuietInv
  BY <1>1 DEF Init, MessageInv, LineInv, TempHolds, QuietInv
<1> QED BY <1>2, <1>3 DEF IInv

\* A frame that comes is the latest in every place it reaches.
LEMMA ReceiveIInv ==
  ASSUME IInv, NEW n \in 0..MaxLen, Receive(n) PROVE IInv'
<1> USE DEF IInv, TypeOK
<1>1. /\ heard \in Nat /\ heard < MaxFrames /\ heard' = heard + 1
      /\ len' = n /\ flag' = 1
      /\ message' = [j \in Slot |-> IF j < n THEN heard + 1 ELSE message[j]]
      /\ lengths' = [lengths EXCEPT ![heard + 1] = n]
      /\ UNCHANGED <<pc, k, line, used, counted, seen, listening>>
  BY DEF Receive
<1>2. TypeOK'
  BY <1>1
<1>3. \A m \in 1..heard : lengths'[m] = lengths[m]
  BY <1>1
<1>4. lengths'[heard'] = n
  BY <1>1
<1>5. MessageInv'
  <2>1. \A m \in 1..heard' : \A j \in Slot : j < lengths'[m] => message'[j] >= m
    <3> TAKE m \in 1..heard'
    <3> TAKE j \in Slot
    <3> HAVE j < lengths'[m]
    <3>1. CASE m = heard'
      BY <1>1, <1>4, <3>1
    <3>2. CASE m \in 1..heard
      <4>1. message[j] >= m /\ message[j] \in Nat
        BY <1>3, <3>2 DEF MessageInv
      <4> QED BY <1>1, <3>2, <4>1
    <3> QED BY <1>1, <3>1, <3>2
  <2>2. \A j \in Slot : message'[j] <= heard'
    <3> TAKE j \in Slot
    <3>1. message[j] <= heard /\ message[j] \in Nat
      BY DEF MessageInv
    <3>2. message'[j] = IF j < n THEN heard + 1 ELSE message[j]
      BY <1>1
    <3> QED BY <1>1, <3>1, <3>2
  <2> QED BY <1>1, <1>4, <2>1, <2>2 DEF MessageInv
<1>6. LineInv'
  <2>1. pc' = "byte" => \E m \in 1..heard' : k' < lengths'[m] /\ Current(m)'
    BY <1>1, <1>3 DEF LineInv, Current
  <2>2. \A i \in 1..Len(line') : seen' <= line'[i] /\ line'[i] <= heard'
    <3> TAKE i \in 1..Len(line')
    <3>1. line'[i] = line[i] /\ line[i] \in Number
      BY <1>1, Elements
    <3>2. seen <= line[i] /\ line[i] <= heard
      BY <1>1 DEF LineInv
    <3>3. line[i] <= heard + 1
      BY <3>1, <3>2
    <3>4. seen' = seen /\ heard' = heard + 1
      BY <1>1
    <3> QED BY <3>1, <3>2, <3>3, <3>4, Zenon
  <2> QED BY <1>1, <2>1, <2>2 DEF LineInv
<1>7. TempHolds'
  BY <1>1, <1>3 DEF TempHolds
<1>8. QuietInv'
  BY <1>1 DEF LineInv, QuietInv
<1> QED BY <1>2, <1>5, <1>6, <1>7, <1>8

\* The byte main writes is of a frame no older than any before it.
LEMMA WriteIInv == ASSUME IInv, WriteByte PROVE IInv'
<1> USE DEF IInv, TypeOK
<1>1. PICK n \in 1..heard : k < lengths[n] /\ Current(n)
  BY DEF WriteByte, LineInv
<1>2. PICK digits \in {1, 2} :
        /\ used' = used + digits
        /\ pc' = IF used + digits < TEMP THEN "loop" ELSE "overrun"
  BY DEF WriteByte
<1>3. /\ pc = "byte" /\ line' = Append(line, message[k]) /\ k' = k + 1
      /\ UNCHANGED <<counted, seen, flag, message, len, listening, heard, lengths>>
  BY DEF WriteByte
<1>4. lengths[n] \in 0..MaxLen /\ k \in Slot /\ k' \in Slot
  BY <1>1, <1>3
<1>5. message[k] \in Number /\ n <= message[k] /\ message[k] <= heard
  BY <1>1, <1>4 DEF MessageInv
<1>6. /\ line' \in Seq(Number) /\ Len(line') = Len(line) + 1
      /\ \A i \in 1..Len(line) : line'[i] = line[i]
      /\ line'[Len(line) + 1] = message[k]
  BY <1>3, <1>5, Appended
<1>7. /\ Len(line) \in Nat /\ \A i \in 1..Len(line) : line[i] \in Number
      /\ \A i \in 1..Len(line') : i \in 1..Len(line) \/ i = Len(line) + 1
  <2>1. Len(line) \in Nat /\ \A i \in 1..Len(line) : line[i] \in Number
    BY Elements
  <2> QED BY <1>6, <2>1
<1>8. TypeOK'
  BY <1>2, <1>3, <1>4, <1>6
<1>9. MessageInv'
  BY <1>3 DEF MessageInv
<1>10. Len(line) = k /\ used <= 2 * k
  BY <1>3 DEF LineInv
<1>11. LineInv'
  <2>1. \A i \in 1..Len(line') : seen <= line'[i] /\ line'[i] <= message[k]
    <3> TAKE i \in 1..Len(line')
    <3>1. CASE i \in 1..Len(line)
      <4>1. seen <= line[i] /\ line[i] <= n
        BY <1>1, <3>1 DEF LineInv, Current
      <4>2. line[i] \in Nat /\ line'[i] = line[i]
        BY <1>6, <1>7, <3>1
      <4> QED BY <1>5, <4>1, <4>2
    <3>2. CASE i = Len(line) + 1
      <4>1. line'[i] = message[k] /\ seen <= n
        BY <1>1, <1>6, <3>2 DEF Current
      <4> QED BY <1>5, <4>1
    <3> QED BY <1>7, <3>1, <3>2
  <2>2. \A i, j \in 1..Len(line') : i <= j => line'[i] <= line'[j]
    <3> TAKE i, j \in 1..Len(line')
    <3> HAVE i <= j
    <3>1. CASE j \in 1..Len(line)
      <4>1. i \in 1..Len(line)
        BY <1>7, <3>1
      <4>2. line'[i] = line[i] /\ line'[j] = line[j]
        BY <1>6, <3>1, <4>1
      <4> QED BY <3>1, <4>1, <4>2 DEF LineInv
    <3>2. CASE j = Len(line) + 1
      <4>1. line'[j] = message[k]
        BY <1>6, <3>2
      <4> QED BY <2>1, <4>1
    <3> QED BY <1>7, <3>1, <3>2
  <2>3. pc' # "byte" /\ seen' <= heard' /\ 0 < seen'
    BY <1>2, <1>3 DEF LineInv
  <2>4. Len(line') = k' /\ used' <= 2 * k'
    BY <1>2, <1>3, <1>4, <1>6, <1>10
  <2>5. \A i \in 1..Len(line') : seen' <= line'[i] /\ line'[i] <= heard'
    <3> TAKE i \in 1..Len(line')
    <3>1. line'[i] \in Number
      BY <1>6, Elements
    <3>2. seen <= line'[i] /\ line'[i] <= message[k]
      BY <2>1
    <3>3. line'[i] <= heard
      BY <1>5, <3>1, <3>2
    <3>4. seen' = seen /\ heard' = heard
      BY <1>3
    <3> QED BY <3>2, <3>3, <3>4, Zenon
  <2> QED BY <2>2, <2>3, <2>4, <2>5 DEF LineInv
<1>12. TempHolds'
  <2>1. used + digits >= TEMP => 2 * lengths[n] >= TEMP
    BY <1>1, <1>2, <1>4, <1>10
  <2> QED BY <1>2, <1>3, <2>1 DEF TempHolds
<1>13. QuietInv'
  <2> SUFFICES ASSUME heard = seen
               PROVE  /\ \A i \in 1..Len(line') : line'[i] = seen
                      /\ Len(line') <= len /\ pc' \notin {"byte", "print", "clear"}
    BY <1>3 DEF QuietInv
  <2>1. message[k] = seen
    BY <1>1, <1>5 DEF Current
  <2>2. \A i \in 1..Len(line') : line'[i] = seen
    <3> TAKE i \in 1..Len(line')
    <3>1. CASE i \in 1..Len(line)
      BY <1>6, <3>1 DEF QuietInv
    <3>2. CASE i = Len(line) + 1
      BY <1>6, <2>1, <3>2
    <3> QED BY <1>7, <3>1, <3>2
  <2>3. Len(line') <= len
    BY <1>3, <1>6 DEF QuietInv
  <2> QED BY <1>2, <2>2, <2>3
<1> QED BY <1>8, <1>9, <1>11, <1>12, <1>13

LEMMA NextIInv == IInv /\ [Next]_vars => IInv'
<1> SUFFICES ASSUME IInv, [Next]_vars PROVE IInv'
  OBVIOUS
<1> USE DEF IInv, TypeOK
<1>1. CASE Boot \/ BootFails
  BY <1>1 DEF Boot, BootFails, MessageInv, LineInv, TempHolds, QuietInv
<1>2. CASE Poll
  <2>1. /\ pc' = "loop" /\ k' = 0 /\ line' = <<>> /\ Len(line') = 0 /\ used' = 0
        /\ seen' = heard /\ flag = 1
        /\ UNCHANGED <<counted, flag, message, len, listening, heard, lengths>>
    BY <1>2 DEF Poll
  <2>2. TypeOK'
    BY <2>1
  <2> QED BY <2>1, <2>2 DEF MessageInv, LineInv, TempHolds, QuietInv
<1>3. CASE Test
  <2>1. pc = "loop" /\ UNCHANGED <<k, line, used, counted, seen, flag, message,
                                   len, listening, heard, lengths>>
    BY <1>3 DEF Test
  <2>2. TypeOK' /\ MessageInv' /\ TempHolds'
    BY <1>3, <2>1 DEF Test, MessageInv, TempHolds
  <2>3. LineInv'
    <3>1. heard > 0 /\ len = lengths[heard] /\ Current(heard)
      BY <2>1 DEF MessageInv, LineInv, Current
    <3>2. pc' = "byte" => k < len
      BY <1>3 DEF Test
    <3>3. pc' = "byte" => \E n \in 1..heard' : k' < lengths'[n] /\ Current(n)'
      BY <2>1, <3>1, <3>2 DEF Current
    <3>4. pc' \in {"byte", "print"}
      BY <1>3 DEF Test
    <3> QED BY <2>1, <3>3, <3>4 DEF LineInv
  <2>4. QuietInv'
    BY <1>3, <2>1 DEF Test, LineInv, QuietInv
  <2> QED BY <2>2, <2>3, <2>4
<1>4. CASE PrintLine
  BY <1>4 DEF PrintLine, MessageInv, LineInv, TempHolds, QuietInv
<1>5. CASE ClearFlag
  BY <1>5 DEF ClearFlag, MessageInv, LineInv, TempHolds, QuietInv
<1>6. CASE Unexpected
  BY <1>6 DEF Unexpected, MessageInv, LineInv, TempHolds, QuietInv, Current
<1>7. CASE UNCHANGED vars
  BY <1>7 DEF vars, MessageInv, LineInv, TempHolds, QuietInv, Current
<1> QED
  BY <1>1, <1>2, <1>3, <1>4, <1>5, <1>6, <1>7, WriteIInv, ReceiveIInv
  DEF Next, Main

LEMMA Invariance == Spec => []IInv
  BY InitIInv, NextIInv, PTL DEF Spec

\* Main never reads beyond message, and every variable keeps its type.
THEOREM TypeCorrect == Spec => []TypeOK
<1>1. IInv => TypeOK
  BY DEF IInv
<1> QED BY <1>1, Invariance, PTL

\* temp overflows only for a frame that does not fit in it alone.
THEOREM TempIsLargeEnough == Spec => []TempHolds
<1>1. IInv => TempHolds
  BY DEF IInv
<1> QED BY <1>1, Invariance, PTL

\* A line never goes back to an earlier frame.
THEOREM LinesGoForward == Spec => []LineGoesForward
<1>1. IInv => LineGoesForward
  BY DEF IInv, LineInv, LineGoesForward
<1> QED BY <1>1, Invariance, PTL

\* A line during which nothing is heard is the frame.
THEOREM QuietLineIsWhole == Spec => []QuietLineWhole
<1>1. IInv => QuietLineWhole
  <2> SUFFICES ASSUME IInv, pc = "clear", heard = seen
               PROVE  counted = lengths[seen]
                      /\ line = [i \in 1..counted |-> seen]
    BY DEF QuietLineWhole
  <2>1. counted = len /\ Len(line) = counted
        /\ \A i \in 1..Len(line) : line[i] = seen
    BY DEF IInv, QuietInv
  <2>2. len = lengths[seen]
    BY DEF IInv, TypeOK, LineInv, MessageInv
  <2>3. line = [i \in 1..Len(line) |-> line[i]]
    BY DEF IInv, TypeOK
  <2> QED BY <2>1, <2>2, <2>3
<1> QED BY <1>1, Invariance, PTL
=============================================================================
