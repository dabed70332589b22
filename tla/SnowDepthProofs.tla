-------------------------- MODULE SnowDepthProofs --------------------------
(***************************************************************************)
(* Proofs about SnowDepth, for every buffer, queue and sensor that satisfy *)
(* its assumptions.  PInv counts sentences and messages; FoundInv finds a  *)
(* carriage return for each message; GapInv and KeptInv bound what is kept *)
(* of a period, and ApartInv and SomeInv say that it is not nothing.  They *)
(* hold as long as no interrupt has torn the buffer; TypeInv always holds. *)
(***************************************************************************)
EXTENDS SnowDepth, SequenceTheorems, TLAPS

-----------------------------------------------------------------------------
(* The invariants.                                                         *)

Reading == pc \in {"receive", "get"}

\* The messages whose sentences have not been read to their end.
Inflight == IF pc = "get" THEN msgs + 1 ELSE msgs

\* The types, by what the provers can handle together.
Places ==
  /\ main \in {"init", "joining", "asleep", "returned"}
  /\ mutex \in {"free", "main", "printer"}
  /\ pc \in {"absent", "lock", "off", "receive", "get", "send"}
  /\ slipped \in BOOLEAN /\ overrun \in BOOLEAN

Counts == msgs \in Nat /\ msgs <= QUEUE /\ decompte \in Nat

Buffers ==
  /\ ring \in Seq(Byte) /\ Len(ring) \in Nat /\ Len(ring) <= RING
  /\ val \in Seq(Byte \cup {Nothing}) /\ Len(val) \in Nat

Sensed ==
  /\ sensor \in [on : BOOLEAN, said : Nat, left : Nat]
  /\ sensor.said \in Nat /\ sensor.left \in Nat
  /\ sensor.said <= BANNER /\ sensor.left <= Length(sensor.said)

Types == Places /\ Counts /\ Buffers /\ Sensed

\* A period reads TOTAL sentences with the sensor powered.  Once what was queued
\* before it is worked off, each message is read as it comes.
PeriodInv ==
  /\ Reading => decompte < TOTAL
  /\ pc = "send" => decompte = TOTAL
  /\ ~Reading /\ pc # "send" => decompte = 0
  /\ Inflight <= QUEUE
  /\ Reading => Inflight <= 1 \/ Inflight + decompte <= QUEUE

\* Between two periods the sensor is not powered.
StillInv ==
  /\ ~Reading /\ pc # "send" => ~sensor.on
  /\ ~Reading => ~slipped
  /\ main = "init" => pc = "absent"

\* So a period hears sentences of its own, which begin with the banner.
SaidInv ==
  /\ Reading => sensor.said = BANNER \/ decompte + Inflight <= sensor.said + QUEUE
  /\ pc = "send" =>
       \/ sensor.said = BANNER
       \/ /\ TOTAL <= sensor.said + QUEUE
          /\ msgs > 0 => TOTAL < sensor.said + QUEUE

\* While the printer is at work no carriage return comes: at most one byte does,
\* and the sensor has just begun a sentence.
SlowInv == ~Waiting /\ ~slipped => sensor.left > 0

PInv == Types /\ PeriodInv /\ StillInv /\ SaidInv /\ SlowInv

-----------------------------------------------------------------------------
(* Facts about the constants and about the ring buffer.                    *)

\* The assumptions on the constants, in parts.
LEMMA Constants ==
  /\ RING \in Nat /\ RING > 0 /\ QUEUE \in Nat /\ QUEUE > 0 /\ VAL \in Nat
  /\ BANNER \in Nat /\ BANNER > 0 /\ TOTAL \in Nat /\ DISCARD \in Nat
  /\ BLEN \in Nat /\ BLEN > 1 /\ MLEN \in Nat /\ MLEN > 1
  /\ DISCARD + 1 < TOTAL /\ QUEUE < TOTAL
  /\ Longest \in Nat /\ BLEN <= Longest /\ MLEN <= Longest
  BY SnowAssumption DEF SnowAssumption, Longest

\* All that waits is in the buffer with two bytes to spare.
LEMMA RingBig == Held \in Nat /\ Held > 0 /\ Held + 1 < RING /\ RING > 1
<1>1. QUEUE * (MLEN + 1) \in Nat /\ QUEUE * (MLEN + 1) > 0
  <2>1. \A q, m \in Nat : q > 0 /\ m > 0 => q * m \in Nat /\ q * m > 0
    BY Z3
  <2> QED BY <2>1, Constants
<1>2. Late \in Nat /\ Longest - MLEN \in Nat
  BY Constants DEF Late
<1>3. Late * (Longest - MLEN) \in Nat
  BY <1>2
<1> QED BY <1>1, <1>3, Constants, RingAssumption DEF Held

\* A sentence has at least two bytes before its carriage return.
LEMMA LengthFacts ==
  ASSUME NEW said
  PROVE  Length(said) \in Nat /\ Length(said) > 1 /\ Length(said) <= Longest
  BY Constants DEF Length

\* A full buffer drops its oldest byte.
Dropped(r) == IF Len(r) = RING THEN 1 ELSE 0

\* The byte of the sensor is the last of the buffer; the others move up when the
\* oldest makes room for it.
LEMMA AddOneFacts ==
  ASSUME NEW r \in Seq(Byte), Len(r) <= RING, NEW b \in Byte
  PROVE  /\ AddOne(r, b) \in Seq(Byte)
         /\ Len(AddOne(r, b)) = Len(r) + 1 - Dropped(r)
         /\ AddOne(r, b)[Len(AddOne(r, b))] = b
         /\ \A i \in 1..(Len(AddOne(r, b)) - 1) : AddOne(r, b)[i] = r[i + Dropped(r)]
<1>1. CASE Len(r) = RING
  <2>1. r # << >> /\ Tail(r) \in Seq(Byte) /\ Len(Tail(r)) = Len(r) - 1
        /\ \A i \in 1..(Len(r) - 1) : Tail(r)[i] = r[i + 1]
    BY <1>1, Constants
  <2> QED BY <1>1, <2>1, Constants DEF AddOne, Dropped
<1>2. CASE Len(r) # RING
  BY <1>2 DEF AddOne, Dropped
<1> QED BY <1>1, <1>2

\* An interrupt in ringbuffer_get_one may drop the second byte of a full buffer
\* in place of the oldest.
Skipped(r, b) == <<Head(r)>> \o Tail(AddOne(r, b))

LEMMA SkippedFacts ==
  ASSUME NEW r \in Seq(Byte), Len(r) = RING, RING > 1, NEW b \in Byte
  PROVE  /\ Skipped(r, b) \in Seq(Byte) /\ Len(Skipped(r, b)) = RING
         /\ Skipped(r, b)[1] = r[1] /\ Skipped(r, b)[RING] = b
         /\ \A i \in 2..(RING - 1) : Skipped(r, b)[i] = r[i + 1]
<1> DEFINE a == AddOne(r, b)
<1>1. RING \in Nat /\ Len(r) <= RING /\ Dropped(r) = 1
  BY Constants DEF Dropped
<1>2. /\ a \in Seq(Byte) /\ Len(a) = RING /\ a[RING] = b
      /\ \A i \in 1..(RING - 1) : a[i] = r[i + 1]
  <2>1. /\ a \in Seq(Byte) /\ Len(a) = Len(r) + 1 - Dropped(r) /\ a[Len(a)] = b
        /\ \A i \in 1..(Len(a) - 1) : a[i] = r[i + Dropped(r)]
    BY <1>1, AddOneFacts
  <2> HIDE DEF a
  <2>2. Len(a) = RING
    BY <1>1, <2>1
  <2> QED BY <1>1, <2>1, <2>2
<1> HIDE DEF a
<1>3. /\ Tail(a) \in Seq(Byte) /\ Len(Tail(a)) = RING - 1
      /\ \A i \in 1..(RING - 1) : Tail(a)[i] = a[i + 1]
  BY <1>1, <1>2
<1>4. r # << >> /\ Head(r) = r[1] /\ r[1] \in Byte /\ <<Head(r)>> \in Seq(Byte)
  BY <1>1
<1> DEFINE h == <<Head(r)>>
           t == Tail(a)
<1>5. h \in Seq(Byte) /\ Len(h) = 1 /\ h[1] = r[1]
  BY <1>4
<1>6. Skipped(r, b) = h \o t
  BY DEF Skipped, a
<1> HIDE DEF h, t
<1>9. t \in Seq(Byte) /\ Len(t) = RING - 1
  BY <1>3 DEF t
<1>7. /\ h \o t \in Seq(Byte) /\ Len(h \o t) = 1 + Len(t) /\ (h \o t)[1] = r[1]
      /\ \A i \in 2..(1 + Len(t)) : (h \o t)[i] = t[i - 1]
  <2>1. /\ h \o t \in Seq(Byte) /\ Len(h \o t) = Len(h) + Len(t)
        /\ \A i \in 1..(Len(h) + Len(t)) :
             (h \o t)[i] = IF i <= Len(h) THEN h[i] ELSE t[i - Len(h)]
    BY <1>5, <1>9, ConcatProperties
  <2> QED BY <1>1, <1>5, <1>9, <2>1
<1>8. \A i \in 2..RING : (h \o t)[i] = a[i]
  <2> SUFFICES ASSUME NEW i \in 2..RING PROVE (h \o t)[i] = a[i]
    OBVIOUS
  <2>1. i \in 2..(1 + Len(t)) /\ i - 1 \in 1..(RING - 1) /\ (i - 1) + 1 = i
    BY <1>1, <1>3 DEF t
  <2> QED BY <1>3, <1>7, <2>1 DEF t
<1> QED BY <1>1, <1>2, <1>3, <1>6, <1>7, <1>8 DEF t

\* What the printer leaves behind it.
LEMMA TailFacts ==
  ASSUME NEW r \in Seq(Byte), r # << >>
  PROVE  /\ Tail(r) \in Seq(Byte) /\ Len(Tail(r)) = Len(r) - 1 /\ Len(r) > 0
         /\ Head(r) = r[1] /\ r[1] \in Byte
         /\ \A i \in 1..(Len(r) - 1) : Tail(r)[i] = r[i + 1]
  OBVIOUS

-----------------------------------------------------------------------------
(* For each message a carriage return.                                     *)

CR(s, i) == s[i].cr = TRUE

\* f says how far from the end of s its last k carriage returns are, or k others.
EndsAt(f, s, k) ==
  /\ f \in [1..k -> Nat]
  /\ \A j \in 1..k : f[j] < Len(s) /\ CR(s, Len(s) - f[j])
  /\ \A i, j \in 1..k : i < j => f[i] < f[j]

\* Of the sentences after the first that waits, those of the banner; what they
\* are longer than measures.
Begun(said) == IF said < BANNER THEN said + 1 ELSE BANNER
Later(said) == IF TOTAL - QUEUE + 1 < Begun(said)
               THEN Begun(said) - (TOTAL - QUEUE + 1) ELSE 0
LateBytes(said) == Later(said) * (Longest - MLEN)

\* While the report is sent sentences follow each other, and the j-th from the
\* end is that far; then at most one more byte comes before all are read.
Near(d, j) ==
  IF pc = "send" THEN d + sensor.left < j * (MLEN + 1) + LateBytes(sensor.said)
  ELSE d < Held + (IF slipped THEN 1 ELSE 0)

FoundInv ==
  \E f \in [1..Inflight -> Nat] :
    EndsAt(f, ring, Inflight) /\ \A j \in 1..Inflight : Near(f[j], j)

\* The printer takes the oldest byte of a buffer that holds a carriage return.
LEMMA NotEmpty ==
  ASSUME PInv, FoundInv, pc = "get"
  PROVE  ring # << >> /\ \E i \in 1..Len(ring) : CR(ring, i)
<1>1. PICK f \in [1..Inflight -> Nat] : EndsAt(f, ring, Inflight)
  BY DEF FoundInv
<1>2. 1 \in 1..Inflight /\ Len(ring) \in Nat
  BY DEF PInv, Types, Counts, Buffers, Inflight
<1>3. f[1] \in Nat /\ f[1] < Len(ring) /\ CR(ring, Len(ring) - f[1])
  BY <1>1, <1>2 DEF EndsAt
<1>4. Len(ring) - f[1] \in 1..Len(ring)
  BY <1>2, <1>3
<1> QED BY <1>2, <1>3, <1>4

-----------------------------------------------------------------------------
(* The two things a byte of the sensor may be.                             *)

Heard(b) == ring' = AddOne(ring, b)

\* A byte of a sentence; it, or the second of the buffer, may be lost while the
\* printer takes one.
PlainByte ==
  /\ sensor.left > 0 /\ sensor'.left = sensor.left - 1
  /\ sensor'.said = sensor.said /\ msgs' = msgs
  /\ \/ pc = "get" /\ ring' = ring
     \/ \E b \in Byte : b.cr = FALSE /\ Heard(b)
     \/ /\ pc = "get" /\ ~slipped /\ Len(ring) = RING
        /\ \E b \in Byte : b.cr = FALSE /\ ring' = Skipped(ring, b)

\* The end of a sentence, while the printer waits.
EndOfSentence ==
  /\ sensor.left = 0 /\ Waiting /\ pc # "get"
  /\ sensor'.said = (IF sensor.said < BANNER THEN sensor.said + 1 ELSE BANNER)
  /\ sensor'.left = Length(sensor'.said)
  /\ msgs' = (IF msgs < QUEUE THEN msgs + 1 ELSE msgs)
  /\ \E b \in Byte : b.cr = TRUE /\ Heard(b)

SensorFrame ==
  /\ pc \in {"receive", "get", "send"}
  /\ sensor.on /\ sensor' \in [on : BOOLEAN, said : Nat, left : Nat] /\ sensor'.on
  /\ ~Waiting => ~slipped
  /\ slipped' = ~Waiting /\ slipped' \in BOOLEAN
  /\ overrun' = (overrun \/ (pc # "send" /\ Len(ring) = RING))
  /\ UNCHANGED <<main, mutex, pc, decompte, val>>

\* A step of the sensor is one of these two.
LEMMA SensorStep ==
  ASSUME PInv, FoundInv, ~torn', SensorWrites
  PROVE  SensorFrame /\ (PlainByte \/ EndOfSentence)
<1> DEFINE b == [cr    |-> sensor.left = 0,
                 text  |-> IF sensor.said < BANNER THEN "banner" ELSE "measure",
                 fresh |-> TRUE]
           said == IF sensor.said < BANNER THEN sensor.said + 1 ELSE BANNER
<1>1. /\ sensor.on /\ (~Waiting => ~slipped \/ Spinning) /\ slipped' = ~Waiting
      /\ sensor' = IF sensor.left = 0
                   THEN [sensor EXCEPT !.said = said, !.left = Length(said)]
                   ELSE [sensor EXCEPT !.left = @ - 1]
      /\ overrun' = (overrun \/ (pc # "send" /\ Len(ring) = RING))
      /\ UNCHANGED <<main, mutex, pc, decompte, val>>
  BY DEF SensorWrites
<1>2. /\ RingTakes(b)
      /\ msgs' = IF b.cr /\ msgs < QUEUE /\ pc # "absent" THEN msgs + 1 ELSE msgs
  BY DEF SensorWrites, RxCb
<1>3. b \in Byte /\ (b.cr <=> sensor.left = 0) /\ b.cr \in BOOLEAN
  BY DEF Byte
<1>4. /\ sensor \in [on : BOOLEAN, said : Nat, left : Nat]
      /\ sensor.said \in Nat /\ sensor.left \in Nat /\ sensor.said <= BANNER
  BY DEF PInv, Types, Sensed
<1>5. pc \in {"receive", "get", "send"}
  BY <1>1 DEF PInv, Types, Places, StillInv, Reading
<1> HIDE DEF b
<1>6. /\ ~Waiting => ~slipped
      /\ \/ ring' = AddOne(ring, b)
         \/ pc = "get" /\ ring' = ring
         \/ pc = "get" /\ ~slipped /\ Len(ring) = RING /\ ring' = Skipped(ring, b)
  <2>1. ~Spinning
    BY NotEmpty DEF Spinning
  <2>2. ~Waiting => ~slipped
    BY <1>1, <2>1, Zenon
  <2>3. \/ ring' = AddOne(ring, b)
        \/ pc = "get" /\ ring' \in Mislay(ring, b)
    BY <1>2 DEF RingTakes
  <2>4. pc = "get" => ~slipped
    BY <2>2 DEF Waiting
  <2> QED BY <2>2, <2>3, <2>4 DEF Mislay, Skipped
<1>7. sensor' \in [on : BOOLEAN, said : Nat, left : Nat] /\ sensor'.on
  <2>1. said \in Nat /\ Length(said) \in Nat
    BY <1>4, LengthFacts, Constants
  <2> HIDE DEF said
  <2>2. CASE sensor.left = 0
    <3>1. sensor' = [sensor EXCEPT !.said = said, !.left = Length(said)]
      BY <1>1, <2>2
    <3> QED BY <1>1, <1>4, <2>1, <3>1
  <2>3. CASE sensor.left # 0
    <3>1. sensor' = [sensor EXCEPT !.left = @ - 1] /\ sensor.left - 1 \in Nat
      BY <1>1, <1>4, <2>3
    <3> QED BY <1>1, <1>4, <3>1
  <2> QED BY <2>2, <2>3
<1>8. SensorFrame
  BY <1>1, <1>5, <1>6, <1>7, Zenon DEF SensorFrame
<1>9. CASE sensor.left = 0
  <2>1. Waiting /\ pc # "get"
    BY <1>5, <1>6, <1>9 DEF PInv, SlowInv, Waiting
  <2>2. sensor'.said = said /\ sensor'.left = Length(sensor'.said)
    BY <1>1, <1>4, <1>9
  <2>3. b.cr = TRUE
    BY <1>3, <1>9
  <2>4. msgs' = IF msgs < QUEUE THEN msgs + 1 ELSE msgs
    BY <1>2, <1>5, <2>3
  <2> QED BY <1>3, <1>6, <1>8, <1>9, <2>1, <2>2, <2>3, <2>4 DEF EndOfSentence, Heard
<1>10. CASE sensor.left # 0
  <2>1. sensor.left > 0 /\ sensor'.said = sensor.said
        /\ sensor'.left = sensor.left - 1
    BY <1>1, <1>4, <1>10
  <2>2. b.cr = FALSE
    BY <1>3, <1>10
  <2>3. msgs' = msgs
    BY <1>2, <2>2
  <2> QED BY <1>3, <1>6, <1>8, <2>1, <2>2, <2>3 DEF PlainByte, Heard
<1> QED BY <1>9, <1>10

-----------------------------------------------------------------------------
(* The types and the periods.                                              *)

\* What the printer takes of the buffer.
Taken == IF ring = << >> THEN Nothing ELSE Head(ring)

\* What the printer does with the byte it takes.
LEMMA GetOneStep ==
  ASSUME Types, GetOne
  PROVE  /\ pc = "get" /\ Taken \in Byte \cup {Nothing}
         /\ ring' \in Seq(Byte) /\ Len(ring') \in Nat /\ Len(ring') <= Len(ring)
         /\ ring # << >> => ring' = Tail(ring)
         /\ UNCHANGED <<main, mutex, msgs, sensor, overrun>>
         /\ \/ Taken.cr = TRUE /\ ring # << >> /\ decompte' = decompte + 1
               /\ val' = val /\ pc' = (IF decompte + 1 < TOTAL THEN "receive" ELSE "send")
            \/ /\ Taken.cr = FALSE /\ decompte' = decompte /\ pc' = "get"
               /\ val' = IF decompte > DISCARD THEN Append(val, Taken) ELSE val
         /\ slipped' = IF pc' = "send" THEN FALSE ELSE slipped
<1>1. ring \in Seq(Byte) /\ Len(ring) \in Nat
  BY DEF Types, Buffers
<1>2. /\ Taken \in Byte \cup {Nothing} /\ Taken.cr \in BOOLEAN
      /\ ring = << >> => Taken.cr = FALSE
  <2>1. CASE ring = << >>
    BY <2>1 DEF Taken, Nothing
  <2>2. CASE ring # << >>
    BY <1>1, <2>2, TailFacts DEF Taken, Byte
  <2> QED BY <2>1, <2>2
<1>3. /\ pc = "get" /\ Keep(Taken) /\ AfterByte(Taken)
      /\ ring' = IF ring = << >> THEN ring ELSE Tail(ring)
      /\ slipped' = IF pc' = "send" THEN FALSE ELSE slipped
      /\ UNCHANGED <<main, mutex, msgs, sensor, overrun>>
  BY DEF GetOne, Taken
<1>4. ring' \in Seq(Byte) /\ Len(ring') \in Nat /\ Len(ring') <= Len(ring)
  BY <1>1, <1>3, TailFacts
<1>5. CASE Taken.cr = TRUE
  BY <1>2, <1>3, <1>4, <1>5 DEF Keep, AfterByte
<1>6. CASE Taken.cr = FALSE
  BY <1>2, <1>3, <1>4, <1>6 DEF Keep, AfterByte
<1> QED BY <1>2, <1>5, <1>6

\* A buffer once torn counts as torn for good.
LEMMA TornStays == [Next]_vars => (torn => torn')
<1> SUFFICES ASSUME [Next]_vars, torn PROVE torn'
  OBVIOUS
<1>1. CASE SensorWrites
  BY <1>1 DEF SensorWrites, RxCb, RingTakes
<1> QED BY <1>1 DEF Next, Main, Setup, Joined, JoinFailed, Printer, Lock, PowerUp,
           Receive, GetOne, Report, Idle, vars

\* PInv holds at first, and then every step keeps it.
LEMMA InitPInv == Init => PInv
<1> SUFFICES ASSUME Init PROVE PInv
  OBVIOUS
<1>1. Length(0) \in Nat
  BY LengthFacts
<1>2. Places
  BY Zenon DEF Init, Places
<1>7. Counts
  BY Constants DEF Init, Counts
<1>3. Buffers
  BY Constants DEF Init, Buffers
<1>4. Sensed
  BY <1>1, Constants DEF Init, Sensed
<1>5. PeriodInv /\ SaidInv
  BY Constants DEF Init, PeriodInv, SaidInv, Reading, Inflight
<1>6. StillInv /\ SlowInv
  BY DEF Init, StillInv, SlowInv, Reading, Waiting
<1> QED BY <1>2, <1>7, <1>3, <1>4, <1>5, <1>6 DEF PInv, Types

\* The steps of main and of the printer outside a period.
LEMMA BootPInv ==
  ASSUME PInv, Setup \/ Joined \/ JoinFailed \/ Lock
  PROVE  PInv'
<1>1. UNCHANGED <<ring, msgs, decompte, val, slipped, sensor, overrun>>
  BY DEF Setup, Joined, JoinFailed, Lock
<1>2. /\ main' \in {"init", "joining", "asleep", "returned"}
      /\ mutex' \in {"free", "main", "printer"}
  BY DEF Setup, Joined, JoinFailed, Lock, PInv, Types, Places
<1>3. /\ pc' = pc \/ (pc \in {"absent", "lock"} /\ pc' \in {"lock", "off"})
      /\ main' = "init" => main = "init" /\ pc' = pc
  BY DEF Setup, Joined, JoinFailed, Lock, PInv, Types, Places, StillInv
<1>4. Types'
  BY <1>1, <1>2, <1>3
     DEF PInv, Types, Places, Counts, Buffers, Sensed, Length
<1>5. PeriodInv' /\ SaidInv'
  BY <1>1, <1>3 DEF PInv, PeriodInv, SaidInv, Reading, Inflight
<1>6. SlowInv' /\ StillInv'
  BY <1>1, <1>3 DEF PInv, SlowInv, StillInv, Waiting, Reading
<1> QED BY <1>4, <1>5, <1>6 DEF PInv

\* The period starts: no sentence is read and none is said.
LEMMA PowerUpPInv == ASSUME PInv, PowerUp PROVE PInv'
<1>1. /\ pc = "off" /\ pc' = "receive" /\ val' = << >>
      /\ sensor' = [on |-> TRUE, said |-> 0, left |-> Length(0)]
      /\ slipped' = FALSE /\ overrun' = FALSE
      /\ UNCHANGED <<main, mutex, msgs, decompte>>
  BY DEF PowerUp
<1>2. Length(0) \in Nat /\ Length(0) > 0
  BY LengthFacts
<1>3. Places' /\ Counts'
  BY <1>1 DEF PInv, Types, Places, Counts
<1>4. Buffers'
  <2>1. ring' = [i \in DOMAIN ring |-> [ring[i] EXCEPT !.fresh = FALSE]]
    BY DEF PowerUp
  <2>2. ring \in Seq(Byte) /\ Len(ring) \in Nat /\ Len(ring) <= RING
    BY DEF PInv, Types, Buffers
  <2>3. DOMAIN ring = 1..Len(ring) /\ \A i \in 1..Len(ring) : ring[i] \in Byte
    BY <2>2
  <2>4. \A b \in Byte : [b EXCEPT !.fresh = FALSE] \in Byte
    BY DEF Byte
  <2>5. ring' \in Seq(Byte) /\ Len(ring') = Len(ring)
    BY <2>1, <2>2, <2>3, <2>4
  <2> QED BY <1>1, <2>2, <2>5 DEF Buffers
<1>5. Sensed'
  BY <1>1, <1>2, Constants DEF Sensed
<1>6. PeriodInv' /\ SaidInv'
  BY <1>1, Constants DEF PInv, Types, Counts, PeriodInv, SaidInv, Reading, Inflight
<1>7. SlowInv' /\ StillInv'
  BY <1>1, <1>2 DEF PInv, SlowInv, StillInv, Waiting, Reading
<1> QED BY <1>3, <1>4, <1>5, <1>6, <1>7 DEF PInv, Types

\* The message taken stays in flight until its sentence is read.
LEMMA ReceivePInv == ASSUME PInv, Receive PROVE PInv'
<1>1. /\ pc = "receive" /\ msgs > 0 /\ msgs' = msgs - 1 /\ pc' = "get"
      /\ UNCHANGED <<main, mutex, ring, decompte, val, slipped, sensor, overrun>>
  BY DEF Receive
<1>2. Places'
  BY <1>1 DEF PInv, Types, Places
<1>6. Counts'
  <2>1. msgs > 0 /\ msgs' = msgs - 1 /\ decompte' = decompte /\ Counts
    BY <1>1 DEF PInv, Types
  <2>2. QUEUE \in Nat
    BY Constants
  <2> QED BY <2>1, <2>2 DEF Counts
<1>3. Buffers' /\ Sensed'
  BY <1>1 DEF PInv, Types, Buffers, Sensed, Length
<1>4. PeriodInv' /\ SaidInv'
  BY <1>1 DEF PInv, Types, Counts, PeriodInv, SaidInv, Reading, Inflight
<1>5. SlowInv' /\ StillInv'
  BY <1>1 DEF PInv, Types, Counts, SlowInv, StillInv, Waiting, Reading
<1> QED BY <1>2, <1>3, <1>4, <1>5, <1>6 DEF PInv, Types

\* A byte is taken: at the end of a sentence one message less is in flight.
LEMMA GetOnePInv == ASSUME PInv, GetOne PROVE PInv'
<1>1. /\ pc = "get" /\ UNCHANGED <<main, mutex, msgs, sensor, overrun>>
      /\ \/ decompte' = decompte + 1
            /\ pc' = (IF decompte + 1 < TOTAL THEN "receive" ELSE "send")
         \/ decompte' = decompte /\ pc' = "get"
      /\ slipped' = IF pc' = "send" THEN FALSE ELSE slipped
  BY GetOneStep DEF PInv
<1>2. Places'
  BY <1>1, Zenon DEF PInv, Types, Places
<1>7. Counts'
  BY <1>1 DEF PInv, Types, Counts
<1>3. Buffers'
  <2>1. ring' \in Seq(Byte) /\ Len(ring') \in Nat /\ Len(ring') <= RING
    BY GetOneStep, Constants DEF PInv, Types, Buffers
  <2>2. Taken \in Byte \cup {Nothing} /\ (val' = val \/ val' = Append(val, Taken))
    BY GetOneStep DEF PInv
  <2>3. val' \in Seq(Byte \cup {Nothing})
    BY <2>2 DEF PInv, Types, Buffers
  <2> QED BY <2>1, <2>3 DEF Buffers
<1>4. Sensed'
  BY <1>1 DEF PInv, Types, Sensed, Length
<1>5. PeriodInv' /\ SaidInv'
  BY <1>1, Constants
     DEF PInv, Types, Counts, Sensed, PeriodInv, SaidInv, Reading, Inflight
<1>6. SlowInv' /\ StillInv'
  BY <1>1 DEF PInv, SlowInv, StillInv, Waiting, Reading
<1> QED BY <1>2, <1>3, <1>4, <1>5, <1>6, <1>7 DEF PInv, Types

\* The report is over, and with it the period.
LEMMA ReportPInv == ASSUME PInv, Report PROVE PInv'
<1>1. /\ pc = "send" /\ pc' = "off" /\ val' = << >> /\ decompte' = 0
      /\ sensor' = [on |-> FALSE, said |-> 0, left |-> 0]
      /\ slipped' = FALSE
      /\ UNCHANGED <<main, mutex, ring, msgs, overrun>>
  BY DEF Report
<1>2. Length(0) \in Nat
  BY LengthFacts
<1>3. Places' /\ Counts'
  BY <1>1 DEF PInv, Types, Places, Counts
<1>4. Buffers'
  BY <1>1 DEF PInv, Types, Buffers
<1>5. Sensed'
  BY <1>1, <1>2, Constants DEF Sensed
<1>6. PeriodInv' /\ SaidInv'
  BY <1>1 DEF PInv, Types, Counts, PeriodInv, SaidInv, Reading, Inflight
<1>7. SlowInv' /\ StillInv'
  BY <1>1 DEF PInv, SlowInv, StillInv, Reading, Waiting
<1> QED BY <1>3, <1>4, <1>5, <1>6, <1>7 DEF PInv, Types

\* A sentence said is one more message at most.
LEMMA SensorPInv == ASSUME PInv, FoundInv, ~torn', SensorWrites PROVE PInv'
<1>1. SensorFrame /\ (PlainByte \/ EndOfSentence)
  BY SensorStep
<1>2. /\ ring \in Seq(Byte) /\ Len(ring) \in Nat /\ Len(ring) <= RING
      /\ \/ ring' = ring
         \/ \E b \in Byte : Heard(b)
         \/ Len(ring) = RING /\ \E b \in Byte : ring' = Skipped(ring, b)
  BY <1>1 DEF PInv, Types, Buffers, PlainByte, EndOfSentence
<1>3. ring' \in Seq(Byte) /\ Len(ring') \in Nat /\ Len(ring') <= RING
  <2>1. CASE \E b \in Byte : Heard(b)
    <3>1. PICK b \in Byte : ring' = AddOne(ring, b)
      BY <2>1 DEF Heard
    <3>2. ring' \in Seq(Byte) /\ Len(ring') = Len(ring) + 1 - Dropped(ring)
      BY <1>2, <3>1, AddOneFacts
    <3> QED BY <1>2, <3>2, Constants DEF Dropped
  <2>2. CASE Len(ring) = RING /\ \E b \in Byte : ring' = Skipped(ring, b)
    <3>1. PICK b \in Byte : ring' = Skipped(ring, b)
      BY <2>2
    <3>2. ring' \in Seq(Byte) /\ Len(ring') = RING
      BY <1>2, <2>2, <3>1, SkippedFacts, RingBig
    <3> QED BY <3>2, Constants
  <2>3. CASE ring' = ring
    BY <1>2, <2>3
  <2> QED BY <1>2, <2>1, <2>2, <2>3
<1>4. /\ pc \in {"receive", "get", "send"} /\ sensor.on /\ sensor'.on
      /\ ~Waiting => ~slipped
      /\ slipped' = ~Waiting /\ slipped' \in BOOLEAN
      /\ UNCHANGED <<main, mutex, pc, decompte, val>>
      /\ sensor' \in [on : BOOLEAN, said : Nat, left : Nat]
  BY <1>1 DEF SensorFrame
<1>5. \/ /\ sensor.left > 0 /\ sensor'.left = sensor.left - 1
         /\ sensor'.said = sensor.said /\ msgs' = msgs
      \/ /\ sensor.left = 0 /\ Waiting /\ pc # "get"
         /\ sensor'.said = (IF sensor.said < BANNER THEN sensor.said + 1 ELSE BANNER)
         /\ sensor'.left = Length(sensor'.said)
         /\ msgs' = (IF msgs < QUEUE THEN msgs + 1 ELSE msgs)
  BY <1>1 DEF PlainByte, EndOfSentence
<1>6. Places'
  <2>1. overrun' = (overrun \/ (pc # "send" /\ Len(ring) = RING))
    BY <1>1 DEF SensorFrame
  <2>2. overrun' \in BOOLEAN
    BY <2>1, Zenon DEF PInv, Types, Places
  <2> QED BY <1>4, <2>2 DEF PInv, Types, Places
<1>7. Counts'
  BY <1>4, <1>5, Constants DEF PInv, Types, Counts
<1>8. Buffers'
  BY <1>3, <1>4 DEF PInv, Types, Buffers
<1>9. Sensed'
  <2>1. \A said : Length(said) \in Nat
    BY LengthFacts
  <2>2. sensor'.said \in Nat /\ sensor'.said <= BANNER /\ sensor'.left \in Nat
        /\ sensor'.left <= Length(sensor'.said)
    BY <1>5, <2>1, Constants DEF PInv, Types, Sensed
  <2> QED BY <1>4, <2>2 DEF Sensed, Length
<1>10. PeriodInv' /\ SaidInv'
  <2>1. pc' = pc /\ decompte' = decompte
    BY <1>4
  <2>2. CASE sensor'.said = sensor.said /\ msgs' = msgs
    BY <2>1, <2>2 DEF PInv, PeriodInv, SaidInv, Reading, Inflight
  <2>3. CASE /\ sensor'.said = (IF sensor.said < BANNER THEN sensor.said + 1
                                                    ELSE BANNER)
             /\ msgs' = (IF msgs < QUEUE THEN msgs + 1 ELSE msgs)
             /\ pc = "send" \/ (pc = "receive" /\ msgs = 0)
    <3>1. Counts /\ sensor.said \in Nat /\ sensor.said <= BANNER
          /\ PeriodInv /\ SaidInv
      BY DEF PInv, Types, Sensed
    <3>2. PeriodInv'
      BY <2>1, <2>3, <3>1, Constants DEF Counts, PeriodInv, Reading, Inflight
    <3>3. SaidInv'
      BY <2>1, <2>3, <3>1, Constants DEF Counts, PeriodInv, SaidInv, Reading, Inflight
    <3> QED BY <3>2, <3>3
  <2> QED BY <1>4, <1>5, <2>2, <2>3 DEF Waiting
<1>11. SlowInv'
  <2>1. sensor.left = 0 => sensor'.left > 0
    BY <1>5, LengthFacts
  <2> QED BY <1>4, <1>5, <2>1 DEF SlowInv, Waiting
<1>12. StillInv'
  BY <1>4 DEF PInv, StillInv, Reading, Waiting
<1> QED BY <1>6, <1>7, <1>8, <1>9, <1>10, <1>11, <1>12
        DEF PInv, Types

\* Together.
LEMMA NextPInv ==
  PInv /\ FoundInv /\ ~torn' /\ [Next]_vars => PInv'
<1> SUFFICES ASSUME PInv, FoundInv, ~torn', [Next]_vars PROVE PInv'
  OBVIOUS
<1>1. CASE UNCHANGED vars
  BY <1>1 DEF vars, PInv, Types, Places, Counts, Buffers, Sensed, PeriodInv, StillInv,
     SaidInv, SlowInv, Reading, Inflight, Waiting, Length
<1> QED BY <1>1, BootPInv, PowerUpPInv, ReceivePInv, GetOnePInv, ReportPInv,
           SensorPInv
        DEF Next, Main, Printer, Idle

-----------------------------------------------------------------------------
(* Where the carriage returns are.                                         *)

\* What the proofs use of products.
LEMMA Products ==
  ASSUME NEW a \in Nat, NEW b \in Nat, NEW c \in Nat
  PROVE  a * c \in Nat /\ (a + 1) * c = a * c + c /\ (a <= b => a * c <= b * c)
<1>1. a * c \in Nat /\ (a + 1) * c = a * c + c
  OBVIOUS
<1>2. ASSUME a <= b PROVE a * c <= b * c
  <2>1. (b - a) * c \in Nat
    BY <1>2
  <2>2. b * c = a * c + (b - a) * c /\ b * c \in Nat
    OBVIOUS
  <2> QED BY <1>1, <2>1, <2>2
<1> QED BY <1>1, <1>2

\* What a sentence that begins adds to what waits, once one waits.
LEMMA LateFacts ==
  ASSUME NEW s \in Nat, s <= BANNER
  PROVE  /\ LateBytes(s) \in Nat
         /\ LateBytes(s) <= Late * (Longest - MLEN)
         /\ s = BANNER \/ TOTAL <= s + QUEUE
              => Length(Begun(s)) <= MLEN + LateBytes(Begun(s))
         /\ s = BANNER \/ TOTAL < s + QUEUE
              => LateBytes(s) + Length(Begun(s)) <= MLEN + LateBytes(Begun(s))
<1> DEFINE e == Longest - MLEN
           n == Begun(s)
<1>1. e \in Nat /\ BLEN <= MLEN + e
  BY Constants
<1>2. n \in Nat /\ n <= BANNER
  BY Constants DEF Begun
<1>3. \A m \in Nat : Later(m) \in Nat
  BY Constants DEF Later, Begun
<1>4. Late \in Nat /\ Later(s) <= Late
  BY Constants DEF Later, Late, Begun
<1>5. /\ LateBytes(s) = Later(s) * e /\ LateBytes(n) = Later(n) * e
      /\ LateBytes(s) \in Nat /\ LateBytes(n) \in Nat
  <2>1. Later(s) \in Nat /\ Later(n) \in Nat
    BY <1>2, <1>3
  <2> HIDE DEF e, n
  <2>2. Later(s) * e \in Nat /\ Later(n) * e \in Nat
    BY <1>1, <2>1, Products
  <2> QED BY <2>2 DEF LateBytes, e
<1>6. LateBytes(s) <= Late * e
  <2> HIDE DEF e
  <2> QED BY <1>1, <1>3, <1>4, <1>5, Products
<1>7. CASE s = BANNER
  <2>1. n = BANNER /\ Length(n) = MLEN
    BY <1>7 DEF Begun, Length
  <2> QED BY <1>5, <1>6, <1>7, <2>1, Constants
<1>8. CASE s < BANNER /\ s + 1 < BANNER
  <2>1. n = s + 1 /\ Length(n) = BLEN /\ Begun(n) = s + 2
    BY <1>8 DEF Begun, Length
  <2>2. TOTAL <= s + QUEUE => Later(n) >= 1 /\ (TOTAL < s + QUEUE => Later(n) = Later(s) + 1)
    BY <2>1, <1>8, Constants DEF Later, Begun
  <2>3. TOTAL <= s + QUEUE => e <= Later(n) * e
    <3> HIDE DEF e, n
    <3>1. 1 * e = e
      BY <1>1
    <3> QED BY <1>1, <1>2, <1>3, <2>2, <3>1, Products
  <2>4. TOTAL < s + QUEUE => Later(n) * e = Later(s) * e + e
    <3> HIDE DEF e, n
    <3> QED BY <1>1, <1>3, <2>2, Products, Constants
  <2> HIDE DEF e, n
  <2>5. /\ TOTAL <= s + QUEUE => e <= LateBytes(n)
        /\ TOTAL < s + QUEUE => LateBytes(n) = LateBytes(s) + e
    BY <1>5, <2>3, <2>4
  <2>6. Length(n) <= MLEN + e
    BY <1>1, <2>1
  <2>7. s # BANNER /\ Length(n) \in Nat /\ (TOTAL < s + QUEUE => TOTAL <= s + QUEUE)
    BY <1>8, LengthFacts, Constants
  <2>8. /\ TOTAL <= s + QUEUE => Length(n) <= MLEN + LateBytes(n)
        /\ TOTAL < s + QUEUE => LateBytes(s) + Length(n) <= MLEN + LateBytes(n)
    BY <1>1, <1>5, <2>5, <2>6, <2>7, Constants
  <2> QED BY <1>5, <1>6, <2>7, <2>8 DEF e, n
<1>9. CASE s < BANNER /\ ~(s + 1 < BANNER)
  <2>1. n = BANNER /\ Length(n) = MLEN /\ Later(n) = Later(s)
    BY <1>9, Constants DEF Begun, Length, Later
  <2> QED BY <1>5, <1>6, <1>9, <2>1, Constants
<1> QED BY <1>7, <1>8, <1>9, Constants

\* All that wait is within the buffer.
LEMMA NearHeld ==
  ASSUME NEW j \in 1..QUEUE, NEW s \in Nat, s <= BANNER
  PROVE  /\ j * (MLEN + 1) \in Nat /\ (j + 1) * (MLEN + 1) = j * (MLEN + 1) + MLEN + 1
         /\ LateBytes(s) \in Nat
         /\ j * (MLEN + 1) + LateBytes(s) <= Held
         /\ Held \in Nat /\ Held > 0 /\ Held < RING
<1> DEFINE m == MLEN + 1
           late == Late * (Longest - MLEN)
<1>1. m \in Nat /\ m > 0 /\ j \in Nat /\ j <= QUEUE /\ j > 0 /\ QUEUE \in Nat
  BY Constants
<1>2. LateBytes(s) \in Nat /\ LateBytes(s) <= late /\ late \in Nat
  <2>1. LateBytes(s) \in Nat /\ LateBytes(s) <= late
    BY LateFacts
  <2>2. Late \in Nat /\ Longest - MLEN \in Nat
    BY Constants DEF Late
  <2> QED BY <2>1, <2>2, Products
<1>3. Held = QUEUE * m + late
  BY DEF Held
<1> HIDE DEF m, late
<1>4. /\ j * m \in Nat /\ QUEUE * m \in Nat /\ j * m <= QUEUE * m
      /\ (j + 1) * m = j * m + m
  BY <1>1, Products
<1>5. 1 * m = m /\ 1 * m <= j * m
  BY <1>1, Products
<1>6. j * m + LateBytes(s) <= Held /\ Held \in Nat /\ Held > 0
  BY <1>1, <1>2, <1>3, <1>4, <1>5
<1>7. (j + 1) * m = j * m + MLEN + 1
  BY <1>1, <1>4, Constants DEF m
<1> QED BY <1>2, <1>4, <1>6, <1>7, RingBig, Constants DEF m

\* The printer takes a byte that is no carriage return, or the oldest that is.
LEMMA EndsTail ==
  ASSUME NEW r \in Seq(Byte), r # << >>, ~CR(r, 1), NEW k \in Nat, NEW f, EndsAt(f, r, k)
  PROVE  EndsAt(f, Tail(r), k)
<1>1. /\ Len(Tail(r)) = Len(r) - 1 /\ Len(r) \in Nat
      /\ \A i \in 1..(Len(r) - 1) : Tail(r)[i] = r[i + 1]
  BY TailFacts
<1>2. ASSUME NEW j \in 1..k
      PROVE  f[j] < Len(Tail(r)) /\ CR(Tail(r), Len(Tail(r)) - f[j])
  <2>1. f[j] \in Nat /\ f[j] < Len(r) /\ CR(r, Len(r) - f[j])
    BY DEF EndsAt
  <2>2. f[j] # Len(r) - 1
    BY <1>1, <2>1
  <2>3. Len(Tail(r)) - f[j] \in 1..(Len(r) - 1)
        /\ (Len(Tail(r)) - f[j]) + 1 = Len(r) - f[j]
    BY <1>1, <2>1, <2>2
  <2> QED BY <1>1, <2>1, <2>3 DEF CR
<1> QED BY <1>2 DEF EndsAt

\* The same when it is a carriage return: the oldest is gone.
LEMMA EndsTailCR ==
  ASSUME NEW r \in Seq(Byte), r # << >>, NEW k \in Nat, NEW f, EndsAt(f, r, k + 1)
  PROVE  EndsAt([j \in 1..k |-> f[j]], Tail(r), k)
<1> DEFINE g == [j \in 1..k |-> f[j]]
<1>1. /\ Len(Tail(r)) = Len(r) - 1 /\ Len(r) \in Nat
      /\ \A i \in 1..(Len(r) - 1) : Tail(r)[i] = r[i + 1]
  BY TailFacts
<1>2. ASSUME NEW j \in 1..k
      PROVE  g[j] \in Nat /\ g[j] < Len(Tail(r)) /\ CR(Tail(r), Len(Tail(r)) - g[j])
  <2>1. j \in 1..(k + 1) /\ k + 1 \in 1..(k + 1) /\ j < k + 1 /\ g[j] = f[j]
    OBVIOUS
  <2>2. /\ f[j] \in Nat /\ CR(r, Len(r) - f[j])
        /\ f[k + 1] \in Nat /\ f[k + 1] < Len(r) /\ f[j] < f[k + 1]
    BY <2>1 DEF EndsAt
  <2>3. Len(Tail(r)) - f[j] \in 1..(Len(r) - 1)
        /\ (Len(Tail(r)) - f[j]) + 1 = Len(r) - f[j]
    BY <1>1, <2>2
  <2> QED BY <1>1, <2>1, <2>2, <2>3 DEF CR
<1>3. \A i, j \in 1..k : i < j => g[i] < g[j]
  BY DEF EndsAt
<1> QED BY <1>2, <1>3 DEF EndsAt

\* The place of a byte of the buffer, from its end, after another has arrived.
LEMMA MovedOn ==
  ASSUME NEW x \in Nat, NEW l \in Nat, x < l, NEW n, NEW d,
         \/ d = 1 /\ n = l /\ x + 1 < l
         \/ d = 0 /\ n = l + 1
  PROVE  x + 1 < n /\ (n - (x + 1)) + d = l - x
<1>1. CASE d = 1 /\ n = l /\ x + 1 < l
  BY <1>1
<1>2. CASE d = 0 /\ n = l + 1
  BY <1>2
<1> QED BY <1>1, <1>2

\* A byte that arrives moves the others on by one.
LEMMA EndsAdd ==
  ASSUME NEW r \in Seq(Byte), Len(r) <= RING, NEW b \in Byte,
         NEW k \in Nat, NEW f, EndsAt(f, r, k), \A j \in 1..k : f[j] + 1 < RING
  PROVE  EndsAt([j \in 1..k |-> f[j] + 1], AddOne(r, b), k)
<1> DEFINE g == [j \in 1..k |-> f[j] + 1]
           s == AddOne(r, b)
<1>1. /\ Len(s) = Len(r) + 1 - Dropped(r) /\ Len(r) \in Nat
      /\ \A i \in 1..(Len(s) - 1) : s[i] = r[i + Dropped(r)]
  <2>1. Len(r) \in Nat
    OBVIOUS
  <2> QED BY <2>1, AddOneFacts
<1>2. \/ Dropped(r) = 1 /\ Len(s) = Len(r) /\ Len(r) = RING
      \/ Dropped(r) = 0 /\ Len(s) = Len(r) + 1
  <2> HIDE DEF s
  <2> QED BY <1>1 DEF Dropped
<1> HIDE DEF s
<1>3. ASSUME NEW j \in 1..k
      PROVE  g[j] \in Nat /\ g[j] < Len(s) /\ CR(s, Len(s) - g[j])
  <2>1. g[j] = f[j] + 1 /\ f[j] \in Nat /\ f[j] < Len(r) /\ CR(r, Len(r) - f[j])
        /\ f[j] + 1 < RING
    BY DEF EndsAt
  <2> HIDE DEF g
  <2>2. g[j] < Len(s) /\ (Len(s) - g[j]) + Dropped(r) = Len(r) - f[j]
    BY <1>1, <1>2, <2>1, MovedOn
  <2>3. Len(s) - g[j] \in 1..(Len(s) - 1)
    BY <1>1, <1>2, <2>1, <2>2, Constants
  <2> QED BY <1>1, <2>1, <2>2, <2>3 DEF CR
<1>4. \A i, j \in 1..k : i < j => g[i] < g[j]
  BY DEF EndsAt
<1> QED BY <1>3, <1>4 DEF EndsAt, s

\* The same when the second byte makes room for it.
LEMMA EndsSkip ==
  ASSUME NEW r \in Seq(Byte), Len(r) = RING, NEW b \in Byte,
         NEW k \in Nat, NEW f, EndsAt(f, r, k), \A j \in 1..k : f[j] + 2 < RING
  PROVE  EndsAt([j \in 1..k |-> f[j] + 1], Skipped(r, b), k)
<1> DEFINE g == [j \in 1..k |-> f[j] + 1]
           s == Skipped(r, b)
<1>1. Len(s) = RING /\ RING \in Nat /\ \A i \in 2..(RING - 1) : s[i] = r[i + 1]
  BY SkippedFacts, RingBig, Constants
<1> HIDE DEF s
<1>2. ASSUME NEW j \in 1..k
      PROVE  g[j] \in Nat /\ g[j] < Len(s) /\ CR(s, Len(s) - g[j])
  <2>1. g[j] = f[j] + 1 /\ f[j] \in Nat /\ CR(r, RING - f[j]) /\ f[j] + 2 < RING
    BY DEF EndsAt
  <2> HIDE DEF g
  <2>2. RING - g[j] \in 2..(RING - 1) /\ (RING - g[j]) + 1 = RING - f[j]
    BY <1>1, <2>1
  <2>3. s[RING - g[j]] = r[RING - f[j]]
    BY <1>1, <2>2
  <2>4. g[j] \in Nat /\ g[j] < RING
    BY <1>1, <2>1
  <2> QED BY <1>1, <2>1, <2>3, <2>4 DEF CR
<1>3. \A i, j \in 1..k : i < j => g[i] < g[j]
  BY DEF EndsAt
<1> QED BY <1>2, <1>3 DEF EndsAt, s

\* A carriage return that arrives is the first from the end, also when its
\* message, or another, is not queued.
Pushed(f, m) == [j \in 1..m |-> IF j = 1 THEN 0 ELSE f[j - 1] + 1]

\* So the buffer has one carriage return more; any m of them may be counted.
LEMMA EndsAddCR ==
  ASSUME NEW r \in Seq(Byte), Len(r) <= RING, NEW b \in Byte, b.cr = TRUE,
         NEW k \in Nat, NEW m \in Nat, m <= k + 1,
         NEW f, EndsAt(f, r, k), \A j \in 1..k : f[j] + 1 < RING
  PROVE  EndsAt(Pushed(f, m), AddOne(r, b), m)
<1> DEFINE g == [j \in 1..k |-> f[j] + 1]
           h == Pushed(f, m)
           s == AddOne(r, b)
<1>1. EndsAt(g, s, k)
  BY EndsAdd
<1>2. Len(s) \in Nat /\ Len(s) > 0 /\ s[Len(s)] = b
  BY AddOneFacts, Constants DEF Dropped
<1> HIDE DEF s
<1>3. ASSUME NEW j \in 1..m
      PROVE  h[j] \in Nat /\ h[j] < Len(s) /\ CR(s, Len(s) - h[j])
  <2>1. CASE j = 1
    BY <1>2, <2>1 DEF CR, Pushed
  <2>2. CASE j # 1
    <3>1. j - 1 \in 1..k /\ h[j] = g[j - 1]
      BY <2>2 DEF Pushed
    <3> HIDE DEF g, h
    <3> QED BY <1>1, <3>1 DEF EndsAt
  <2> QED BY <2>1, <2>2
<1>4. ASSUME NEW i \in 1..m, NEW j \in 1..m, i < j
      PROVE  h[i] < h[j]
  <2>1. j - 1 \in 1..k /\ h[j] = f[j - 1] + 1 /\ f[j - 1] \in Nat
    BY <1>4 DEF Pushed, EndsAt
  <2>2. CASE i = 1
    BY <2>1, <2>2 DEF Pushed
  <2>3. CASE i # 1
    <3>1. i - 1 \in 1..k /\ h[i] = f[i - 1] + 1 /\ f[i - 1] \in Nat /\ i - 1 < j - 1
      BY <1>4, <2>3 DEF Pushed, EndsAt
    <3>2. f[i - 1] < f[j - 1]
      BY <2>1, <3>1 DEF EndsAt
    <3> QED BY <2>1, <3>1, <3>2
  <2> QED BY <2>2, <2>3
<1>5. h \in [1..m -> Nat]
  <2>1. h = [j \in 1..m |-> h[j]]
    BY DEF Pushed
  <2> HIDE DEF h
  <2> QED BY <1>3, <2>1
<1> QED BY <1>3, <1>4, <1>5 DEF EndsAt, s

\* A byte of a sentence moves all of them on; the sensor has that byte less to
\* say, or the printer is at work and no second one comes.
LEMMA PlainByteFound ==
  ASSUME PInv, FoundInv, SensorFrame, PlainByte
  PROVE  FoundInv'
<1>1. PICK f \in [1..Inflight -> Nat] :
        EndsAt(f, ring, Inflight) /\ \A j \in 1..Inflight : Near(f[j], j)
  BY DEF FoundInv
<1>2. /\ pc' = pc /\ Inflight' = Inflight /\ Inflight \in Nat
      /\ Inflight <= QUEUE /\ QUEUE \in Nat
      /\ sensor.said \in Nat /\ sensor.said <= BANNER /\ sensor'.said = sensor.said
      /\ sensor.left \in Nat /\ sensor.left > 0 /\ sensor'.left = sensor.left - 1
      /\ ring \in Seq(Byte) /\ Len(ring) <= RING
  BY Constants DEF PInv, Types, Counts, Buffers, Sensed, PeriodInv, SensorFrame,
     PlainByte, Inflight
<1>3. slipped' = ~Waiting /\ (~Waiting => ~slipped)
  BY DEF SensorFrame
<1>4. pc = "get" => ~Waiting
  BY DEF Waiting
<1>5. CASE pc = "get" /\ ring' = ring
  <2>1. \A j \in 1..Inflight : Near(f[j], j)'
    <3> SUFFICES ASSUME NEW j \in 1..Inflight PROVE Near(f[j], j)'
      OBVIOUS
    <3>1. f[j] < Held
      BY <1>1, <1>3, <1>4, <1>5, NearHeld, <1>2 DEF Near
    <3>2. Held \in Nat /\ f[j] \in Nat
      BY <1>1, <1>2, NearHeld
    <3> QED BY <1>2, <1>3, <1>4, <1>5, <3>1, <3>2 DEF Near
  <2> QED BY <1>1, <1>2, <1>5, <2>1 DEF FoundInv
<1>6. CASE \E b \in Byte : b.cr = FALSE /\ Heard(b)
  <2> PICK k \in Nat : k = Inflight
    BY <1>2
  <2> PICK g : g = [j \in 1..k |-> f[j] + 1]
    OBVIOUS
  <2>1. PICK b \in Byte : Heard(b)
    BY <1>6
  <2>2. ASSUME NEW j \in 1..Inflight
        PROVE  f[j] + 1 < RING /\ Near(f[j] + 1, j)'
    <3>1. /\ f[j] \in Nat /\ Near(f[j], j) /\ j \in 1..QUEUE
          /\ j * (MLEN + 1) \in Nat /\ LateBytes(sensor.said) \in Nat
          /\ j * (MLEN + 1) + LateBytes(sensor.said) <= Held
          /\ Held \in Nat /\ Held < RING /\ RING \in Nat
      <4>1. f[j] \in Nat /\ Near(f[j], j) /\ j \in 1..QUEUE
        BY <1>1, <1>2
      <4> QED BY <1>2, <4>1, NearHeld, Constants
    <3>2. CASE pc = "send"
      <4> DEFINE x == j * (MLEN + 1) + LateBytes(sensor.said)
      <4>1. f[j] + sensor.left < x /\ x \in Nat /\ x <= Held
        BY <3>1, <3>2 DEF Near
      <4> HIDE DEF x
      <4>2. f[j] + 1 < RING /\ (f[j] + 1) + sensor'.left < x
        <5>1. \A l, n, h, r \in Nat : l > 0 /\ n + l < x /\ x <= h /\ h < r
                 => n + 1 < r /\ (n + 1) + (l - 1) < x
          BY <4>1
        <5> QED BY <1>2, <3>1, <4>1, <5>1
      <4> QED BY <1>2, <3>2, <4>2 DEF Near, x
    <3>3. CASE pc # "send"
      <4>1. ~Waiting
        <5>1. msgs > 0 \/ pc = "get"
          BY <1>2, <3>3 DEF PInv, Types, Counts, Inflight
        <5> QED BY <5>1, <3>3 DEF SensorFrame, Waiting
      <4>2. f[j] < Held
        BY <1>3, <3>1, <3>3, <4>1 DEF Near
      <4>3. f[j] + 1 < RING /\ f[j] + 1 < Held + 1
        BY <3>1, <4>2
      <4> QED BY <1>2, <1>3, <3>3, <4>1, <4>3 DEF Near
    <3> QED BY <3>2, <3>3
  <2>3. EndsAt(g, ring', Inflight)
    BY <1>1, <1>2, <2>1, <2>2, EndsAdd DEF Heard
  <2>4. g \in [1..Inflight -> Nat]
    BY <1>1
  <2>5. \A j \in 1..Inflight : Near(g[j], j)'
    <3> SUFFICES ASSUME NEW j \in 1..Inflight PROVE Near(g[j], j)'
      OBVIOUS
    <3>1. g[j] = f[j] + 1 /\ g' = g
      OBVIOUS
    <3> QED BY <2>2, <3>1 DEF Near
  <2> QED BY <1>2, <2>3, <2>4, <2>5 DEF FoundInv
<1>7. CASE pc = "get" /\ Len(ring) = RING /\ \E b \in Byte : ring' = Skipped(ring, b)
  <2> PICK k \in Nat : k = Inflight
    BY <1>2
  <2> PICK g : g = [j \in 1..k |-> f[j] + 1]
    OBVIOUS
  <2>1. PICK b \in Byte : ring' = Skipped(ring, b)
    BY <1>7
  <2>2. ASSUME NEW j \in 1..Inflight
        PROVE  f[j] \in Nat /\ f[j] + 2 < RING /\ f[j] + 1 < Held + 1
    <3>1. f[j] \in Nat /\ Near(f[j], j)
      BY <1>1
    <3>2. f[j] < Held
      BY <1>3, <1>4, <1>7, <3>1, RingBig DEF Near
    <3> QED BY <3>1, <3>2, RingBig, Constants
  <2>3. EndsAt(g, ring', Inflight)
    BY <1>1, <1>2, <1>7, <2>1, <2>2, EndsSkip
  <2>4. g \in [1..Inflight -> Nat]
    BY <1>1
  <2>5. \A j \in 1..Inflight : Near(g[j], j)'
    <3> SUFFICES ASSUME NEW j \in 1..Inflight PROVE Near(g[j], j)'
      OBVIOUS
    <3>1. g[j] = f[j] + 1 /\ g' = g
      OBVIOUS
    <3>2. slipped' = TRUE /\ pc' = "get" /\ Held' = Held
      BY <1>2, <1>3, <1>4, <1>7 DEF Held, Late, Longest
    <3> QED BY <2>2, <3>1, <3>2 DEF Near
  <2> QED BY <1>2, <2>3, <2>4, <2>5 DEF FoundInv
<1> QED BY <1>5, <1>6, <1>7 DEF PlainByte

\* The end of a sentence is the last byte of the buffer, and the next sentence
\* starts.
LEMMA EndOfSentenceFound ==
  ASSUME PInv, FoundInv, SensorFrame, EndOfSentence
  PROVE  FoundInv'
<1>1. PICK f \in [1..Inflight -> Nat] :
        EndsAt(f, ring, Inflight) /\ \A j \in 1..Inflight : Near(f[j], j)
  BY DEF FoundInv
<1>2. /\ pc' = pc /\ pc # "get" /\ Inflight = msgs /\ Inflight' = msgs'
      /\ msgs \in Nat /\ msgs <= QUEUE /\ QUEUE \in Nat /\ QUEUE > 0
      /\ msgs' = (IF msgs < QUEUE THEN msgs + 1 ELSE msgs)
      /\ sensor.said \in Nat /\ sensor.said <= BANNER
      /\ sensor.left = 0 /\ sensor'.said = Begun(sensor.said)
      /\ sensor'.left = Length(sensor'.said)
      /\ ring \in Seq(Byte) /\ Len(ring) <= RING
  BY Constants DEF PInv, Types, Counts, Buffers, Sensed, SensorFrame, EndOfSentence,
     Inflight, Begun
<1>3. msgs' \in Nat /\ msgs' <= msgs + 1 /\ msgs' <= QUEUE
  BY <1>2
<1>4. PICK b \in Byte : b.cr = TRUE /\ Heard(b)
  BY DEF EndOfSentence
<1>5. pc = "send" \/ (pc = "receive" /\ msgs = 0)
  BY DEF SensorFrame, EndOfSentence, Waiting
<1> PICK m \in Nat : m = msgs'
  BY <1>3
<1> PICK h : h = Pushed(f, m)
  OBVIOUS
<1>6. ASSUME NEW j \in 1..msgs
      PROVE  /\ f[j] \in Nat /\ j * (MLEN + 1) \in Nat
             /\ LateBytes(sensor.said) \in Nat
             /\ pc = "send" /\ f[j] < j * (MLEN + 1) + LateBytes(sensor.said)
             /\ f[j] + 1 < RING
  <2>1. /\ f[j] \in Nat /\ Near(f[j], j) /\ j \in 1..QUEUE
        /\ j * (MLEN + 1) \in Nat /\ LateBytes(sensor.said) \in Nat
        /\ j * (MLEN + 1) + LateBytes(sensor.said) <= Held
        /\ Held \in Nat /\ Held < RING /\ RING \in Nat
    <3>1. f[j] \in Nat /\ Near(f[j], j) /\ j \in 1..QUEUE
      BY <1>1, <1>2
    <3> QED BY <1>2, <3>1, NearHeld, Constants
  <2>2. pc = "send"
    BY <1>2, <1>5
  <2>3. f[j] < j * (MLEN + 1) + LateBytes(sensor.said)
    BY <1>2, <2>1, <2>2 DEF Near
  <2> DEFINE x == j * (MLEN + 1) + LateBytes(sensor.said)
  <2>4. f[j] < x /\ x \in Nat /\ x <= Held
    BY <2>1, <2>3
  <2> HIDE DEF x
  <2>5. f[j] + 1 < RING
    BY <2>1, <2>4
  <2> QED BY <2>1, <2>2, <2>3, <2>5
<1>7. EndsAt(h, ring', msgs')
  BY <1>1, <1>2, <1>3, <1>4, <1>6, EndsAddCR DEF Heard
<1>8. ASSUME NEW j \in 1..msgs' PROVE Near(h[j], j)'
  <2> DEFINE s == sensor.said
             n == Begun(sensor.said)
  <2>1. j \in 1..QUEUE /\ (j # 1 => j - 1 \in 1..msgs)
    BY <1>2, <1>3
  <2>2. CASE pc # "send"
    <3>1. j = 1 /\ h[j] = 0
      BY <1>2, <1>3, <1>5, <2>2 DEF Pushed
    <3>2. Held \in Nat /\ Held > 0
      BY <1>2, <2>1, NearHeld
    <3> QED BY <1>2, <2>2, <3>1, <3>2 DEF Near
  <2>3. CASE pc = "send"
    <3>1. s = BANNER \/ (TOTAL <= s + QUEUE /\ (msgs > 0 => TOTAL < s + QUEUE))
      BY <2>3 DEF PInv, SaidInv
    <3>2. /\ n \in Nat /\ n <= BANNER /\ LateBytes(n) \in Nat /\ Length(n) \in Nat
          /\ LateBytes(s) \in Nat
      <4>1. n \in Nat /\ n <= BANNER
        BY <1>2, Constants DEF Begun
      <4> HIDE DEF n
      <4> QED BY <1>2, <4>1, LateFacts, LengthFacts
    <3>3. /\ Length(n) <= MLEN + LateBytes(n)
          /\ msgs > 0 => LateBytes(s) + Length(n) <= MLEN + LateBytes(n)
      BY <1>2, <3>1, LateFacts
    <3>4. h[j] + Length(n) < j * (MLEN + 1) + LateBytes(n)
      <4> HIDE DEF n, s
      <4>1. CASE j = 1
        <5>1. h[j] = 0 /\ j * (MLEN + 1) = MLEN + 1 /\ MLEN \in Nat
          BY <4>1, Constants DEF Pushed
        <5> QED BY <3>2, <3>3, <5>1
      <4>2. CASE j # 1
        <5> DEFINE y == (j - 1) * (MLEN + 1)
        <5>1. j - 1 \in 1..msgs /\ h[j] = f[j - 1] + 1 /\ msgs > 0
          BY <2>1, <4>2, <1>2 DEF Pushed
        <5>2. f[j - 1] \in Nat /\ y \in Nat /\ f[j - 1] < y + LateBytes(s)
          BY <1>6, <5>1 DEF s
        <5>3. j * (MLEN + 1) = y + MLEN + 1
          <6>1. j - 1 \in 1..QUEUE /\ j = (j - 1) + 1
            BY <1>2, <5>1
          <6>2. (j - 1 + 1) * (MLEN + 1) = y + MLEN + 1
            BY <6>1, <1>2, NearHeld
          <6> QED BY <6>1, <6>2
        <5> HIDE DEF y
        <5>4. MLEN \in Nat
          BY Constants
        <5> QED BY <3>2, <3>3, <5>1, <5>2, <5>3, <5>4
      <4> QED BY <4>1, <4>2
    <3> QED BY <1>2, <2>3, <3>4 DEF Near
  <2> QED BY <2>2, <2>3
<1>9. h \in [1..msgs' -> Nat]
  BY <1>7 DEF EndsAt
<1> QED BY <1>2, <1>7, <1>8, <1>9 DEF FoundInv

\* No message waits at first.
LEMMA InitFound == Init => FoundInv
<1> SUFFICES ASSUME Init PROVE FoundInv
  OBVIOUS
<1>1. Inflight = 0
  BY DEF Init, Inflight
<1>2. \A f \in [1..0 -> Nat] : EndsAt(f, ring, 0) /\ \A j \in 1..0 : Near(f[j], j)
  BY DEF EndsAt
<1>3. [j \in 1..0 |-> 0] \in [1..0 -> Nat]
  OBVIOUS
<1> QED BY <1>1, <1>2, <1>3 DEF FoundInv

\* A step that leaves the buffer and the sensor alone.
LEMMA SameFound ==
  ASSUME FoundInv, ring' = ring, Inflight' = Inflight, slipped' = slipped,
         pc # "send", pc' # "send"
  PROVE  FoundInv'
<1>1. PICK f \in [1..Inflight -> Nat] :
        EndsAt(f, ring, Inflight) /\ \A j \in 1..Inflight : Near(f[j], j)
  BY DEF FoundInv
<1>2. \A j \in 1..Inflight : Near(f[j], j)'
  BY <1>1 DEF Near
<1> QED BY <1>1, <1>2 DEF FoundInv

\* What is in the buffer grows old.
LEMMA PowerUpFound ==
  ASSUME PInv, FoundInv, PowerUp
  PROVE  FoundInv'
<1>1. PICK f \in [1..Inflight -> Nat] :
        EndsAt(f, ring, Inflight) /\ \A j \in 1..Inflight : Near(f[j], j)
  BY DEF FoundInv
<1>2. /\ Inflight' = Inflight /\ Inflight \in Nat /\ ring \in Seq(Byte)
      /\ pc = "off" /\ pc' = "receive" /\ slipped' = FALSE
      /\ ring' = [i \in DOMAIN ring |-> [ring[i] EXCEPT !.fresh = FALSE]]
  BY DEF PInv, Types, Buffers, Counts, PowerUp, Inflight
<1>3. Len(ring') = Len(ring) /\ \A i \in 1..Len(ring) : ring'[i].cr = ring[i].cr
  BY <1>2 DEF Byte
<1>4. slipped = FALSE
  BY <1>2 DEF PInv, Types, Places, StillInv, Reading
<1>5. \A j \in 1..Inflight : Near(f[j], j)'
  BY <1>1, <1>2, <1>4 DEF Near
<1>6. EndsAt(f, ring', Inflight)
  <2>1. ASSUME NEW j \in 1..Inflight
        PROVE  f[j] < Len(ring') /\ CR(ring', Len(ring') - f[j])
    <3>1. f[j] \in Nat /\ f[j] < Len(ring) /\ CR(ring, Len(ring) - f[j])
          /\ Len(ring) \in Nat
      BY <1>1, <1>2 DEF EndsAt
    <3>2. Len(ring) - f[j] \in 1..Len(ring)
      BY <3>1
    <3> QED BY <1>3, <3>1, <3>2 DEF CR
  <2> QED BY <1>1, <2>1 DEF EndsAt
<1> QED BY <1>1, <1>2, <1>5, <1>6 DEF FoundInv

\* The report is over: what waits stays within Held bytes.
LEMMA ReportFound ==
  ASSUME PInv, FoundInv, Report
  PROVE  FoundInv'
<1>1. PICK f \in [1..Inflight -> Nat] :
        EndsAt(f, ring, Inflight) /\ \A j \in 1..Inflight : Near(f[j], j)
  BY DEF FoundInv
<1>2. /\ Inflight' = Inflight /\ Inflight \in Nat /\ Inflight <= QUEUE
      /\ QUEUE \in Nat /\ ring' = ring /\ pc = "send" /\ pc' = "off"
      /\ slipped' = FALSE
      /\ sensor.said \in Nat /\ sensor.said <= BANNER /\ sensor.left \in Nat
  BY Constants DEF PInv, Types, Counts, Sensed, PeriodInv, Report, Inflight
<1>3. ASSUME NEW j \in 1..Inflight PROVE Near(f[j], j)'
  <2>1. j \in 1..QUEUE /\ f[j] \in Nat
    BY <1>1, <1>2
  <2> DEFINE x == j * (MLEN + 1) + LateBytes(sensor.said)
  <2>2. x \in Nat /\ x <= Held /\ Held \in Nat
    <3>1. /\ j * (MLEN + 1) \in Nat /\ LateBytes(sensor.said) \in Nat
          /\ j * (MLEN + 1) + LateBytes(sensor.said) <= Held /\ Held \in Nat
      BY <1>2, <2>1, NearHeld
    <3> QED BY <3>1
  <2>3. f[j] + sensor.left < x
    BY <1>1, <1>2 DEF Near
  <2> HIDE DEF x
  <2>4. f[j] < Held
    BY <1>2, <2>1, <2>2, <2>3
  <2>5. f[j] < Held + (IF slipped' THEN 1 ELSE 0)
    BY <1>2, <2>1, <2>2, <2>4
  <2>6. Held' = Held
    BY DEF Held, Late, Longest
  <2> QED BY <1>2, <2>5, <2>6 DEF Near
<1> QED BY <1>1, <1>2, <1>3 DEF FoundInv

\* The sentence of a message is read, and its carriage return goes with it.
LEMMA GetOneFound ==
  ASSUME PInv, FoundInv, GetOne
  PROVE  FoundInv'
<1>1. PICK f \in [1..Inflight -> Nat] :
        EndsAt(f, ring, Inflight) /\ \A j \in 1..Inflight : Near(f[j], j)
  BY DEF FoundInv
<1>2. pc = "get" /\ ring \in Seq(Byte) /\ msgs \in Nat /\ Inflight = msgs + 1
  BY DEF PInv, Types, Buffers, Counts, GetOne, Inflight
<1>3. ring # << >> /\ Taken = ring[1] /\ ring' = Tail(ring) /\ msgs' = msgs
  BY <1>2, NotEmpty, TailFacts DEF GetOne, Taken
<1>4. CASE Taken.cr = FALSE /\ decompte' = decompte /\ pc' = "get"
  <2>1. Inflight' = Inflight /\ slipped' = slipped
    BY <1>2, <1>3, <1>4 DEF Inflight, GetOne
  <2>2. EndsAt(f, Tail(ring), Inflight)
    <3>1. ~CR(ring, 1) /\ Inflight \in Nat
      BY <1>2, <1>3, <1>4 DEF CR
    <3> QED BY <1>1, <1>2, <1>3, <3>1, EndsTail
  <2>3. \A j \in 1..Inflight : Near(f[j], j)'
    BY <1>1, <1>2, <1>4, <2>1 DEF Near
  <2> QED BY <1>1, <1>3, <2>1, <2>2, <2>3 DEF FoundInv
<1>5. CASE decompte' = decompte + 1
           /\ pc' = (IF decompte + 1 < TOTAL THEN "receive" ELSE "send")
  <2> PICK m \in Nat : m = msgs
    BY <1>2
  <2> PICK g : g = [j \in 1..m |-> f[j]]
    OBVIOUS
  <2>1. EndsAt(g, Tail(ring), m)
    BY <1>1, <1>2, <1>3, EndsTailCR
  <2>2. Inflight' = m
    BY <1>2, <1>3, <1>5 DEF Inflight
  <2>3. ASSUME NEW j \in 1..m PROVE Near(g[j], j)'
    <3>1. g[j] = f[j] /\ Near(f[j], j) /\ m > 0
      BY <1>1, <1>2
    <3>2. pc' = "receive"
      BY <1>2, <1>5, <3>1, Constants DEF PInv, Types, Counts, PeriodInv, Reading
    <3>3. slipped' = slipped
      BY <3>2 DEF GetOne
    <3> QED BY <1>2, <3>1, <3>2, <3>3 DEF Near
  <2> QED BY <1>3, <2>1, <2>2, <2>3 DEF FoundInv, EndsAt
<1> QED BY <1>4, <1>5, GetOneStep DEF PInv

\* Together.
LEMMA NextFound ==
  PInv /\ FoundInv /\ ~torn' /\ [Next]_vars => FoundInv'
<1> SUFFICES ASSUME PInv, FoundInv, ~torn', [Next]_vars PROVE FoundInv'
  OBVIOUS
<1>1. CASE UNCHANGED vars
  BY <1>1 DEF vars, FoundInv, EndsAt, Near, Inflight
<1>2. CASE SensorWrites
  BY <1>2, SensorStep, PlainByteFound, EndOfSentenceFound
<1>3. CASE Main \/ Lock \/ Receive
  <2>1. \/ ring' = ring /\ slipped' = slipped /\ pc # "send" /\ pc' # "send"
        \/ UNCHANGED <<ring, msgs, slipped, sensor, pc>>
    BY <1>3 DEF Main, Setup, Joined, JoinFailed, Lock, Receive, PInv, StillInv
  <2>2. Inflight' = Inflight
    BY <1>3 DEF Main, Setup, Joined, JoinFailed, Lock, Receive, Inflight, PInv, Types,
       Counts, StillInv
  <2> QED BY <2>1, <2>2, SameFound DEF FoundInv, EndsAt, Near
<1> QED BY <1>1, <1>2, <1>3, PowerUpFound, GetOneFound, ReportFound
        DEF Next, Main, Printer, Idle

\* What holds of a buffer that is not torn.
LEMMA NextUntorn ==
  (torn \/ (PInv /\ FoundInv)) /\ [Next]_vars => (torn \/ (PInv /\ FoundInv))'
BY NextPInv, NextFound, TornStays

\* For each message taken there is a carriage return in the buffer, unless an
\* interrupt tore the buffer: the printer never reads on in an empty one.
THEOREM SnowMessageHasSentence == Spec => []MessageHasSentence
<1> DEFINE I == torn \/ (PInv /\ FoundInv)
<1>1. Init => I
  BY InitPInv, InitFound
<1>2. I /\ [Next]_vars => I'
  BY NextUntorn
<1>3. I => MessageHasSentence
  <2> SUFFICES ASSUME PInv, FoundInv, pc = "get" PROVE \E i \in DOMAIN ring : ring[i].cr
    BY DEF MessageHasSentence
  <2>1. PICK i \in 1..Len(ring) : CR(ring, i)
    BY NotEmpty
  <2>2. DOMAIN ring = 1..Len(ring)
    BY DEF PInv, Types, Buffers
  <2> QED BY <2>1, <2>2 DEF CR
<1> QED BY <1>1, <1>2, <1>3, PTL DEF Spec

-----------------------------------------------------------------------------
(* What is kept fits val.                                                  *)

\* The bytes between two carriage returns: a sentence, after the beginning of
\* one that the sensor was powered down in; the first may begin with one more.
Joint == BLEN + Longest
Gap == Joint + 1

Plain(s, i, t) == \A n \in 1..t : ~CR(s, i + n)

LastFits(t) ==
  IF sensor.on THEN t + sensor.left <= (IF sensor.said > 0 THEN Longest ELSE Joint)
               ELSE t <= Longest

Most(i) == IF i = 0 THEN Gap ELSE Joint

GapInv ==
  /\ \A i, t \in Nat : i + t <= Len(ring) /\ Plain(ring, i, t) => t <= Most(i)
  /\ \A i, t \in Nat : i + t = Len(ring) /\ Plain(ring, i, t) => LastFits(t)

\* What is kept once d carriage returns are read.
Room(d) == (d - DISCARD - 1) * Gap

\* While a sentence is read: with the rest of it that is in the buffer.
KeptFits ==
  /\ slipped \/ Len(ring) < RING
  /\ \A t \in Nat : t <= Len(ring) /\ Plain(ring, 0, t)
                      => index + t <= Room(decompte + 1)

KeptInv ==
  /\ decompte <= DISCARD => index = 0
  /\ decompte > DISCARD => index <= Room(decompte) \/ (pc = "get" /\ KeptFits)

\* A gap of the buffer after a byte arrived was there before, or ends with it.
LEMMA PlainAdd ==
  ASSUME NEW r \in Seq(Byte), Len(r) <= RING, NEW b \in Byte,
         NEW i \in Nat, NEW t \in Nat, i + t <= Len(AddOne(r, b)),
         Plain(AddOne(r, b), i, t)
  PROVE  \/ t = 0
         \/ /\ i + t < Len(AddOne(r, b))
            /\ i + Dropped(r) \in Nat /\ i + Dropped(r) + t <= Len(r)
            /\ Plain(r, i + Dropped(r), t)
         \/ /\ i + t = Len(AddOne(r, b)) /\ b.cr = FALSE /\ t > 0
            /\ i + Dropped(r) \in Nat /\ t - 1 \in Nat
            /\ i + Dropped(r) + (t - 1) = Len(r)
            /\ Plain(r, i + Dropped(r), t - 1)
<1> DEFINE s == AddOne(r, b)
<1>1. /\ Len(s) = Len(r) + 1 - Dropped(r) /\ s[Len(s)] = b
      /\ \A j \in 1..(Len(s) - 1) : s[j] = r[j + Dropped(r)]
  BY AddOneFacts
<1>2. Len(r) \in Nat /\ Dropped(r) \in {0, 1}
  BY DEF Dropped
<1>3. i + t <= Len(s) /\ Plain(s, i, t)
  OBVIOUS
<1> HIDE DEF s
<1>4. Len(s) \in Int
  BY <1>1, <1>2
<1>5. \A n \in 1..t : i + n < Len(s) => ~CR(r, i + Dropped(r) + n)
  <2> SUFFICES ASSUME NEW n \in 1..t, i + n < Len(s)
               PROVE  ~CR(r, i + Dropped(r) + n)
    OBVIOUS
  <2>1. ~CR(s, i + n)
    BY <1>3, Zenon DEF Plain
  <2>2. i + n \in 1..(Len(s) - 1) /\ (i + n) + Dropped(r) = i + Dropped(r) + n
    BY <1>2, <1>4
  <2> QED BY <1>1, <2>1, <2>2 DEF CR
<1>6. CASE i + t < Len(s)
  <2>1. Plain(r, i + Dropped(r), t)
    BY <1>4, <1>5, <1>6 DEF Plain
  <2>2. i + Dropped(r) \in Nat /\ i + Dropped(r) + t <= Len(r)
    BY <1>1, <1>2, <1>6
  <2> QED BY <1>6, <2>1, <2>2 DEF s
<1>7. CASE i + t = Len(s) /\ t > 0
  <2>1. Plain(r, i + Dropped(r), t - 1)
    BY <1>4, <1>5, <1>7 DEF Plain
  <2>2. i + Dropped(r) \in Nat /\ i + Dropped(r) + (t - 1) = Len(r) /\ t - 1 \in Nat
    BY <1>1, <1>2, <1>7
  <2>3. ~CR(s, i + t)
    BY <1>3, <1>7 DEF Plain
  <2>4. b.cr = FALSE
    BY <1>1, <1>7, <2>3 DEF CR, Byte
  <2> QED BY <1>7, <2>1, <2>2, <2>4 DEF s
<1>8. t = 0 \/ i + t < Len(s) \/ (i + t = Len(s) /\ t > 0)
  BY <1>3, <1>4
<1> QED BY <1>6, <1>7, <1>8

\* A gap of what is left of the buffer was there before.
LEMMA PlainTail ==
  ASSUME NEW r \in Seq(Byte), r # << >>, NEW i \in Nat, NEW t \in Nat,
         i + t <= Len(Tail(r)), Plain(Tail(r), i, t)
  PROVE  /\ (i + 1) + t <= Len(r) /\ Plain(r, i + 1, t)
         /\ i = 0 /\ ~CR(r, 1) => t + 1 <= Len(r) /\ Plain(r, 0, t + 1)
<1>1. /\ Len(Tail(r)) = Len(r) - 1 /\ Len(r) \in Nat
      /\ \A j \in 1..(Len(r) - 1) : Tail(r)[j] = r[j + 1]
  BY TailFacts
<1>2. ASSUME NEW n \in 1..t PROVE ~CR(r, i + 1 + n)
  <2>1. ~CR(Tail(r), i + n)
    BY Zenon DEF Plain
  <2>2. i + n \in 1..(Len(r) - 1) /\ (i + n) + 1 = i + 1 + n
    BY <1>1
  <2> QED BY <1>1, <2>1, <2>2 DEF CR
<1>3. ASSUME i = 0, ~CR(r, 1), NEW n \in 1..(t + 1) PROVE ~CR(r, 0 + n)
  <2>1. CASE n = 1
    BY <1>3, <2>1
  <2>2. CASE n # 1
    <3>1. n - 1 \in 1..t /\ i + 1 + (n - 1) = 0 + n
      BY <1>3, <2>2
    <3> QED BY <1>2, <3>1
  <2> QED BY <2>1, <2>2
<1> QED BY <1>1, <1>2, <1>3 DEF Plain

\* A gap may be as long as a sentence of either kind.
LEMMA GapFacts ==
  /\ Gap \in Nat /\ Gap > 0 /\ Joint \in Nat /\ Longest <= Joint /\ Gap = Joint + 1
  /\ BLEN + Longest = Joint
  /\ \A i : Most(i) \in Nat /\ Joint <= Most(i) /\ Most(i) <= Gap
  /\ \A i, d \in Nat : Most(i + d) <= Most(i)
  BY Constants DEF Gap, Joint, Most

\* Each sentence has room for a gap, and all of them fit val.
LEMMA RoomFacts ==
  ASSUME NEW d \in Nat, d > DISCARD
  PROVE  /\ Room(d) \in Nat /\ Room(d + 1) = Room(d) + Gap /\ Room(d + 1) \in Nat
         /\ d <= TOTAL => Room(d) <= VAL
<1>1. d - DISCARD - 1 \in Nat /\ (d + 1) - DISCARD - 1 = (d - DISCARD - 1) + 1
  BY Constants
<1>2. Room(d) \in Nat /\ Room(d + 1) = Room(d) + Gap
  BY <1>1, GapFacts, Products DEF Room
<1>3. ASSUME d <= TOTAL PROVE Room(d) <= VAL
  <2>1. TOTAL - DISCARD - 1 \in Nat /\ d - DISCARD - 1 <= TOTAL - DISCARD - 1
    BY <1>3, Constants
  <2> DEFINE x == d - DISCARD - 1
             y == TOTAL - DISCARD - 1
  <2>2. y * Gap <= VAL
    BY ValAssumption DEF Gap, Joint
  <2>3. x * Gap <= y * Gap /\ x * Gap \in Nat /\ y * Gap \in Nat
    <3>1. x \in Nat /\ y \in Nat /\ x <= y
      BY <1>1, <2>1
    <3> HIDE DEF x, y
    <3> QED BY <3>1, GapFacts, Products
  <2>4. Room(d) = x * Gap
    BY DEF Room
  <2> HIDE DEF x, y
  <2> QED BY <2>2, <2>3, <2>4, Constants
<1> QED BY <1>2, <1>3, GapFacts

\* A gap of a buffer whose second byte was dropped was there before, or ends with
\* the byte that came, or begins with the oldest byte.
LEMMA PlainSkip ==
  ASSUME NEW r \in Seq(Byte), Len(r) = RING, NEW s, Len(s) = RING, RING > 1,
         \A i \in 2..(RING - 1) : s[i] = r[i + 1],
         NEW p \in 2..(RING - 1), CR(s, p),
         NEW i \in Nat, NEW t \in Nat, i + t <= Len(s), Plain(s, i, t)
  PROVE  /\ i > 0 /\ i + t < RING => i + 1 + t <= Len(r) /\ Plain(r, i + 1, t)
         /\ i > 0 /\ t > 0 /\ i + t = RING
              => (i + 1) + (t - 1) = Len(r) /\ Plain(r, i + 1, t - 1)
         /\ i = 0 /\ t > 0 => /\ t < RING /\ 1 + 1 + (t - 1) <= Len(r)
                               /\ Plain(r, 1 + 1, t - 1)
<1>1. RING \in Nat
  BY Constants
<1>2. ASSUME NEW n \in 1..t, i + n > 1, i + n < RING PROVE ~CR(r, i + n + 1)
  <2>1. ~CR(s, i + n)
    BY Zenon DEF Plain
  <2>2. i + n \in 2..(RING - 1)
    BY <1>1, <1>2
  <2>3. s[i + n] = r[i + n + 1]
    BY <2>2
  <2> QED BY <2>1, <2>3 DEF CR
<1>3. CASE i > 0 /\ i + t < RING
  <2>1. ASSUME NEW n \in 1..t PROVE ~CR(r, (i + 1) + n)
    <3>1. i + n > 1 /\ i + n < RING /\ i + n + 1 = (i + 1) + n
      BY <1>1, <1>3
    <3> QED BY <1>2, <3>1
  <2> QED BY <1>1, <1>3, <2>1 DEF Plain
<1>4. CASE i > 0 /\ t > 0 /\ i + t = RING
  <2>1. ASSUME NEW n \in 1..(t - 1) PROVE ~CR(r, (i + 1) + n)
    <3>1. n \in 1..t /\ i + n > 1 /\ i + n < RING /\ i + n + 1 = (i + 1) + n
      BY <1>1, <1>4
    <3> QED BY <1>2, <3>1
  <2> QED BY <1>1, <1>4, <2>1 DEF Plain
<1>5. CASE i = 0 /\ t > 0
  <2>1. t < p
    <3> SUFFICES ASSUME ~(t < p) PROVE FALSE
      OBVIOUS
    <3>1. p \in 1..t /\ i + p = p
      BY <1>1, <1>5
    <3> QED BY <3>1 DEF Plain
  <2>2. ASSUME NEW n \in 1..(t - 1) PROVE ~CR(r, (1 + 1) + n)
    <3>1. n + 1 \in 1..t /\ i + (n + 1) > 1 /\ i + (n + 1) < RING
          /\ i + (n + 1) + 1 = (1 + 1) + n
      BY <1>1, <1>5, <2>1
    <3> QED BY <1>2, <3>1
  <2> QED BY <1>1, <1>5, <2>1, <2>2 DEF Plain
<1> QED BY <1>1, <1>3, <1>4, <1>5

\* It holds a carriage return, for the message of which it is read.
LEMMA SkippedHas ==
  ASSUME PInv, FoundInv, pc = "get", ~slipped, Len(ring) = RING,
         NEW b \in Byte, ring' = Skipped(ring, b)
  PROVE  \E p \in 2..(RING - 1) : CR(ring', p)
<1>1. PICK f \in [1..Inflight -> Nat] :
        EndsAt(f, ring, Inflight) /\ \A j \in 1..Inflight : Near(f[j], j)
  BY DEF FoundInv
<1>2. 1 \in 1..Inflight /\ ring \in Seq(Byte) /\ RING \in Nat
  BY Constants DEF PInv, Types, Counts, Buffers, Inflight
<1>3. /\ f[1] \in Nat /\ CR(ring, RING - f[1]) /\ f[1] < Held
      /\ Held \in Nat /\ Held + 1 < RING
  <2>1. Near(f[1], 1) /\ f[1] \in Nat /\ CR(ring, Len(ring) - f[1])
    BY <1>1, <1>2 DEF EndsAt
  <2>2. f[1] < Held
    BY <2>1, RingBig DEF Near
  <2> QED BY <2>1, <2>2, RingBig
<1> PICK p \in Int : p = RING - f[1] - 1
  BY <1>2, <1>3
<1>4. p \in 2..(RING - 1) /\ p + 1 = RING - f[1]
  BY <1>2, <1>3
<1>5. ring'[p] = ring[p + 1]
  BY <1>2, <1>4, SkippedFacts, RingBig
<1> QED BY <1>3, <1>4, <1>5 DEF CR

\* A byte that arrives makes the last gap longer, and the sentence of the sensor shorter.
LEMMA SensorGap ==
  ASSUME PInv, FoundInv, GapInv, ~torn', SensorWrites
  PROVE  GapInv'
<1>1. SensorFrame /\ (PlainByte \/ EndOfSentence)
  BY SensorStep
<1>2. /\ ring \in Seq(Byte) /\ Len(ring) \in Nat /\ Len(ring) <= RING
      /\ sensor.on /\ sensor'.on /\ sensor.left \in Nat
      /\ sensor.said \in Nat /\ sensor'.said \in Nat
  BY <1>1 DEF PInv, Types, Buffers, Sensed, SensorFrame, PlainByte, EndOfSentence
<1> DEFINE Said(s) == IF s > 0 THEN Longest ELSE Joint
<1>3. ASSUME NEW i \in Nat, NEW t \in Nat, i + t = Len(ring), Plain(ring, i, t)
      PROVE  t + sensor.left <= Said(sensor.said) /\ t + sensor.left <= Joint
  <2>1. t + sensor.left <= Said(sensor.said)
    BY <1>2, <1>3 DEF GapInv, LastFits
  <2> QED BY <1>2, <2>1, GapFacts, Constants
<1>4. CASE pc = "get" /\ ring' = ring /\ sensor'.left = sensor.left - 1
           /\ sensor'.said = sensor.said
  <2>1. ASSUME NEW i \in Nat, NEW t \in Nat, i + t = Len(ring), Plain(ring, i, t)
        PROVE  LastFits(t)'
    <3>1. t + sensor'.left <= Said(sensor.said)
      <4>1. \A l, m \in Nat : t + l <= m => t + (l - 1) <= m
        OBVIOUS
      <4>2. Said(sensor.said) \in Nat
        BY GapFacts, Constants
      <4> QED BY <1>2, <1>3, <1>4, <2>1, <4>1, <4>2
    <3>2. Longest' = Longest /\ Joint' = Joint
      BY DEF Longest, Joint, Gap
    <3> QED BY <1>2, <1>4, <3>1, <3>2 DEF LastFits
  <2> QED BY <1>4, <2>1 DEF GapInv, Plain, CR
<1>5. CASE PlainByte /\ \E b \in Byte : b.cr = FALSE /\ Heard(b)
  <2>1. PICK b \in Byte : b.cr = FALSE /\ ring' = AddOne(ring, b)
    BY <1>5 DEF Heard
  <2>2. /\ sensor.left > 0 /\ sensor'.left = sensor.left - 1
        /\ sensor'.said = sensor.said
    BY <1>5 DEF PlainByte
  <2>3. ASSUME NEW i \in Nat, NEW t \in Nat, i + t <= Len(ring'), Plain(ring', i, t)
        PROVE  /\ t <= Most(i)
               /\ i + t = Len(ring') => t + (sensor.left - 1) <= Said(sensor.said)
    <3>1. PICK d \in {0, 1} :
            \/ t = 0
            \/ /\ i + t < Len(ring') /\ i + d \in Nat /\ i + d + t <= Len(ring)
               /\ Plain(ring, i + d, t)
            \/ /\ i + t = Len(ring') /\ t > 0 /\ i + d \in Nat /\ t - 1 \in Nat
               /\ i + d + (t - 1) = Len(ring) /\ Plain(ring, i + d, t - 1)
      <4>1. Dropped(ring) \in {0, 1}
        BY DEF Dropped
      <4> QED BY <1>2, <2>1, <2>3, <4>1, PlainAdd
    <3>2. CASE t = 0
      <4>1. Plain(ring, Len(ring), 0)
        BY <1>2 DEF Plain
      <4>2. 0 + sensor.left <= Said(sensor.said)
        BY <1>2, <1>3, <4>1
      <4>3. Said(sensor.said) \in Nat
        BY GapFacts, Constants
      <4> HIDE DEF Said
      <4> QED BY <1>2, <2>2, <3>2, <4>2, <4>3, GapFacts
    <3>3. CASE /\ i + t < Len(ring') /\ i + d \in Nat /\ i + d + t <= Len(ring)
               /\ Plain(ring, i + d, t)
      <4>1. t <= Most(i)
        <5>1. t <= Most(i + d)
          BY <3>3 DEF GapInv
        <5> QED BY <5>1, GapFacts
      <4>2. i + t # Len(ring')
        <5>1. Len(ring') \in Int
          BY <1>2, <2>1, AddOneFacts DEF Dropped
        <5> QED BY <3>3, <5>1
      <4> QED BY <4>1, <4>2
    <3>4. CASE /\ t > 0 /\ i + d \in Nat /\ t - 1 \in Nat
               /\ i + d + (t - 1) = Len(ring) /\ Plain(ring, i + d, t - 1)
      <4>1. (t - 1) + sensor.left <= Said(sensor.said)
            /\ (t - 1) + sensor.left <= Joint
        BY <1>3, <3>4
      <4>2. Said(sensor.said) \in Nat
        BY GapFacts, Constants
      <4> HIDE DEF Said
      <4>3. t <= Joint /\ t + (sensor.left - 1) <= Said(sensor.said)
        BY <1>2, <2>2, <3>4, <4>1, <4>2, GapFacts
      <4>4. Joint \in Nat /\ Most(i) \in Nat /\ Joint <= Most(i)
        BY GapFacts
      <4> QED BY <2>2, <4>3, <4>4
    <3> QED BY <3>1, <3>2, <3>3, <3>4
  <2>4. ASSUME NEW i \in Nat, NEW t \in Nat, i + t = Len(ring'), Plain(ring', i, t)
        PROVE  LastFits(t)'
    <3>1. t + (sensor.left - 1) <= Said(sensor.said)
      <4>1. i + t <= Len(ring')
        BY <2>4
      <4> QED BY <2>3, <2>4, <4>1
    <3>2. Longest' = Longest /\ Joint' = Joint
      BY DEF Longest, Joint, Gap
    <3> QED BY <1>2, <2>2, <3>1, <3>2 DEF LastFits
  <2>5. \A i, t \in Nat : i + t <= Len(ring') /\ Plain(ring', i, t) => t <= Most(i)
    BY <2>3
  <2> QED BY <2>4, <2>5 DEF GapInv, Plain, CR, Most, Joint, Gap, Longest
<1>6. CASE EndOfSentence
  <2>1. PICK b \in Byte : b.cr = TRUE /\ ring' = AddOne(ring, b)
    BY <1>6 DEF EndOfSentence, Heard
  <2>2. sensor'.left \in Nat /\ sensor'.left <= Longest /\ sensor'.said > 0
    BY <1>2, <1>6, LengthFacts, Constants DEF EndOfSentence
  <2>3. ASSUME NEW i \in Nat, NEW t \in Nat, i + t <= Len(ring'), Plain(ring', i, t)
        PROVE  t = 0 \/ (i + t < Len(ring') /\ t <= Most(i))
    <3>1. \/ t = 0
          \/ /\ i + t < Len(ring') /\ i + Dropped(ring) \in Nat
             /\ i + Dropped(ring) + t <= Len(ring) /\ Plain(ring, i + Dropped(ring), t)
      BY <1>2, <2>1, <2>3, PlainAdd
    <3>2. t = 0 \/ (i + t < Len(ring') /\ t <= Most(i + Dropped(ring)))
      BY <3>1 DEF GapInv
    <3>3. Dropped(ring) \in Nat
      BY DEF Dropped
    <3> QED BY <3>2, <3>3, GapFacts
  <2>4. ASSUME NEW i \in Nat, NEW t \in Nat, i + t = Len(ring'), Plain(ring', i, t)
        PROVE  LastFits(t)'
    <3>1. t = 0
      <4>1. i + t <= Len(ring') /\ ~(i + t < Len(ring'))
        BY <2>4
      <4> QED BY <2>3, <2>4, <4>1
    <3>2. t + sensor'.left <= Longest
      BY <2>2, <3>1
    <3>3. Longest' = Longest
      BY DEF Longest
    <3> QED BY <1>2, <2>2, <3>2, <3>3 DEF LastFits
  <2>5. \A i, t \in Nat : i + t <= Len(ring') /\ Plain(ring', i, t) => t <= Most(i)
    BY <2>3, GapFacts
  <2> QED BY <2>4, <2>5 DEF GapInv, Plain, CR, Most, Joint, Gap, Longest
<1>7. CASE /\ PlainByte /\ pc = "get" /\ ~slipped /\ Len(ring) = RING
           /\ \E b \in Byte : b.cr = FALSE /\ ring' = Skipped(ring, b)
  <2>1. PICK b \in Byte : b.cr = FALSE /\ ring' = Skipped(ring, b)
    BY <1>7
  <2>2. /\ sensor.left > 0 /\ sensor'.left = sensor.left - 1
        /\ sensor'.said = sensor.said
    BY <1>7 DEF PlainByte
  <2>3. /\ Len(ring') = RING /\ RING \in Nat /\ RING > 1
        /\ \A i \in 2..(RING - 1) : ring'[i] = ring[i + 1]
    BY <1>2, <1>7, <2>1, SkippedFacts, RingBig, Constants
  <2>4. PICK p \in 2..(RING - 1) : CR(ring', p)
    BY <1>7, SkippedHas
  <2>5. ASSUME NEW i \in Nat, NEW t \in Nat, i + t <= Len(ring'), Plain(ring', i, t)
        PROVE  /\ i > 0 /\ i + t < RING => i + 1 + t <= Len(ring) /\ Plain(ring, i + 1, t)
               /\ i > 0 /\ t > 0 /\ i + t = RING
                    => (i + 1) + (t - 1) = Len(ring) /\ Plain(ring, i + 1, t - 1)
               /\ i = 0 /\ t > 0 => /\ t < RING /\ 1 + 1 + (t - 1) <= Len(ring)
                                     /\ Plain(ring, 1 + 1, t - 1)
    BY <1>2, <1>7, <2>3, <2>4, <2>5, PlainSkip
  <2>6. ASSUME NEW i \in Nat, NEW t \in Nat, i + t <= Len(ring'), Plain(ring', i, t)
        PROVE  /\ t <= Most(i)
               /\ i + t = Len(ring') => t + (sensor.left - 1) <= Said(sensor.said)
    <3>1. Said(sensor.said) \in Nat /\ Said(sensor.said) <= Joint
      BY GapFacts, Constants
    <3> HIDE DEF Said
    <3>2. CASE t = 0
      <4>1. Plain(ring, Len(ring), 0)
        BY <1>2 DEF Plain
      <4>2. 0 + sensor.left <= Said(sensor.said)
        BY <1>2, <1>3, <4>1
      <4> QED BY <1>2, <2>2, <3>1, <3>2, <4>2, GapFacts
    <3>3. CASE i > 0 /\ i + t < RING
      <4>1. t <= Most(i + 1)
        BY <2>5, <2>6, <3>3 DEF GapInv
      <4>2. ~(i + t = Len(ring'))
        BY <2>3, <3>3
      <4> QED BY <4>1, <4>2, GapFacts
    <3>4. CASE i > 0 /\ t > 0 /\ i + t = RING
      <4>1. t - 1 \in Nat /\ i + 1 \in Nat
            /\ (i + 1) + (t - 1) = Len(ring) /\ Plain(ring, i + 1, t - 1)
        BY <2>5, <2>6, <3>4
      <4>2. (t - 1) + sensor.left <= Said(sensor.said) /\ (t - 1) + sensor.left <= Joint
        BY <1>3, <4>1
      <4>3. t <= Joint
        BY <1>2, <2>2, <4>2, GapFacts
      <4>4. t + (sensor.left - 1) <= Said(sensor.said)
        BY <1>2, <2>2, <3>1, <4>2
      <4>5. Joint \in Nat /\ Most(i) \in Nat /\ Joint <= Most(i)
        BY GapFacts
      <4> QED BY <4>3, <4>4, <4>5
    <3>5. CASE i = 0 /\ t > 0
      <4>1. t - 1 \in Nat /\ t < RING /\ 2 + (t - 1) <= Len(ring) /\ Plain(ring, 2, t - 1)
        BY <2>5, <2>6, <3>5
      <4>2. t - 1 <= Most(2) /\ Most(2) = Joint
        BY <4>1 DEF GapInv, Most
      <4>3. t <= Gap /\ Most(0) = Gap
        BY <4>2, GapFacts DEF Most
      <4>4. ~(i + t = Len(ring'))
        BY <2>3, <3>5, <4>1
      <4> QED BY <3>5, <4>3, <4>4
    <3> QED BY <2>3, <2>6, <3>2, <3>3, <3>4, <3>5
  <2>7. ASSUME NEW i \in Nat, NEW t \in Nat, i + t = Len(ring'), Plain(ring', i, t)
        PROVE  LastFits(t)'
    <3>1. t + (sensor.left - 1) <= Said(sensor.said)
      <4>1. i + t <= Len(ring')
        BY <2>7
      <4> QED BY <2>6, <2>7, <4>1
    <3>2. Longest' = Longest /\ Joint' = Joint
      BY DEF Longest, Joint, Gap
    <3> QED BY <1>2, <2>2, <3>1, <3>2 DEF LastFits
  <2>8. \A i, t \in Nat : i + t <= Len(ring') /\ Plain(ring', i, t) => t <= Most(i)
    BY <2>6
  <2> QED BY <2>7, <2>8 DEF GapInv, Plain, CR, Most, Joint, Gap, Longest
<1> QED BY <1>1, <1>4, <1>5, <1>6, <1>7 DEF PlainByte

\* The other steps: a sentence is broken off by Report, and PowerUp goes on with BLEN bytes.
LEMMA NextGap ==
  PInv /\ FoundInv /\ GapInv /\ ~torn' /\ [Next]_vars => GapInv'
<1> SUFFICES ASSUME PInv, FoundInv, GapInv, ~torn', [Next]_vars PROVE GapInv'
  OBVIOUS
<1>1. /\ ring \in Seq(Byte) /\ Len(ring) \in Nat
      /\ sensor.on \in BOOLEAN /\ sensor.said \in Nat /\ sensor.left \in Nat
      /\ Longest' = Longest /\ Joint' = Joint
  BY DEF PInv, Types, Buffers, Sensed, Longest, Gap
<1>2. ASSUME UNCHANGED <<ring, sensor>> PROVE GapInv'
  BY <1>1, <1>2 DEF GapInv, LastFits, Plain, CR
<1>3. CASE PowerUp
  <2>1. /\ sensor.on = FALSE
        /\ sensor' = [on |-> TRUE, said |-> 0, left |-> Length(0)]
        /\ ring' = [i \in DOMAIN ring |-> [ring[i] EXCEPT !.fresh = FALSE]]
    BY <1>1, <1>3 DEF PowerUp, PInv, StillInv, Reading
  <2>2. Len(ring') = Len(ring) /\ \A i \in 1..Len(ring) : ring'[i].cr = ring[i].cr
    BY <1>1, <2>1 DEF Byte
  <2>3. ASSUME NEW i \in Nat, NEW t \in Nat, i + t <= Len(ring'), Plain(ring', i, t)
        PROVE  Plain(ring, i, t)
    <3> SUFFICES ASSUME NEW n \in 1..t PROVE ~CR(ring, i + n)
      BY DEF Plain
    <3>1. ~CR(ring', i + n)
      BY <2>3, Zenon DEF Plain
    <3>2. i + n \in 1..Len(ring)
      BY <1>1, <2>2, <2>3
    <3> QED BY <2>2, <3>1, <3>2 DEF CR
  <2>4. ASSUME NEW i \in Nat, NEW t \in Nat, i + t = Len(ring'), Plain(ring', i, t)
        PROVE  LastFits(t)'
    <3>1. Plain(ring, i, t) /\ i + t = Len(ring)
      <4>1. i + t <= Len(ring')
        BY <2>4
      <4> QED BY <2>2, <2>3, <2>4, <4>1
    <3>2. t <= Longest
      BY <2>1, <3>1 DEF GapInv, LastFits
    <3>3. Length(0) = BLEN
      BY Constants DEF Length
    <3>4. t + BLEN <= Joint
      BY <3>2, GapFacts, Constants
    <3> QED BY <1>1, <2>1, <3>3, <3>4 DEF LastFits
  <2>5. ASSUME NEW i \in Nat, NEW t \in Nat, i + t <= Len(ring'), Plain(ring', i, t)
        PROVE  t <= Most(i)
    BY <2>2, <2>3, <2>5 DEF GapInv
  <2> QED BY <2>4, <2>5, <1>1 DEF GapInv, Plain, CR
<1>4. CASE Report
  <2>1. /\ pc = "send" /\ ring' = ring
        /\ sensor' = [on |-> FALSE, said |-> 0, left |-> 0]
    BY <1>4 DEF Report
  <2>2. sensor.said > 0
    BY <2>1, Constants DEF PInv, SaidInv, Types, Counts, Sensed
  <2>3. ASSUME NEW i \in Nat, NEW t \in Nat, i + t = Len(ring'), Plain(ring', i, t)
        PROVE  LastFits(t)'
    <3>1. LastFits(t)
      BY <2>1, <2>3 DEF GapInv, Plain, CR
    <3>2. t <= Longest
      BY <1>1, <2>2, <3>1, Constants DEF LastFits
    <3> QED BY <1>1, <2>1, <3>2 DEF LastFits
  <2>4. ASSUME NEW i \in Nat, NEW t \in Nat, i + t <= Len(ring'), Plain(ring', i, t)
        PROVE  t <= Most(i)
    BY <2>1, <2>4 DEF GapInv
  <2> QED BY <2>3, <2>4, <1>1 DEF GapInv, Plain, CR
<1>5. CASE GetOne
  <2>1. sensor' = sensor /\ (ring' = ring \/ (ring # << >> /\ ring' = Tail(ring)))
    BY <1>5 DEF GetOne
  <2>2. CASE ring # << >> /\ ring' = Tail(ring)
    <3>1. Len(ring') = Len(ring) - 1
      BY <1>1, <2>2, TailFacts
    <3>2. ASSUME NEW i \in Nat, NEW t \in Nat, i + t <= Len(ring'), Plain(ring', i, t)
          PROVE  i + 1 \in Nat /\ (i + 1) + t <= Len(ring) /\ Plain(ring, i + 1, t)
      BY <1>1, <2>2, <3>2, PlainTail
    <3>3. ASSUME NEW i \in Nat, NEW t \in Nat, i + t = Len(ring'), Plain(ring', i, t)
          PROVE  LastFits(t)'
      <4>1. i + t <= Len(ring') /\ (i + 1) + t = Len(ring)
        BY <1>1, <3>1, <3>3
      <4>2. LastFits(t)
        BY <3>2, <3>3, <4>1 DEF GapInv
      <4> QED BY <1>1, <2>1, <4>2 DEF LastFits
    <3>4. ASSUME NEW i \in Nat, NEW t \in Nat, i + t <= Len(ring'), Plain(ring', i, t)
          PROVE  t <= Most(i)
      <4>1. t <= Most(i + 1)
        BY <3>2, <3>4 DEF GapInv
      <4> QED BY <4>1, GapFacts
    <3> QED BY <3>3, <3>4, <1>1 DEF GapInv, Plain, CR
  <2> QED BY <1>2, <2>1, <2>2
<1>6. CASE Main \/ Lock \/ Receive \/ UNCHANGED vars
  BY <1>2, <1>6 DEF Main, Setup, Joined, JoinFailed, Lock, Receive, vars
<1> QED BY <1>3, <1>4, <1>5, <1>6, SensorGap DEF Next, Printer, Idle

\* The same of the bytes before the first carriage return.
LEMMA FirstAdd ==
  ASSUME NEW r \in Seq(Byte), Len(r) < RING, NEW b \in Byte, b.cr = FALSE,
         NEW t \in Nat, t <= Len(AddOne(r, b)), Plain(AddOne(r, b), 0, t)
  PROVE  \/ t = 0
         \/ t <= Len(r) /\ Plain(r, 0, t)
         \/ t - 1 = Len(r) /\ Plain(r, 0, t - 1)
<1>1. Len(r) \in Nat /\ Len(r) <= RING
  BY Constants
<1>2. ASSUME NEW i \in Nat, i + t <= Len(AddOne(r, b)), Plain(AddOne(r, b), i, t)
      PROVE  \/ t = 0
             \/ i + Dropped(r) + t <= Len(r) /\ Plain(r, i + Dropped(r), t)
             \/ i + Dropped(r) + (t - 1) = Len(r) /\ Plain(r, i + Dropped(r), t - 1)
  <2>1. Len(r) <= RING
    BY <1>1
  <2>2. \/ t = 0
        \/ /\ i + t < Len(AddOne(r, b))
           /\ i + Dropped(r) \in Nat /\ i + Dropped(r) + t <= Len(r)
           /\ Plain(r, i + Dropped(r), t)
        \/ /\ i + t = Len(AddOne(r, b)) /\ b.cr = FALSE /\ t > 0
           /\ i + Dropped(r) \in Nat /\ t - 1 \in Nat
           /\ i + Dropped(r) + (t - 1) = Len(r)
           /\ Plain(r, i + Dropped(r), t - 1)
    BY <2>1, <1>2, PlainAdd
  <2> QED BY <2>2
<1>3. Dropped(r) = 0 /\ t - 1 \in Int
  BY <1>1 DEF Dropped
<1>4. 0 + t <= Len(AddOne(r, b))
  <2>1. Len(AddOne(r, b)) \in Nat
    BY <1>1, <1>3, AddOneFacts
  <2> QED BY <2>1
<1>5. \/ t = 0
      \/ 0 + Dropped(r) + t <= Len(r) /\ Plain(r, 0 + Dropped(r), t)
      \/ 0 + Dropped(r) + (t - 1) = Len(r) /\ Plain(r, 0 + Dropped(r), t - 1)
  BY <1>2, <1>4, Zenon
<1>6. 0 + Dropped(r) = 0 /\ \A m \in Int : 0 + Dropped(r) + m = m
  BY <1>3
<1> QED BY <1>3, <1>5, <1>6

\* A byte that arrives while a sentence is read is not a part of it.
LEMMA SensorKept ==
  ASSUME PInv, FoundInv, KeptInv, ~torn', SensorWrites
  PROVE  KeptInv'
<1>1. SensorFrame /\ (PlainByte \/ EndOfSentence)
  BY SensorStep
<1>2. /\ pc' = pc /\ decompte' = decompte /\ val' = val
      /\ ring \in Seq(Byte) /\ Len(ring) \in Nat /\ Len(ring) <= RING
  BY <1>1 DEF PInv, Types, Buffers, SensorFrame
<1>3. ASSUME pc = "get", KeptFits PROVE KeptFits'
  <2>1. slipped' = TRUE /\ Len(ring) < RING
    <3>1. ~Waiting
      BY <1>3 DEF Waiting
    <3> QED BY <1>1, <1>3, <3>1 DEF SensorFrame, KeptFits
  <2>2. CASE ring' = ring
    BY <1>2, <1>3, <2>1, <2>2 DEF KeptFits, Plain, CR, index
  <2>3. CASE \E b \in Byte : b.cr = FALSE /\ Heard(b)
    <3>1. PICK b \in Byte : b.cr = FALSE /\ ring' = AddOne(ring, b)
      BY <2>3 DEF Heard
    <3>2. Dropped(ring) = 0 /\ Len(ring') = Len(ring) + 1
      BY <1>2, <2>1, <3>1, AddOneFacts, Constants DEF Dropped
    <3>3. ASSUME NEW t \in Nat, t <= Len(ring'), Plain(ring', 0, t)
          PROVE  index + t <= Room(decompte + 1)
      <4>1. \/ t = 0
            \/ t <= Len(ring) /\ Plain(ring, 0, t)
            \/ t - 1 = Len(ring) /\ Plain(ring, 0, t - 1)
        BY <1>2, <2>1, <3>1, <3>3, FirstAdd
      <4>2. CASE t = 0
        BY <1>2, <1>3, <4>2 DEF KeptFits, Plain
      <4>3. CASE t <= Len(ring) /\ Plain(ring, 0, t)
        BY <1>3, <4>3 DEF KeptFits
      <4>4. CASE t - 1 = Len(ring) /\ Plain(ring, 0, t - 1)
        <5>1. PICK i \in 1..Len(ring) : CR(ring, i)
          BY <1>3, NotEmpty
        <5>2. 0 + i = i
          OBVIOUS
        <5> QED BY <4>4, <5>1, <5>2 DEF Plain
      <4> QED BY <4>1, <4>2, <4>3, <4>4
    <3> QED BY <1>2, <2>1, <3>3 DEF KeptFits, Plain, CR, index
  <2>4. ~(~slipped /\ Len(ring) = RING)
    BY <1>3 DEF KeptFits
  <2> QED BY <1>1, <1>3, <2>2, <2>3, <2>4 DEF PlainByte, EndOfSentence
<1> QED BY <1>2, <1>3 DEF KeptInv, index

\* A byte the printer takes is kept, or it is the end of the sentence.
LEMMA GetOneKept ==
  ASSUME PInv, FoundInv, GapInv, KeptInv, GetOne
  PROVE  KeptInv'
<1>1. /\ pc = "get" /\ ring \in Seq(Byte) /\ Len(ring) \in Nat /\ Len(ring) <= RING
      /\ val \in Seq(Byte \cup {Nothing}) /\ index \in Nat /\ decompte \in Nat
  BY DEF PInv, Types, Buffers, Counts, GetOne, index
<1>2. ring # << >> /\ Taken = ring[1] /\ ring' = Tail(ring) /\ Len(ring') = Len(ring) - 1
  BY <1>1, NotEmpty, TailFacts DEF GetOne, Taken
<1>3. \/ Taken.cr = TRUE /\ decompte' = decompte + 1 /\ val' = val
      \/ /\ Taken.cr = FALSE /\ decompte' = decompte /\ pc' = "get"
         /\ val' = IF decompte > DISCARD THEN Append(val, Taken) ELSE val
  BY GetOneStep DEF PInv
<1>4. ASSUME decompte > DISCARD
      PROVE  index <= Room(decompte + 1)
             /\ Room(decompte) \in Nat /\ Room(decompte + 1) = Room(decompte) + Gap
  <2>1. Room(decompte) \in Nat /\ Room(decompte + 1) = Room(decompte) + Gap
    BY <1>1, <1>4, RoomFacts
  <2>2. CASE index <= Room(decompte)
    BY <1>1, <2>1, <2>2, GapFacts
  <2>3. CASE KeptFits
    <3>1. index + 0 <= Room(decompte + 1)
      BY <1>1, <2>3 DEF KeptFits, Plain
    <3> QED BY <1>1, <2>1, <3>1
  <2> QED BY <1>4, <2>1, <2>2, <2>3 DEF KeptInv
<1>5. CASE decompte' = decompte + 1 /\ val' = val
  <2>1. index' = index
    BY <1>5 DEF index
  <2>2. CASE decompte > DISCARD
    <3>1. index' <= Room(decompte') /\ ~(decompte' <= DISCARD)
      BY <1>1, <1>4, <1>5, <2>1, <2>2, Constants
    <3> QED BY <3>1 DEF KeptInv
  <2>3. CASE decompte <= DISCARD
    <3>1. index' = 0
      BY <2>1, <2>3 DEF KeptInv
    <3>2. decompte' > DISCARD => 0 <= Room(decompte')
      <4> SUFFICES ASSUME decompte' > DISCARD PROVE Room(decompte') \in Nat
        OBVIOUS
      <4>1. decompte' \in Nat
        BY <1>1, <1>5
      <4> QED BY <4>1, RoomFacts
    <3> QED BY <3>1, <3>2 DEF KeptInv
  <2> QED BY <1>1, <2>2, <2>3, Constants
<1>6. CASE /\ Taken.cr = FALSE /\ decompte' = decompte /\ pc' = "get"
           /\ decompte > DISCARD /\ val' = Append(val, Taken)
  <2>1. index' = index + 1
    BY <1>1, <1>6 DEF index
  <2>2. ASSUME NEW t \in Nat, t <= Len(ring'), Plain(ring', 0, t)
        PROVE  index' + t <= Room(decompte + 1)
    <3>1. t + 1 <= Len(ring) /\ Plain(ring, 0, t + 1) /\ t + 1 \in Nat
      <4>1. ~CR(ring, 1)
        BY <1>2, <1>6 DEF CR
      <4>2. 0 + t <= Len(Tail(ring)) /\ Plain(Tail(ring), 0, t)
        BY <1>2, <2>2
      <4> QED BY <1>1, <1>2, <4>1, <4>2, PlainTail
    <3>2. CASE index <= Room(decompte)
      <4>1. t + 1 <= Gap
        <5>1. 0 + (t + 1) <= Len(ring)
          BY <3>1
        <5>2. t + 1 <= Most(0)
          BY <3>1, <5>1 DEF GapInv
        <5> QED BY <5>2 DEF Most
      <4> QED BY <1>1, <1>4, <1>6, <2>1, <3>2, <4>1, GapFacts
    <3>3. CASE KeptFits
      <4>1. index + (t + 1) <= Room(decompte + 1)
        BY <3>1, <3>3 DEF KeptFits
      <4>2. index + (t + 1) = index' + t
        BY <1>1, <2>1
      <4> QED BY <4>1, <4>2
    <3> QED BY <1>6, <3>2, <3>3 DEF KeptInv
  <2>3. Len(ring') < RING
    BY <1>1, <1>2, Constants
  <2>4. KeptFits'
    BY <1>6, <2>2, <2>3 DEF KeptFits, Plain, CR
  <2>5. ~(decompte' <= DISCARD)
    BY <1>1, <1>6, Constants
  <2> QED BY <1>6, <2>4, <2>5 DEF KeptInv
<1>7. CASE decompte' = decompte /\ ~(decompte > DISCARD) /\ val' = val
  BY <1>1, <1>7, Constants DEF KeptInv, index
<1> QED BY <1>3, <1>5, <1>6, <1>7

\* Only the printer keeps bytes, and each period starts with none.
LEMMA NextKept ==
  PInv /\ FoundInv /\ GapInv /\ KeptInv /\ ~torn' /\ [Next]_vars => KeptInv'
<1> SUFFICES ASSUME PInv, FoundInv, GapInv, KeptInv, ~torn', [Next]_vars PROVE KeptInv'
  OBVIOUS
<1>1. CASE pc # "get" /\ decompte' = decompte /\ val' = val
  BY <1>1 DEF KeptInv, index
<1>2. CASE UNCHANGED vars
  BY <1>2 DEF vars, KeptInv, KeptFits, Plain, CR, index
<1>3. CASE PowerUp \/ Report
  <2>1. decompte' = 0 /\ val' = << >>
    BY <1>3 DEF PowerUp, Report, PInv, PeriodInv, Reading
  <2> QED BY <2>1, Constants DEF KeptInv, index
<1>4. CASE Setup \/ Joined \/ JoinFailed \/ Lock
  <2>1. decompte' = decompte /\ val' = val
        /\ (pc # "get" \/ UNCHANGED <<pc, slipped, ring>>)
    BY <1>4 DEF Setup, Joined, JoinFailed, Lock, PInv, StillInv
  <2> QED BY <2>1, <1>1 DEF KeptInv, KeptFits, Plain, CR, index
<1>5. CASE Receive
  BY <1>1, <1>5 DEF Receive
<1> QED BY <1>2, <1>3, <1>4, <1>5, GetOneKept, SensorKept
        DEF Next, Main, Printer, Idle

\* The sentences kept in a period fit val, unless an interrupt tore the buffer.
THEOREM SnowValFits == Spec => []ValFits
<1> DEFINE I == torn \/ (PInv /\ FoundInv /\ GapInv /\ KeptInv)
<1>1. Init => I
  <2> SUFFICES ASSUME Init PROVE GapInv /\ KeptInv
    BY InitPInv, InitFound
  <2>1. Len(ring) = 0 /\ sensor.on = FALSE /\ decompte = 0 /\ index = 0
    BY DEF Init, index
  <2>2. GapInv
    BY <2>1, GapFacts, Constants DEF GapInv, LastFits
  <2>3. KeptInv
    BY <2>1, Constants DEF KeptInv
  <2> QED BY <2>2, <2>3
<1>2. I /\ [Next]_vars => I'
  BY NextPInv, NextFound, NextGap, NextKept, TornStays
<1>3. I => ValFits
  <2> SUFFICES ASSUME PInv, KeptInv PROVE index <= VAL
    <3>1. PInv => index \in Nat /\ VAL \in Nat
      BY Constants DEF PInv, Types, Buffers, index
    <3> QED BY <3>1 DEF ValFits, Smashed
  <2>1. decompte \in Nat /\ index \in Nat
    BY DEF PInv, Types, Counts, Buffers, index
  <2>2. CASE decompte <= DISCARD
    BY <2>2, Constants DEF KeptInv
  <2>3. CASE decompte > DISCARD /\ index <= Room(decompte)
    <3>1. decompte <= TOTAL
      BY <2>1, Constants DEF PInv, PeriodInv
    <3>2. Room(decompte) \in Nat /\ Room(decompte) <= VAL
      BY <2>1, <2>3, <3>1, RoomFacts
    <3> QED BY <2>1, <2>3, <3>2, Constants
  <2>4. CASE decompte > DISCARD /\ pc = "get" /\ KeptFits
    <3>1. decompte + 1 \in Nat /\ decompte + 1 > DISCARD /\ decompte + 1 <= TOTAL
      BY <2>1, <2>4, Constants DEF PInv, PeriodInv, Reading
    <3>2. Room(decompte + 1) \in Nat /\ Room(decompte + 1) <= VAL
      BY <3>1, RoomFacts
    <3>3. index + 0 <= Room(decompte + 1)
      <4>1. 0 \in Nat /\ 0 <= Len(ring) /\ Plain(ring, 0, 0)
        BY DEF Plain, PInv, Types, Buffers
      <4> QED BY <2>4, <4>1 DEF KeptFits
    <3> QED BY <2>1, <3>2, <3>3, Constants
  <2> QED BY <2>1, <2>2, <2>3, <2>4, Constants DEF KeptInv
<1> QED BY <1>1, <1>2, <1>3, PTL DEF Spec

-----------------------------------------------------------------------------
(* Something is kept.                                                      *)

\* The sensor has something to say, also once a byte of it is lost, before a
\* carriage return.
NextPlain ==
  /\ sensor.on => sensor.left > 0
  /\ ~Waiting /\ ~slipped => sensor.left > 1

\* No sentence of the buffer is empty, nor the one that comes; but the byte taken
\* may be followed by a carriage return where the byte behind it was dropped.
ApartInv ==
  /\ \A i, j \in 1..Len(ring) :
       j = i + 1 /\ CR(ring, i) /\ CR(ring, j) => i = 1 /\ pc = "get" /\ overrun
  /\ ring # << >> /\ CR(ring, Len(ring)) => NextPlain

\* The first sentence to be kept is not empty, and then there is something,
\* unless the buffer forgot it.
SomeInv ==
  /\ Reading /\ ~overrun /\ decompte = DISCARD + 1 /\ val = << >>
       => IF ring = << >> THEN NextPlain ELSE ~CR(ring, 1)
  /\ ~overrun /\ decompte > DISCARD + 1 => val # << >>

\* A carriage return comes only after another byte.
LEMMA SensorApart ==
  ASSUME PInv, FoundInv, ApartInv, SomeInv, ~torn', SensorWrites
  PROVE  ApartInv' /\ SomeInv'
<1>1. SensorFrame /\ (PlainByte \/ EndOfSentence)
  BY SensorStep
<1>2. /\ ring \in Seq(Byte) /\ Len(ring) \in Nat /\ Len(ring) <= RING
      /\ ring = << >> <=> Len(ring) = 0
      /\ sensor.left \in Nat /\ sensor.on
      /\ pc' = pc /\ decompte' = decompte /\ val' = val
  BY <1>1 DEF PInv, Types, Buffers, Sensed, SensorFrame
<1>3. ASSUME Reading, ~overrun' PROVE ~overrun /\ Len(ring) # RING
  <2>1. overrun' = (overrun \/ (pc # "send" /\ Len(ring) = RING)) /\ pc # "send"
    BY <1>1, <1>3 DEF SensorFrame, Reading
  <2> QED BY <1>3, <2>1, Zenon
<1>4. ~overrun' => ~overrun
  <2>1. overrun' = (overrun \/ (pc # "send" /\ Len(ring) = RING))
    BY <1>1 DEF SensorFrame
  <2> QED BY <2>1, Zenon
<1>9. overrun => overrun'
  <2>1. overrun' = (overrun \/ (pc # "send" /\ Len(ring) = RING))
    BY <1>1 DEF SensorFrame
  <2> QED BY <2>1, Zenon
<1>5. ~overrun' /\ decompte' > DISCARD + 1 => val' # << >>
  BY <1>2, <1>4 DEF SomeInv
<1>6. CASE pc = "get" /\ ring' = ring /\ sensor'.left = sensor.left - 1
  <2>1. ~Waiting /\ ~slipped /\ slipped' = TRUE
    BY <1>1, <1>6 DEF SensorFrame, Waiting
  <2>2. NextPlain => NextPlain'
    <3>1. \A l \in Nat : l > 1 => l - 1 > 0
      OBVIOUS
    <3> QED BY <1>2, <1>6, <2>1, <3>1 DEF NextPlain
  <2>3. ApartInv'
    BY <1>2, <1>6, <1>9, <2>2 DEF ApartInv, CR
  <2>4. Reading' /\ ~overrun' /\ decompte' = DISCARD + 1 /\ val' = << >>
          => IF ring' = << >> THEN NextPlain' ELSE ~CR(ring', 1)
    BY <1>2, <1>4, <1>6, <2>2 DEF SomeInv, Reading, CR
  <2> QED BY <1>5, <2>3, <2>4 DEF SomeInv, CR
<1>7. ASSUME NEW b \in Byte, ring' = AddOne(ring, b),
             b.cr = TRUE => (ring # << >> => ~CR(ring, Len(ring))) /\ NextPlain',
             b.cr = TRUE => ~NextPlain
      PROVE  ApartInv' /\ SomeInv'
  <2> DEFINE d == Dropped(ring)
  <2>1. /\ Len(ring') = Len(ring) + 1 - d /\ ring'[Len(ring')] = b
        /\ \A i \in 1..(Len(ring') - 1) : ring'[i] = ring[i + d]
    BY <1>2, <1>7, AddOneFacts
  <2>2. /\ d \in {0, 1} /\ (d = 1 => Len(ring) = RING) /\ Len(ring') \in Nat
        /\ Len(ring') > 0
    BY <1>2, <2>1, Constants DEF Dropped
  <2> HIDE DEF d
  <2>3. ASSUME NEW i \in 1..Len(ring'), NEW j \in 1..Len(ring'), j = i + 1,
               CR(ring', i), CR(ring', j)
        PROVE  i = 1 /\ pc' = "get" /\ overrun'
    <3>1. i \in 1..(Len(ring') - 1) /\ i + d \in 1..Len(ring)
      BY <1>2, <2>1, <2>2, <2>3
    <3>2. CR(ring, i + d)
      BY <2>1, <2>3, <3>1 DEF CR
    <3>3. CASE j = Len(ring')
      <4>1. i + d = Len(ring) /\ ring # << >>
        BY <1>2, <2>1, <2>2, <2>3, <3>1, <3>3
      <4>2. b.cr = TRUE
        BY <2>1, <2>3, <3>3 DEF CR
      <4> QED BY <1>7, <3>2, <4>1, <4>2
    <3>4. CASE j # Len(ring')
      <4>1. j \in 1..(Len(ring') - 1) /\ j + d \in 1..Len(ring) /\ j + d = (i + d) + 1
        BY <1>2, <2>1, <2>2, <2>3, <3>4
      <4>2. CR(ring, j + d)
        BY <2>1, <2>3, <4>1 DEF CR
      <4>3. i + d = 1 /\ pc = "get" /\ overrun
        BY <3>1, <3>2, <4>1, <4>2 DEF ApartInv
      <4> QED BY <1>2, <1>9, <2>2, <4>3
    <3> QED BY <3>3, <3>4
  <2>4. CR(ring', Len(ring')) => NextPlain'
    BY <1>7, <2>1 DEF CR
  <2>5. ApartInv'
    BY <2>3, <2>4 DEF ApartInv, CR
  <2>6. ASSUME Reading', ~overrun', decompte' = DISCARD + 1, val' = << >>
        PROVE  ring' # << >> /\ ~CR(ring', 1)
    <3>1. d = 0 /\ Reading /\ (IF ring = << >> THEN NextPlain ELSE ~CR(ring, 1))
      BY <1>2, <1>3, <2>2, <2>6 DEF SomeInv, Reading
    <3>2. CASE ring = << >>
      <4>1. Len(ring') = 1
        BY <1>2, <2>1, <3>1, <3>2
      <4>2. ~(b.cr = TRUE)
        BY <1>7, <3>1, <3>2
      <4>3. ring' # << >>
        BY <4>1
      <4>4. ring'[1] = b
        BY <2>1, <4>1
      <4> QED BY <4>2, <4>3, <4>4 DEF CR
    <3>3. CASE ring # << >>
      <4>1. 1 \in 1..(Len(ring') - 1) /\ 1 + d = 1
        BY <1>2, <2>1, <3>1, <3>3
      <4> QED BY <2>1, <3>1, <3>3, <4>1 DEF CR
    <3> QED BY <2>2, <3>2, <3>3
  <2> QED BY <1>5, <2>5, <2>6 DEF SomeInv, CR
<1>8. CASE EndOfSentence
  <2>1. PICK b \in Byte : b.cr = TRUE /\ ring' = AddOne(ring, b)
    BY <1>8 DEF EndOfSentence, Heard
  <2>2. ~NextPlain
    BY <1>2, <1>8 DEF EndOfSentence, NextPlain
  <2>3. NextPlain'
    BY <1>8, LengthFacts DEF EndOfSentence, NextPlain
  <2>4. ring # << >> => ~CR(ring, Len(ring))
    BY <2>2 DEF ApartInv
  <2> QED BY <1>7, <2>1, <2>2, <2>3, <2>4
<1>10. CASE /\ pc = "get" /\ Len(ring) = RING
            /\ \E b \in Byte : b.cr = FALSE /\ ring' = Skipped(ring, b)
  <2>1. PICK b \in Byte : b.cr = FALSE /\ ring' = Skipped(ring, b)
    BY <1>10
  <2>2. overrun' = TRUE
    BY <1>1, <1>10 DEF SensorFrame
  <2>3. /\ Len(ring') = RING /\ RING \in Nat /\ RING > 1 /\ ring'[RING] = b
        /\ \A i \in 2..(RING - 1) : ring'[i] = ring[i + 1]
    <3>1. RING \in Nat /\ RING > 1 /\ ring \in Seq(Byte) /\ Len(ring) = RING
      BY <1>2, <1>10, RingBig, Constants
    <3>2. PICK q : q = Skipped(ring, b)
      OBVIOUS
    <3>3. Len(q) = RING /\ q[RING] = b /\ \A i \in 2..(RING - 1) : q[i] = ring[i + 1]
      BY <3>1, <3>2, SkippedFacts
    <3>4. ring' = q
      BY <2>1, <3>2
    <3> QED BY <3>1, <3>3, <3>4
  <2>4. ~CR(ring', RING)
    BY <2>1, <2>3 DEF CR
  <2>5. ASSUME NEW i \in 1..Len(ring'), NEW j \in 1..Len(ring'), j = i + 1,
               CR(ring', i), CR(ring', j)
        PROVE  i = 1
    <3> SUFFICES ASSUME i # 1 PROVE FALSE
      OBVIOUS
    <3>1. i \in 2..(RING - 1) /\ j \in 2..(RING - 1)
      BY <2>3, <2>4, <2>5
    <3>2. CR(ring, i + 1) /\ CR(ring, j + 1)
      BY <2>3, <2>5, <3>1 DEF CR
    <3>3. i + 1 \in 1..Len(ring) /\ j + 1 \in 1..Len(ring) /\ j + 1 = (i + 1) + 1
          /\ i + 1 # 1
      BY <1>10, <2>3, <2>5, <3>1
    <3> QED BY <3>2, <3>3 DEF ApartInv
  <2>6. ApartInv'
    BY <1>2, <1>10, <2>2, <2>3, <2>4, <2>5 DEF ApartInv, CR
  <2>7. SomeInv'
    BY <2>2 DEF SomeInv
  <2> QED BY <2>6, <2>7
<1> QED BY <1>1, <1>6, <1>7, <1>8, <1>10 DEF PlainByte, Heard

\* The end of one sentence is taken, and the next is not empty.
LEMMA GetOneApart ==
  ASSUME PInv, FoundInv, ApartInv, SomeInv, GetOne
  PROVE  ApartInv' /\ SomeInv'
<1>1. /\ pc = "get" /\ ring \in Seq(Byte) /\ Len(ring) \in Nat
      /\ val \in Seq(Byte \cup {Nothing}) /\ decompte \in Nat
  BY DEF PInv, Types, Buffers, Counts, GetOne
<1>2. ring # << >> /\ Taken = ring[1] /\ ring' = Tail(ring)
      /\ overrun' = overrun /\ sensor' = sensor
  BY <1>1, NotEmpty, TailFacts DEF GetOne, Taken
<1>3. /\ Len(ring') = Len(ring) - 1 /\ Len(ring) > 0
      /\ ring' = << >> <=> Len(ring') = 0
      /\ \A i \in 1..(Len(ring) - 1) : ring'[i] = ring[i + 1]
  <2>1. ring' \in Seq(Byte)
    BY <1>1, <1>2, TailFacts
  <2>2. ring' = << >> <=> Len(ring') = 0
    BY <2>1
  <2> QED BY <1>1, <1>2, <2>2, TailFacts
<1>4. /\ \/ /\ Taken.cr = TRUE /\ decompte' = decompte + 1 /\ val' = val
            /\ pc' = (IF decompte + 1 < TOTAL THEN "receive" ELSE "send")
         \/ /\ Taken.cr = FALSE /\ decompte' = decompte /\ pc' = "get"
            /\ val' = IF decompte > DISCARD THEN Append(val, Taken) ELSE val
      /\ slipped' = IF pc' = "send" THEN FALSE ELSE slipped
  BY GetOneStep DEF PInv
<1>5. NextPlain => NextPlain'
  BY <1>1, <1>2, <1>4 DEF NextPlain, Waiting
<1>6. ASSUME NEW i \in 1..Len(ring'), NEW j \in 1..Len(ring'), j = i + 1
      PROVE  ~(CR(ring', i) /\ CR(ring', j))
  <2>1. i + 1 \in 1..Len(ring) /\ j + 1 \in 1..Len(ring) /\ j + 1 = (i + 1) + 1
        /\ i \in 1..(Len(ring) - 1) /\ j \in 1..(Len(ring) - 1)
    BY <1>1, <1>3, <1>6
  <2>2. ~(CR(ring, i + 1) /\ CR(ring, j + 1))
    <3>1. i + 1 # 1
      OBVIOUS
    <3> QED BY <2>1, <3>1 DEF ApartInv
  <2> QED BY <1>3, <2>1, <2>2 DEF CR
<1>7. ring' # << >> => ring'[Len(ring')] = ring[Len(ring)]
  <2>1. ring' # << >> => Len(ring') \in 1..(Len(ring) - 1) /\ Len(ring') + 1 = Len(ring)
    BY <1>1, <1>3
  <2> QED BY <1>3, <2>1
<1>8. ApartInv'
  <2>1. ring' # << >> /\ CR(ring', Len(ring')) => NextPlain'
    BY <1>2, <1>5, <1>7 DEF ApartInv, CR
  <2> QED BY <1>6, <2>1 DEF ApartInv, CR
<1>9. CASE Taken.cr = TRUE /\ decompte' = decompte + 1 /\ val' = val
  <2>1. CR(ring, 1)
    BY <1>2, <1>9 DEF CR
  <2>2. ~overrun' => IF ring' = << >> THEN NextPlain' ELSE ~CR(ring', 1)
    <3>1. CASE ring' = << >>
      <4>1. Len(ring) = 1
        BY <1>1, <1>3, <3>1
      <4> QED BY <1>2, <1>5, <2>1, <3>1, <4>1 DEF ApartInv
    <3>2. CASE ring' # << >>
      <4>1. 1 \in 1..Len(ring) /\ 2 \in 1..Len(ring) /\ 2 = 1 + 1
            /\ 1 \in 1..(Len(ring) - 1)
        BY <1>1, <1>3, <3>2
      <4>2. ~overrun' => ~CR(ring, 2)
        BY <1>2, <2>1, <4>1 DEF ApartInv
      <4> QED BY <1>3, <3>2, <4>1, <4>2 DEF CR
    <3> QED BY <3>1, <3>2
  <2>3. ASSUME ~overrun', decompte' > DISCARD + 1 PROVE val' # << >>
    <3>1. CASE decompte > DISCARD + 1
      BY <1>2, <1>9, <2>3, <3>1 DEF SomeInv
    <3>2. CASE decompte = DISCARD + 1
      BY <1>1, <1>2, <1>9, <2>1, <2>3, <3>2 DEF SomeInv, Reading
    <3> QED BY <1>1, <1>9, <2>3, <3>1, <3>2, Constants
  <2> QED BY <1>8, <2>2, <2>3 DEF SomeInv, CR
<1>10. CASE /\ decompte' = decompte
            /\ val' = IF decompte > DISCARD THEN Append(val, Taken) ELSE val
  <2>1. decompte > DISCARD => val' # << >>
    BY <1>1, <1>10
  <2>2. decompte' = DISCARD + 1 \/ decompte' > DISCARD + 1 => decompte > DISCARD
    BY <1>1, <1>10, Constants
  <2> QED BY <1>8, <2>1, <2>2 DEF SomeInv
<1> QED BY <1>4, <1>9, <1>10

\* The other steps leave the buffer and the sensor alone, or start the sensor with a sentence.
LEMMA NextApart ==
  PInv /\ FoundInv /\ ApartInv /\ SomeInv /\ ~torn' /\ [Next]_vars
    => ApartInv' /\ SomeInv'
<1> SUFFICES ASSUME PInv, FoundInv, ApartInv, SomeInv, ~torn', [Next]_vars
             PROVE  ApartInv' /\ SomeInv'
  OBVIOUS
<1>1. CASE UNCHANGED vars
  BY <1>1 DEF vars, ApartInv, SomeInv, NextPlain, Waiting, Reading, CR
<1>2. CASE Main \/ Lock \/ Receive
  <2>1. UNCHANGED <<ring, decompte, val, slipped, sensor, overrun>>
    BY <1>2 DEF Main, Setup, Joined, JoinFailed, Lock, Receive
  <2>2. (Reading' <=> Reading) /\ (Waiting' <=> Waiting)
    BY <1>2 DEF Main, Setup, Joined, JoinFailed, Lock, Receive, Reading, Waiting, PInv,
       StillInv, Types, Counts
  <2>3. pc' = pc \/ pc # "get"
    BY <1>2 DEF Main, Setup, Joined, JoinFailed, Lock, Receive, PInv, StillInv
  <2>5. NextPlain' <=> NextPlain
    BY <2>1, <2>2 DEF NextPlain
  <2>4. ApartInv'
    BY <2>1, <2>3, <2>5 DEF ApartInv, CR
  <2> QED BY <2>1, <2>2, <2>4 DEF SomeInv, NextPlain, CR
<1>3. CASE PowerUp
  <2>1. /\ ring \in Seq(Byte) /\ decompte' = 0 /\ DISCARD \in Nat
        /\ sensor' = [on |-> TRUE, said |-> 0, left |-> Length(0)]
        /\ ring' = [i \in DOMAIN ring |-> [ring[i] EXCEPT !.fresh = FALSE]]
    BY <1>3, Constants DEF PowerUp, PInv, Types, Buffers, PeriodInv, Reading
  <2>2. /\ Len(ring') = Len(ring) /\ Len(ring) \in Nat
        /\ \A i \in 1..Len(ring) : CR(ring', i) <=> CR(ring, i)
    BY <2>1 DEF Byte, CR
  <2>3. NextPlain'
    BY <2>1, LengthFacts DEF NextPlain
  <2>5. pc # "get"
    BY <1>3 DEF PowerUp
  <2>4. ApartInv'
    BY <2>2, <2>3, <2>5 DEF ApartInv, CR
  <2> QED BY <2>1, <2>4 DEF SomeInv
<1>4. CASE Report
  <2>1. ring' = ring /\ decompte' = 0 /\ DISCARD \in Nat /\ pc # "get"
    BY <1>4, Constants DEF Report
  <2>2. NextPlain'
    BY <1>4 DEF Report, NextPlain, Waiting
  <2> QED BY <2>1, <2>2 DEF ApartInv, SomeInv, CR
<1> QED BY <1>1, <1>2, <1>3, <1>4, GetOneApart, SensorApart
        DEF Next, Printer, Idle

\* A report has a length that is not negative, unless the buffer overflowed while
\* it was read or an interrupt tore it.
THEOREM SnowLengthNotNegative == Spec => []LengthNotNegative
<1> DEFINE I == torn \/ (PInv /\ FoundInv /\ ApartInv /\ SomeInv)
<1>1. Init => I
  <2> SUFFICES ASSUME Init PROVE ApartInv /\ SomeInv
    BY InitPInv, InitFound
  <2>1. ring = << >> /\ Len(ring) = 0 /\ decompte = 0 /\ DISCARD \in Nat
    BY Constants DEF Init
  <2> QED BY <2>1 DEF ApartInv, SomeInv
<1>2. I /\ [Next]_vars => I'
  BY NextPInv, NextFound, NextApart, TornStays
<1>3. I => LengthNotNegative
  <2> SUFFICES ASSUME PInv, SomeInv, pc = "send", ~overrun PROVE index >= 1
    BY DEF LengthNotNegative
  <2>1. decompte > DISCARD + 1
    BY Constants DEF PInv, PeriodInv
  <2>2. val # << >> /\ val \in Seq(Byte \cup {Nothing})
    BY <2>1 DEF SomeInv, PInv, Types, Buffers
  <2> QED BY <2>2 DEF index
<1> QED BY <1>1, <1>2, <1>3, PTL DEF Spec

-----------------------------------------------------------------------------
(* The types, also of a torn buffer.                                       *)

\* A period reads TOTAL sentences, and only GetOne counts them.
Counting ==
  /\ decompte \in Nat
  /\ Reading => decompte < TOTAL
  /\ pc = "send" => decompte = TOTAL
  /\ ~Reading /\ pc # "send" => decompte = 0
  /\ main = "init" => pc = "absent"

\* The types again, apart from the numbers.
Marks ==
  /\ main \in {"init", "joining", "asleep", "returned"}
  /\ mutex \in {"free", "main", "printer"}
  /\ pc \in {"absent", "lock", "off", "receive", "get", "send"}
  /\ slipped \in BOOLEAN /\ overrun \in BOOLEAN /\ torn \in BOOLEAN

Amounts ==
  /\ ring \in Seq(Byte)
  /\ Len(ring) <= IF pc = "get" /\ slipped THEN RING + 1 ELSE RING
  /\ msgs \in 0..QUEUE
  /\ val \in Seq(Byte \cup {Nothing})
  /\ sensor \in [on : BOOLEAN, said : 0..BANNER, left : 0..(BLEN + MLEN)]

TypeInv == Marks /\ Amounts /\ Counting

LEMMA TypeInvOK == TypeInv => TypeOK
<1> SUFFICES ASSUME TypeInv PROVE TypeOK
  OBVIOUS
<1>1. decompte \in 0..TOTAL
  BY Constants DEF TypeInv, Counting, Reading
<1> QED BY <1>1 DEF TypeInv, Marks, Amounts, TypeOK

\* What the buffer may hold after a byte.
LEMMA RingTakesType ==
  ASSUME TypeOK, NEW b \in Byte, RingTakes(b), ~Waiting => ~slipped \/ Spinning,
         slipped' = ~Waiting, pc' = pc
  PROVE  /\ ring' \in Seq(Byte) /\ torn' \in BOOLEAN
         /\ Len(ring') <= IF pc' = "get" /\ slipped' THEN RING + 1 ELSE RING
<1>1. ring \in Seq(Byte) /\ Len(ring) \in Nat /\ RING \in Nat /\ RING > 1
  BY RingBig, Constants DEF TypeOK
<1>2. Len(ring) <= RING
  <2>1. CASE pc = "get" /\ slipped
    <3>1. ring = << >>
      BY <2>1 DEF Waiting, Spinning
    <3> QED BY <1>1, <3>1
  <2>2. CASE ~(pc = "get" /\ slipped)
    BY <2>2 DEF TypeOK
  <2> QED BY <2>1, <2>2
<1>3. CASE ring' = AddOne(ring, b) /\ torn' = torn
  <2>1. ring' \in Seq(Byte) /\ Len(ring') = Len(ring) + 1 - Dropped(ring)
    BY <1>1, <1>2, <1>3, AddOneFacts
  <2>2. Len(ring') <= RING
    BY <1>1, <1>2, <2>1 DEF Dropped
  <2> QED BY <1>1, <1>3, <2>1, <2>2 DEF TypeOK
<1>4. CASE ring' \in Mislay(ring, b) /\ torn' = torn
  <2>1. ring' = ring \/ (Len(ring) = RING /\ ring' = Skipped(ring, b))
    BY <1>4 DEF Mislay, Skipped
  <2>2. ring' \in Seq(Byte) /\ Len(ring') <= RING
    BY <1>1, <1>2, <2>1, SkippedFacts
  <2>3. Len(ring') \in Nat
    BY <2>2
  <2> QED BY <1>1, <1>4, <2>2, <2>3 DEF TypeOK
<1>5. CASE pc = "get" /\ ring # << >> /\ ring' \in Tear(ring, b) /\ torn' = TRUE
  <2> DEFINE q == IF Len(ring) = 1 THEN ring
                  ELSE Append(SubSeq(ring, 1, Len(ring) - 1), b)
  <2>1. PICK old \in Stale : ring' = q \o <<old>>
    BY <1>5 DEF Tear
  <2>2. old \in Byte
    BY DEF Stale, Byte
  <2>3. q \in Seq(Byte) /\ Len(q) = Len(ring)
    <3>1. CASE Len(ring) = 1
      BY <1>1, <3>1
    <3>2. CASE Len(ring) # 1
      <4>1. /\ SubSeq(ring, 1, Len(ring) - 1) \in Seq(Byte)
            /\ Len(SubSeq(ring, 1, Len(ring) - 1)) = Len(ring) - 1
        <5> PICK n \in Nat : n = Len(ring) - 1
          BY <1>1, <1>5
        <5>1. \A i \in 1..n : ring[i] \in Byte
          BY <1>1
        <5>2. SubSeq(ring, 1, n) \in Seq(Byte)
              /\ Len(SubSeq(ring, 1, n)) = IF 1 <= n THEN n - 1 + 1 ELSE 0
          BY <5>1, SubSeqProperties
        <5> QED BY <5>2
      <4> QED BY <1>1, <3>2, <4>1
    <3> QED BY <3>1, <3>2
  <2> HIDE DEF q
  <2>4. <<old>> \in Seq(Byte) /\ Len(<<old>>) = 1
    BY <2>2
  <2>5. ring' \in Seq(Byte) /\ Len(ring') = Len(ring) + 1
    BY <2>1, <2>3, <2>4, ConcatProperties
  <2>6. pc' = "get" /\ slipped' = TRUE
    BY <1>5 DEF Waiting
  <2> QED BY <1>1, <1>2, <1>5, <2>5, <2>6
<1> QED BY <1>3, <1>4, <1>5 DEF RingTakes

LEMMA SensorType == ASSUME TypeInv, SensorWrites PROVE TypeInv'
<1> DEFINE b == [cr    |-> sensor.left = 0,
                 text  |-> IF sensor.said < BANNER THEN "banner" ELSE "measure",
                 fresh |-> TRUE]
           said == IF sensor.said < BANNER THEN sensor.said + 1 ELSE BANNER
<1>1. /\ ~Waiting => ~slipped \/ Spinning
      /\ slipped' = ~Waiting /\ RxCb(b)
      /\ sensor' = IF sensor.left = 0
                   THEN [sensor EXCEPT !.said = said, !.left = Length(said)]
                   ELSE [sensor EXCEPT !.left = @ - 1]
      /\ overrun' = (overrun \/ (pc # "send" /\ Len(ring) = RING))
      /\ UNCHANGED <<main, mutex, pc, decompte, val>>
  BY DEF SensorWrites
<1>2. /\ RingTakes(b)
      /\ msgs' = IF b.cr /\ msgs < QUEUE /\ pc # "absent" THEN msgs + 1 ELSE msgs
  BY <1>1 DEF RxCb
<1>3. b \in Byte /\ b.cr \in BOOLEAN
  BY DEF Byte
<1> HIDE DEF b
<1>4. /\ sensor \in [on : BOOLEAN, said : 0..BANNER, left : 0..(BLEN + MLEN)]
      /\ msgs \in 0..QUEUE /\ TypeOK
  BY TypeInvOK DEF TypeInv, Amounts
<1>5. /\ ring' \in Seq(Byte) /\ torn' \in BOOLEAN
      /\ Len(ring') <= IF pc' = "get" /\ slipped' THEN RING + 1 ELSE RING
  BY <1>1, <1>2, <1>3, <1>4, RingTakesType
<1>6. msgs' \in 0..QUEUE
  <2>1. msgs' = msgs \/ (msgs < QUEUE /\ msgs' = msgs + 1)
    BY <1>2
  <2> QED BY <1>4, <2>1, Constants
<1>7. sensor' \in [on : BOOLEAN, said : 0..BANNER, left : 0..(BLEN + MLEN)]
  <2>1. said \in 0..BANNER
    BY <1>4, Constants
  <2>2. Length(said) \in 0..(BLEN + MLEN)
    BY Constants DEF Length
  <2> HIDE DEF said
  <2>3. CASE sensor.left = 0
    <3>1. sensor' = [sensor EXCEPT !.said = said, !.left = Length(said)]
      BY <1>1, <2>3
    <3> QED BY <1>4, <2>1, <2>2, <3>1
  <2>4. CASE sensor.left # 0
    <3>1. sensor' = [sensor EXCEPT !.left = @ - 1]
      BY <1>1, <2>4
    <3>2. sensor.left - 1 \in 0..(BLEN + MLEN)
      BY <1>4, <2>4, Constants
    <3> QED BY <1>4, <3>1, <3>2
  <2> QED BY <2>3, <2>4
<1>8. overrun' \in BOOLEAN /\ slipped' \in BOOLEAN
  <2>1. overrun' \in BOOLEAN
    BY <1>1, Zenon
  <2>2. slipped' \in BOOLEAN
    BY <1>1, Zenon DEF Waiting
  <2> QED BY <2>1, <2>2
<1>9. Counting'
  BY <1>1 DEF TypeInv, Counting, Reading
<1>10. Marks'
  BY <1>1, <1>5, <1>8 DEF TypeInv, Marks
<1>11. Amounts'
  BY <1>1, <1>5, <1>6, <1>7 DEF TypeInv, Amounts
<1> QED BY <1>9, <1>10, <1>11 DEF TypeInv

LEMMA GetOneType == ASSUME TypeInv, GetOne PROVE TypeInv'
<1>1. /\ pc = "get" /\ ring \in Seq(Byte) /\ Len(ring) \in Nat /\ RING \in Nat
      /\ Len(ring) <= IF slipped THEN RING + 1 ELSE RING
      /\ val \in Seq(Byte \cup {Nothing}) /\ decompte \in Nat /\ decompte < TOTAL
  BY Constants DEF TypeInv, Amounts, Counting, Reading, GetOne
<1>2. /\ Keep(Taken) /\ AfterByte(Taken)
      /\ ring' = IF ring = << >> THEN ring ELSE Tail(ring)
      /\ slipped' = IF pc' = "send" THEN FALSE ELSE slipped
      /\ UNCHANGED <<main, mutex, msgs, sensor, overrun, torn>>
  BY DEF GetOne, Taken
<1>3. Taken \in Byte \cup {Nothing} /\ (ring = << >> => ~Taken.cr)
  <2>1. CASE ring = << >>
    BY <2>1 DEF Taken, Nothing
  <2>2. CASE ring # << >>
    BY <1>1, <2>2, TailFacts DEF Taken
  <2> QED BY <2>1, <2>2
<1>4. ring' \in Seq(Byte) /\ Len(ring') \in Nat
      /\ (ring = << >> \/ Len(ring') = Len(ring) - 1)
  BY <1>1, <1>2, TailFacts
<1>5. CASE Taken.cr
  <2>1. /\ decompte' = decompte + 1 /\ val' = val
        /\ pc' = IF decompte + 1 < TOTAL THEN "receive" ELSE "send"
    BY <1>2, <1>5 DEF Keep, AfterByte
  <2>2. ring # << >>
    BY <1>3, <1>5
  <2>3. Len(ring') <= RING
    BY <1>1, <1>4, <2>2
  <2>4. Counting'
    <3>1. main' # "init"
      BY <1>1, <1>2 DEF TypeInv, Counting
    <3> QED BY <1>1, <2>1, <3>1, Constants DEF Counting, Reading
  <2>5. slipped' \in BOOLEAN /\ pc' \in {"receive", "send"}
    BY <1>2, <2>1 DEF TypeInv, Marks
  <2>6. Marks'
    BY <1>2, <2>5 DEF TypeInv, Marks
  <2>7. Amounts'
    BY <1>2, <1>4, <2>1, <2>3, <2>5 DEF TypeInv, Amounts
  <2> QED BY <2>4, <2>6, <2>7 DEF TypeInv
<1>6. CASE ~Taken.cr
  <2>1. /\ decompte' = decompte /\ pc' = "get"
        /\ val' = val \/ val' = Append(val, Taken)
    BY <1>2, <1>6 DEF Keep, AfterByte
  <2>2. val' \in Seq(Byte \cup {Nothing})
    BY <1>1, <1>3, <2>1
  <2>3. slipped' = slipped
    BY <1>2, <2>1
  <2>4. Len(ring') <= IF slipped THEN RING + 1 ELSE RING
    BY <1>1, <1>2, <1>4
  <2>5. Counting'
    <3>1. main' # "init"
      BY <1>1, <1>2 DEF TypeInv, Counting
    <3> QED BY <1>1, <2>1, <3>1 DEF Counting, Reading
  <2>6. Marks'
    BY <1>2, <2>1, <2>3 DEF TypeInv, Marks
  <2>7. Amounts'
    BY <1>2, <1>4, <2>1, <2>2, <2>3, <2>4 DEF TypeInv, Amounts
  <2> QED BY <2>5, <2>6, <2>7 DEF TypeInv
<1> QED BY <1>5, <1>6

\* Every variable has its type, also once an interrupt tore the buffer; decompte
\* never passes TOTAL.
THEOREM SnowTypeOK == Spec => []TypeOK
<1>1. Init => TypeInv
  <2> SUFFICES ASSUME Init PROVE TypeInv
    OBVIOUS
  <2>1. Marks
    BY Zenon DEF Init, Marks
  <2>2. Amounts
    BY Constants DEF Init, Amounts
  <2>3. Counting
    BY DEF Init, Counting, Reading
  <2> QED BY <2>1, <2>2, <2>3 DEF TypeInv
<1>2. TypeInv /\ [Next]_vars => TypeInv'
  <2> SUFFICES ASSUME TypeInv, [Next]_vars PROVE TypeInv'
    OBVIOUS
  <2>1. CASE Setup \/ Joined \/ JoinFailed \/ Lock
    <3>1. Marks'
      BY <2>1 DEF Setup, Joined, JoinFailed, Lock, TypeInv, Marks
    <3>2. /\ UNCHANGED <<ring, msgs, decompte, val, slipped, sensor>>
          /\ pc' = pc \/ (pc \in {"absent", "lock"} /\ pc' \in {"lock", "off"})
          /\ main' # "init" \/ (main' = main /\ pc' = pc)
      BY <2>1 DEF Setup, Joined, JoinFailed, Lock, TypeInv, Counting
    <3>3. Amounts'
      BY <3>2 DEF TypeInv, Amounts
    <3>4. Counting'
      <4>1. main' = "init" => main = "init"
        BY <3>2
      <4> QED BY <3>2, <4>1 DEF TypeInv, Counting, Reading
    <3> QED BY <3>1, <3>3, <3>4 DEF TypeInv
  <2>2. CASE PowerUp
    <3>1. /\ ring \in Seq(Byte) /\ Len(ring) \in Nat /\ Len(ring) <= RING
          /\ ring' = [i \in DOMAIN ring |-> [ring[i] EXCEPT !.fresh = FALSE]]
      BY <2>2 DEF PowerUp, TypeInv, Amounts
    <3>2. ring' \in Seq(Byte) /\ Len(ring') = Len(ring)
      <4>1. \A c \in Byte : [c EXCEPT !.fresh = FALSE] \in Byte
        BY DEF Byte
      <4>2. DOMAIN ring = 1..Len(ring) /\ \A i \in 1..Len(ring) : ring[i] \in Byte
        BY <3>1
      <4> QED BY <3>1, <4>1, <4>2
    <3>3. Length(0) \in 0..(BLEN + MLEN) /\ 0 \in 0..BANNER
      BY Constants DEF Length
    <3>4. Marks'
      BY <2>2 DEF PowerUp, TypeInv, Marks
    <3>5. Amounts'
      BY <2>2, <3>1, <3>2, <3>3 DEF PowerUp, TypeInv, Amounts
    <3>6. Counting'
      BY <2>2, Constants DEF PowerUp, TypeInv, Counting, Reading
    <3> QED BY <3>4, <3>5, <3>6 DEF TypeInv
  <2>3. CASE Receive
    <3>1. msgs - 1 \in 0..QUEUE
      BY <2>3, Constants DEF Receive, TypeInv, Amounts
    <3>2. Len(ring) \in Nat /\ RING \in Nat /\ Len(ring) <= RING
      BY <2>3, Constants DEF Receive, TypeInv, Amounts
    <3>3. Marks'
      BY <2>3 DEF Receive, TypeInv, Marks
    <3>4. Amounts'
      BY <2>3, <3>1, <3>2 DEF Receive, TypeInv, Amounts
    <3>5. Counting'
      BY <2>3 DEF Receive, TypeInv, Counting, Reading
    <3> QED BY <3>3, <3>4, <3>5 DEF TypeInv
  <2>4. CASE Report
    <3>1. Marks'
      BY <2>4 DEF Report, TypeInv, Marks
    <3>2. Amounts'
      BY <2>4, Constants DEF Report, TypeInv, Amounts
    <3>3. Counting'
      BY <2>4 DEF Report, TypeInv, Counting, Reading
    <3> QED BY <3>1, <3>2, <3>3 DEF TypeInv
  <2>5. CASE UNCHANGED vars
    BY <2>5 DEF vars, TypeInv, Marks, Amounts, Counting, Reading
  <2> QED BY <2>1, <2>2, <2>3, <2>4, <2>5, GetOneType, SensorType
          DEF Next, Main, Printer, Idle
<1> QED BY <1>1, <1>2, TypeInvOK, PTL DEF Spec

=============================================================================
