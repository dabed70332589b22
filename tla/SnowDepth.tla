----------------------------- MODULE SnowDepth -----------------------------
(***************************************************************************)
(* The snow depth station, lora_snowdepth/main.c.                          *)
(*                                                                         *)
(* The ultrasonic sensor writes sentences that end with a carriage return. *)
(* rx_cb, in the UART interrupt, puts each byte in a ring buffer and posts *)
(* a message to the printer thread for each carriage return.  The printer  *)
(* powers the sensor up every SEND_PERIOD, reads TOTAL sentences, one per  *)
(* message, keeps those after the first DISCARD + 1, sends them and powers *)
(* the sensor down.  Nothing empties the ring buffer or the message queue  *)
(* between two periods.                                                    *)
(*                                                                         *)
(* The interrupt may hit ringbuffer_get_one anywhere, and nothing protects *)
(* the buffer from that.                                                   *)
(*                                                                         *)
(* A byte is a carriage return or some other byte, with what it belongs to *)
(* and whether the sensor wrote it since it was last powered up.           *)
(***************************************************************************)
EXTENDS Integers, Sequences

CONSTANTS
  RING,      \* UART_BUFSIZE
  QUEUE,     \* the printer's message queue (8)
  VAL,       \* the size of val (128)
  DISCARD,   \* sentences are kept once decompte > DISCARD (5)
  TOTAL,     \* sentences read in a period (9)
  BANNER,    \* sentences the sensor says of itself at power up
  BLEN,      \* the bytes of such a sentence, without its carriage return
  MLEN       \* the bytes of a measure, without its carriage return

\* A sentence has more bytes than the printer can lose of it, and a period reads
\* more sentences than can wait in the queue.
ASSUMPTION SnowAssumption ==
  /\ {RING, QUEUE, VAL, BANNER} \subseteq Nat \ {0}
  /\ {BLEN, MLEN} \subseteq Nat \ {0, 1}
  /\ {TOTAL, DISCARD} \subseteq Nat
  /\ DISCARD + 1 < TOTAL /\ QUEUE < TOTAL

Longest == IF BLEN < MLEN THEN MLEN ELSE BLEN

\* The sentences of the banner that can follow one that waits in the queue.
Late == IF TOTAL - QUEUE + 1 < BANNER THEN BANNER - (TOTAL - QUEUE + 1) ELSE 0

\* The bytes in which all sentences are found that wait in the queue.
Held == QUEUE * (MLEN + 1) + Late * (Longest - MLEN)

ASSUMPTION RingAssumption == Held + 1 < RING

\* A sentence that the sensor was powered down in goes on with the banner, and
\* may begin with a byte of the one before (Mislay).
ASSUMPTION ValAssumption == (TOTAL - DISCARD - 1) * (BLEN + Longest + 1) <= VAL

VARIABLES
  main,      \* where main is
  mutex,     \* who holds _mutex
  pc,        \* where the printer is
  ring,      \* ctx.rx_buf: the bytes it holds, oldest first
  msgs,      \* messages queued for the printer
  decompte,  \* carriage returns read in this period
  val,       \* val[0 .. index-1]
  slipped,   \* a byte has arrived since the printer last waited
  sensor,    \* powered, sentences of the banner said, bytes left to say
  overrun,   \* history: since power up a byte came to a full buffer
  torn       \* history: an interrupt has torn the buffer

vars == <<main, mutex, pc, ring, msgs, decompte, val, slipped, sensor, overrun,
          torn>>

Byte    == [cr : BOOLEAN, text : {"banner", "measure"}, fresh : BOOLEAN]
Nothing == [cr |-> FALSE, text |-> "nothing", fresh |-> FALSE]

\* What a slot of the buffer may still hold when it is in use no more.  (What it
\* was a part of makes no difference.)
Stale == [cr : BOOLEAN, text : {"measure"}, fresh : {FALSE}]

index == Len(val)

\* val has been written past its end.  What the program does then is undefined;
\* the model stops the printer there, one byte too far.
Smashed == index > VAL

\* The printer takes -1 after -1 from an empty buffer, until the next byte.
Spinning == pc = "get" /\ ring = << >>

Waiting == pc \in {"absent", "lock", "off", "send"} \/ (pc = "receive" /\ msgs = 0)

Length(said) == IF said < BANNER THEN BLEN ELSE MLEN

-----------------------------------------------------------------------------
(* Boot.                                                                   *)

Init ==
  /\ main = "init" /\ mutex = "free"
  /\ pc = "absent"
  /\ ring = << >> /\ msgs = 0
  /\ decompte = 0 /\ val = << >>
  /\ slipped = FALSE
  /\ sensor = [on |-> FALSE, said |-> 0, left |-> 0]
  /\ overrun = FALSE /\ torn = FALSE

\* main takes the mutex, initialises the ring buffer and the UART and creates
\* the printer, which runs at once up to mutex_lock.
Setup ==
  /\ main = "init" /\ main' = "joining"
  /\ mutex' = "main"
  /\ pc' = "lock"
  /\ UNCHANGED <<ring, msgs, decompte, val, slipped, sensor, overrun,
                 torn>>

Joined ==
  /\ main = "joining" /\ main' = "asleep"
  /\ mutex' = "free"
  /\ UNCHANGED <<pc, ring, msgs, decompte, val, slipped, sensor, overrun,
                 torn>>

\* main returns and keeps the mutex.
JoinFailed ==
  /\ main = "joining" /\ main' = "returned"
  /\ UNCHANGED <<mutex, pc, ring, msgs, decompte, val, slipped, sensor, overrun,
                 torn>>

-----------------------------------------------------------------------------
(* rx_cb, and the ring buffer it shares with the printer.                  *)

\* ringbuffer_add_one: the oldest byte of a full buffer is overwritten.
AddOne(r, b) == IF Len(r) = RING THEN Append(Tail(r), b) ELSE Append(r, b)

\* ringbuffer_add_one from an interrupt that hits ringbuffer_get_one before it
\* has written rb->avail: that write does not count the byte, which is lost, or
\* start moves on twice, if the buffer is full, and the second byte is lost.
Mislay(r, b) ==
  {r} \cup IF Len(r) = RING THEN {<<Head(r)>> \o Tail(AddOne(r, b))} ELSE {}

\* After it has written rb->avail and before it has moved rb->start: the byte
\* goes into the slot of the newest one, and start uncovers the slot behind.
\* (If the byte taken is the last, start is set to 0, anywhere.)
Tear(r, b) ==
  {(IF Len(r) = 1 THEN r ELSE Append(SubSeq(r, 1, Len(r) - 1), b)) \o <<old>>
     : old \in Stale}

\* The byte comes between two calls of the printer, or during one.
RingTakes(b) ==
  \/ ring' = AddOne(ring, b) /\ UNCHANGED torn
  \/ /\ pc = "get" /\ ring # << >>
     /\ \/ ring' \in Mislay(ring, b) /\ UNCHANGED torn
        \/ ring' \in Tear(ring, b) /\ torn' = TRUE

\* Fault: every byte is announced.
RxEveryByte(b) ==
  /\ RingTakes(b)
  /\ msgs' = IF msgs < QUEUE /\ pc # "absent" THEN msgs + 1 ELSE msgs

\* Fault: a byte is announced only if the buffer was empty.
RxFirstOnly(b) ==
  /\ RingTakes(b)
  /\ msgs' = IF ring = << >> /\ msgs < QUEUE THEN msgs + 1 ELSE msgs

\* A carriage return is announced; msg_send from an interrupt drops the
\* message when the queue is full or the printer does not exist.
RxCb(b) ==
  /\ RingTakes(b)
  /\ msgs' = IF b.cr /\ msgs < QUEUE /\ pc # "absent" THEN msgs + 1 ELSE msgs

\* The sensor writes the next byte of its sentence.  A byte lasts longer than
\* the printer takes to work off its queue: at most one comes meanwhile, unless
\* it waits for that byte in its inner loop.
SensorWrites ==
  /\ sensor.on
  /\ ~Waiting => ~slipped \/ Spinning
  /\ slipped' = ~Waiting
  /\ RxCb([cr    |-> sensor.left = 0,
           text  |-> IF sensor.said < BANNER THEN "banner" ELSE "measure",
           fresh |-> TRUE])
  /\ LET said == IF sensor.said < BANNER THEN sensor.said + 1 ELSE BANNER
     IN  sensor' = IF sensor.left = 0
                   THEN [sensor EXCEPT !.said = said, !.left = Length(said)]
                   ELSE [sensor EXCEPT !.left = @ - 1]
  /\ overrun' = (overrun \/ (pc # "send" /\ Len(ring) = RING))
  /\ UNCHANGED <<main, mutex, pc, decompte, val>>

-----------------------------------------------------------------------------
(* The printer thread.                                                     *)

\* mutex_lock, then the loop begins with the sensor powered down.
Lock ==
  /\ pc = "lock" /\ mutex = "free"
  /\ mutex' = "printer"
  /\ pc' = "off"
  /\ UNCHANGED <<main, ring, msgs, decompte, val, slipped, sensor, overrun,
                 torn>>

\* SEND_PERIOD is over: index = 0 and the sensor is powered up.  What is left
\* in the buffer is from now on the past.
PowerUp ==
  /\ pc = "off" /\ pc' = "receive"
  /\ val' = << >>
  /\ ring' = [i \in DOMAIN ring |-> [ring[i] EXCEPT !.fresh = FALSE]]
  /\ sensor' = [on |-> TRUE, said |-> 0, left |-> Length(0)]
  /\ slipped' = FALSE /\ overrun' = FALSE
  /\ UNCHANGED <<main, mutex, msgs, decompte, torn>>

Receive ==
  /\ pc = "receive" /\ msgs > 0
  /\ msgs' = msgs - 1
  /\ pc' = "get"
  /\ UNCHANGED <<main, mutex, ring, decompte, val, slipped, sensor, overrun,
                 torn>>

\* Fault: no sentence is thrown away.
KeepAll(c) ==
  IF c.cr THEN decompte' = decompte + 1 /\ UNCHANGED val
          ELSE val' = Append(val, c) /\ UNCHANGED decompte

\* Fault: sentences are kept only once all are read.
KeepNone(c) ==
  IF c.cr THEN decompte' = decompte + 1 /\ UNCHANGED val
          ELSE /\ val' = IF decompte > TOTAL THEN Append(val, c) ELSE val
               /\ UNCHANGED decompte

\* A carriage return is counted, another byte kept if it comes late enough.
Keep(c) ==
  IF c.cr THEN decompte' = decompte + 1 /\ UNCHANGED val
          ELSE /\ val' = IF decompte > DISCARD THEN Append(val, c) ELSE val
               /\ UNCHANGED decompte

\* The end of the inner loop, and of the outer one.
AfterByte(c) ==
  pc' = IF ~c.cr THEN "get" ELSE IF decompte' < TOTAL THEN "receive" ELSE "send"

\* ringbuffer_get_one: -1, kept as a byte, when the buffer is empty.
GetOne ==
  /\ pc = "get" /\ ~Smashed
  /\ LET c == IF ring = << >> THEN Nothing ELSE Head(ring)
     IN  /\ ring' = IF ring = << >> THEN ring ELSE Tail(ring)
         /\ Keep(c) /\ AfterByte(c)
  /\ slipped' = IF pc' = "send" THEN FALSE ELSE slipped
  /\ UNCHANGED <<main, mutex, msgs, sensor, overrun, torn>>

\* Fault: the count of sentences is not reset.
ReportKeepsCount ==
  /\ pc = "send" /\ pc' = "off"
  /\ val' = << >>
  /\ sensor' = [on |-> FALSE, said |-> 0, left |-> 0]
  /\ slipped' = FALSE
  /\ UNCHANGED <<main, mutex, ring, msgs, decompte, overrun, torn>>

\* semtech_loramac_send(val, index - 1) returns, with or without success; the
\* sensor wrote all the while, and is now powered down.
Report ==
  /\ pc = "send" /\ pc' = "off"
  /\ val' = << >>
  /\ decompte' = 0
  /\ sensor' = [on |-> FALSE, said |-> 0, left |-> 0]
  /\ slipped' = FALSE
  /\ UNCHANGED <<main, mutex, ring, msgs, overrun, torn>>

Printer == Lock \/ PowerUp \/ Receive \/ GetOne \/ Report
Main == Setup \/ Joined \/ JoinFailed

\* After a failed join nothing happens any more, nor does the model go on once
\* val is smashed.
Stopped == main = "returned" \/ Smashed

Idle == Stopped /\ UNCHANGED vars

Next == Main \/ Printer \/ SensorWrites \/ Idle

Spec == Init /\ [][Next]_vars

Fairness == WF_vars(Main) /\ WF_vars(Printer) /\ WF_vars(SensorWrites)

FairSpec == Spec /\ Fairness

-----------------------------------------------------------------------------
(* Properties.                                                             *)

TypeOK ==
  /\ main \in {"init", "joining", "asleep", "returned"}
  /\ mutex \in {"free", "main", "printer"}
  /\ pc \in {"absent", "lock", "off", "receive", "get", "send"}
  /\ ring \in Seq(Byte)
  /\ Len(ring) <= IF pc = "get" /\ slipped THEN RING + 1 ELSE RING
  /\ msgs \in 0..QUEUE
  /\ decompte \in 0..TOTAL
  /\ val \in Seq(Byte \cup {Nothing})
  /\ slipped \in BOOLEAN /\ overrun \in BOOLEAN /\ torn \in BOOLEAN
  /\ sensor \in [on : BOOLEAN, said : 0..BANNER, left : 0..(BLEN + MLEN)]

\* For each message taken there is a carriage return in the buffer, although
\* the buffer forgets its oldest bytes, an interrupt in ringbuffer_get_one loses
\* a byte and the queue its newest messages: the inner loop, which only a
\* carriage return ends, never runs on an empty buffer filling val with -1.  An
\* interrupt that tears the buffer is the one thing that can bring it there.
MessageHasSentence ==
  pc = "get" /\ ~torn => \E i \in DOMAIN ring : ring[i].cr

\* The sentences kept, whole or cut, fit val, unless the buffer was torn.
ValFits == ~torn => ~Smashed

\* Something was kept when it is sent, so the length index - 1, which becomes
\* a uint8_t, is not negative, unless the buffer overflowed while it was read
\* (then only the carriage returns of the last sentences may be left) or torn.
LengthNotNegative == pc = "send" /\ ~overrun /\ ~torn => index >= 1

\* Once main has joined, the station reports again and again, even with a torn
\* buffer, as long as the printer does not write past the end of val.
ReportsForever == main = "asleep" ~> Smashed \/ (pc = "send" /\ <>(pc = "off"))

-----------------------------------------------------------------------------
(* What the comments say.                                                  *)

\* "throw away initial sentence (brand/model)", "get the right sentences": what
\* is sent was measured since the sensor was powered up.
RightSentences ==
  pc = "send" /\ ~torn => \A i \in DOMAIN val : val[i].text = "measure" /\ val[i].fresh

=============================================================================
