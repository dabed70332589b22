------------------------------ MODULE GpsBase ------------------------------
(***************************************************************************)
(* The base station of lora_GPS/main.c (built without RXROVER).            *)
(*                                                                         *)
(* The GNSS receiver writes a burst of bytes on the serial line every      *)
(* second.  _rstx_thread, which preempts main, appends each byte to        *)
(* message and counts it in compteurin.  Main samples compteurin every     *)
(* 25.6 ms; once it has not changed from one sample to the next it sends   *)
(* message in packets of QUEUE bytes and a shorter last one, counting      *)
(* compteurin down.  Nothing locks compteurin: the mutexes are commented   *)
(* out.                                                                    *)
(*                                                                         *)
(* A byte is its number in the burst.                                      *)
(***************************************************************************)
EXTENDS Integers, Sequences

CONSTANTS
  BUFSIZE,   \* size of message
  QUEUE,     \* SX127X_LORA_MSG_QUEUE, the bytes of a packet
  Sizes      \* the lengths a burst may have

ASSUMPTION BaseAssumption ==
  /\ QUEUE \in Nat \ {0}
  /\ BUFSIZE \in Nat \ {0}
  /\ Sizes \subseteq 1..BUFSIZE

VARIABLES
  pc,             \* where main is
  compteurin,     \* bytes counted and not yet sent, shared with the thread
  oldcompteurin,  \* compteurin at the last sample
  indice,         \* where the next packet begins in message
  tmp,            \* compteurin as read by an unfinished compteurin -= QUEUE
  message,        \* the buffer
  busy,           \* the radio transmits
  due,            \* bytes of the burst still to come
  got,            \* bytes of the burst received
  arrived,        \* a byte has come since the last sample
  paused,         \* the environment: a burst may pause for longer than a sample
  fresh,          \* history: oldcompteurin was zero as the burst began
  sent,           \* history: bytes of the burst put on the air
  garbled         \* history: one of them was not the next of the burst

mainVars == <<pc, oldcompteurin, indice, tmp>>
lineVars == <<due, got, paused, fresh>>
airVars  == <<busy, sent, garbled>>
vars     == <<mainVars, compteurin, message, lineVars, arrived, airVars>>

Location == {"sample", "test", "full", "read", "write", "last", "clear", "loop"}
Garbage  == 0
Slot     == 0..(BUFSIZE - 1)

-----------------------------------------------------------------------------
(* The serial line and the thread that reads it.                           *)

\* A burst begins, after the previous one has been sent.
BurstStarts ==
  /\ pc = "sample" /\ compteurin = 0 /\ due = 0
  /\ due' \in Sizes
  /\ got' = 0 /\ sent' = 0 /\ garbled' = FALSE
  /\ fresh' = (oldcompteurin = 0)
  /\ UNCHANGED <<mainVars, compteurin, message, busy, paused, arrived>>

\* _rstx_thread: stdio_read returns a byte.  The thread runs to its next read
\* before main goes on.
ReadByte ==
  /\ due > 0
  /\ due' = due - 1 /\ got' = got + 1
  /\ IF compteurin < BUFSIZE
     THEN /\ message' = [message EXCEPT ![compteurin] = got + 1]
          /\ compteurin' = compteurin + 1
     ELSE UNCHANGED <<message, compteurin>>
  /\ arrived' = TRUE
  /\ UNCHANGED <<mainVars, paused, fresh, airVars>>

-----------------------------------------------------------------------------
(* Main.                                                                   *)

\* Fault: one silent sample is not waited for.
SampleOnce ==
  /\ pc = "sample"
  /\ due > 0 => arrived \/ paused
  /\ IF compteurin > 0 THEN pc' = "test" /\ indice' = 0 ELSE UNCHANGED <<pc, indice>>
  /\ arrived' = FALSE
  /\ UNCHANGED <<oldcompteurin, compteurin, tmp, message, lineVars, airVars>>

\* The periodic wakeup.  A burst that does not pause brings a byte in each
\* period until it ends.
Sample ==
  /\ pc = "sample"
  /\ due > 0 => arrived \/ paused
  /\ IF compteurin > 0 /\ compteurin = oldcompteurin
     THEN pc' = "test" /\ indice' = 0 /\ UNCHANGED oldcompteurin
     ELSE /\ oldcompteurin' = IF compteurin > 0 THEN compteurin ELSE oldcompteurin
          /\ UNCHANGED <<pc, indice>>
  /\ arrived' = FALSE
  /\ UNCHANGED <<compteurin, tmp, message, lineVars, airVars>>

\* Fault: packets are always full.
TestNever ==
  /\ pc = "test" /\ pc' = "full"
  /\ UNCHANGED <<oldcompteurin, indice, tmp, compteurin, message, lineVars,
                 arrived, airVars>>

\* if (compteurin >= SX127X_LORA_MSG_QUEUE)
Test ==
  /\ pc = "test"
  /\ pc' = IF compteurin >= QUEUE THEN "full" ELSE "last"
  /\ UNCHANGED <<oldcompteurin, indice, tmp, compteurin, message, lineVars,
                 arrived, airVars>>

ByteAt(k) == IF k \in Slot THEN message[k] ELSE Garbage

\* send_cmd: zero, and the packet is on the air, unless the radio is busy; the
\* call is repeated until then.
Packet(len) ==
  /\ ~busy
  /\ busy' = TRUE
  /\ sent' = sent + len
  /\ garbled' = (garbled \/ \E i \in 1..len : ByteAt(indice + i - 1) # sent + i)

SendFull ==
  /\ pc = "full" /\ pc' = "read"
  /\ Packet(QUEUE)
  /\ indice' = indice + QUEUE
  /\ UNCHANGED <<oldcompteurin, tmp, compteurin, message, lineVars, arrived>>

\* compteurin -= SX127X_LORA_MSG_QUEUE reads, then writes.
ReadCounter ==
  /\ pc = "read" /\ pc' = "write"
  /\ tmp' = compteurin
  /\ UNCHANGED <<oldcompteurin, indice, compteurin, message, lineVars,
                 arrived, airVars>>

\* Fault: the count is written back as it was read.
WriteUnchanged ==
  /\ pc = "write" /\ pc' = "loop"
  /\ compteurin' = tmp
  /\ tmp' = 0
  /\ UNCHANGED <<oldcompteurin, indice, message, lineVars, arrived, airVars>>

\* Fault: the count is cleared after the first packet.
WriteZero ==
  /\ pc = "write" /\ pc' = "loop"
  /\ compteurin' = 0 /\ tmp' = 0
  /\ UNCHANGED <<oldcompteurin, indice, message, lineVars, arrived, airVars>>

WriteCounter ==
  /\ pc = "write" /\ pc' = "loop"
  /\ compteurin' = tmp - QUEUE
  /\ tmp' = 0
  /\ UNCHANGED <<oldcompteurin, indice, message, lineVars, arrived, airVars>>

SendLast ==
  /\ pc = "last" /\ pc' = "clear"
  /\ Packet(compteurin)
  /\ UNCHANGED <<oldcompteurin, indice, tmp, compteurin, message, lineVars,
                 arrived>>

\* compteurin = 0; oldcompteurin = 0 -- after a short last packet only.
Clear ==
  /\ pc = "clear" /\ pc' = "loop"
  /\ compteurin' = 0 /\ oldcompteurin' = 0
  /\ UNCHANGED <<indice, tmp, message, lineVars, arrived, airVars>>

\* Fault: >= for >, which an unsigned count never fails.
LoopAlways ==
  /\ pc = "loop"
  /\ pc' = IF compteurin >= 0 THEN "test" ELSE "sample"
  /\ UNCHANGED <<oldcompteurin, indice, tmp, compteurin, message, lineVars,
                 arrived, airVars>>

\* while (compteurin > 0)
Loop ==
  /\ pc = "loop"
  /\ pc' = IF compteurin > 0 THEN "test" ELSE "sample"
  /\ UNCHANGED <<oldcompteurin, indice, tmp, compteurin, message, lineVars,
                 arrived, airVars>>

Main ==
  \/ Sample \/ Test \/ SendFull \/ ReadCounter \/ WriteCounter
  \/ SendLast \/ Clear \/ Loop

\* _event_cb: TX_COMPLETE or TX_TIMEOUT, the radio goes to sleep.
TxEnds ==
  /\ busy /\ busy' = FALSE
  /\ UNCHANGED <<mainVars, compteurin, message, lineVars, arrived, sent, garbled>>

Init ==
  /\ pc = "sample"
  /\ compteurin = 0 /\ oldcompteurin = 0 /\ indice = 0 /\ tmp = 0
  /\ message = [k \in Slot |-> Garbage]
  /\ busy = FALSE
  /\ due = 0 /\ got = 0 /\ arrived = FALSE /\ paused \in BOOLEAN
  /\ fresh = TRUE /\ sent = 0 /\ garbled = FALSE

Next == Main \/ ReadByte \/ BurstStarts \/ TxEnds

Spec == Init /\ [][Next]_vars

\* The periodic timer fires, the thread reads what comes, the bursts arrive in
\* full, and the radio's interrupt ends each transmission.
FairSpec == Spec /\ WF_vars(Main) /\ WF_vars(ReadByte) /\ WF_vars(TxEnds)

-----------------------------------------------------------------------------
(* Properties.                                                             *)

\* compteurin, an unsigned int that two threads write without a lock, never
\* wraps below zero nor exceeds the buffer, whatever main's read, subtraction
\* and write are interleaved with; nor does the packet taken before.
TypeOK ==
  /\ pc \in Location
  /\ compteurin \in 0..BUFSIZE /\ oldcompteurin \in 0..BUFSIZE
  /\ indice \in Nat /\ tmp \in 0..BUFSIZE
  /\ message \in [Slot -> Nat]
  /\ busy \in BOOLEAN /\ arrived \in BOOLEAN
  /\ paused \in BOOLEAN /\ fresh \in BOOLEAN
  /\ due \in Nat /\ got \in Nat
  /\ sent \in Nat /\ garbled \in BOOLEAN

\* What the code relies on: a burst has no pause, and main had cleared
\* oldcompteurin when it began.
Steady == ~paused /\ fresh

\* What goes on the air is what came on the line, in order and once.
SentAsReceived == Steady => ~garbled

\* The packets are read inside message.
PacketInBuffer ==
  /\ pc = "full" /\ Steady => indice + QUEUE <= BUFSIZE
  /\ pc = "last" /\ Steady => indice + compteurin <= BUFSIZE

\* Once main is back to sampling a burst it has counted out has left entirely.
BurstSentWhole ==
  Steady /\ pc = "sample" /\ compteurin = 0 /\ due = 0 => sent = got

\* Every burst is sent to its end.
BurstLeaves == due > 0 ~> due = 0 /\ compteurin = 0 /\ pc = "sample"

-----------------------------------------------------------------------------
(* What the comments say.                                                  *)

\* "but long silence since": main does not begin to send in a period that has
\* brought a byte and leaves others to come, when bursts do not pause.
LongSilence ==
  [][~paused /\ pc = "sample" /\ pc' = "test" => ~(arrived /\ due > 0)]_vars
=============================================================================
