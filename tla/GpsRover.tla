------------------------------ MODULE GpsRover ------------------------------
(***************************************************************************)
(* The rover of lora_GPS/main.c (built with RXROVER).                      *)
(*                                                                         *)
(* The radio's interrupt appends each packet to message and adds its       *)
(* length to indexin.  _rsrx_thread samples indexin every 51.2 ms; once it *)
(* has not changed from one sample to the next the thread writes message,  *)
(* at most LIMIT bytes of it, to the serial line and puts indexin back to  *)
(* zero.  Neither locks indexin: the mutexes are commented out.            *)
(*                                                                         *)
(* A packet is its number in the burst; indexin counts packets.            *)
(***************************************************************************)
EXTENDS Integers, Sequences

CONSTANTS
  LIMIT,   \* the 1432 bytes written at most, in packets
  Sizes    \* the lengths a burst may have, in packets

ASSUMPTION RoverAssumption ==
  /\ LIMIT \in Nat \ {0}
  /\ Sizes \subseteq Nat \ {0}

VARIABLES
  pc,          \* where _rsrx_thread is
  indexin,     \* packets in message
  oldindexin,  \* indexin at the last sample
  message,     \* what has been stored, by place; leftovers beyond indexin
  count,       \* packets being written to the serial line
  due,         \* packets of the burst still to come
  size,        \* the length of the burst
  uniform,     \* the environment: all bursts have the same length
  arrived,     \* a packet has come since the last sample
  output       \* history: what has been written of the burst

lineVars == <<due, size, uniform>>
vars == <<pc, indexin, oldindexin, message, count, lineVars, arrived, output>>

Location == {"sample", "limit", "write", "writing", "restart"}

-----------------------------------------------------------------------------
(* The air and the interrupt.                                              *)

\* The base begins a burst, a second after the last one, which is written.
BurstStarts ==
  /\ due = 0 /\ pc = "sample" /\ indexin = 0
  /\ due' \in IF uniform /\ size > 0 THEN {size} ELSE Sizes
  /\ size' = due'
  /\ output' = << >>
  /\ UNCHANGED <<pc, indexin, oldindexin, message, count, uniform, arrived>>

\* Fault: each packet is stored at the start.
ReceiveAtStart ==
  /\ due > 0
  /\ due' = due - 1
  /\ message' = <<size - due + 1>> \o SubSeq(message, 2, indexin) \o <<0>>
                  \o SubSeq(message, indexin + 2, Len(message))
  /\ indexin' = indexin + 1
  /\ arrived' = TRUE
  /\ UNCHANGED <<pc, oldindexin, count, size, uniform, output>>

\* Fault: the length is added for both calls of recv.
ReceiveTwice ==
  /\ due > 0
  /\ due' = due - 1
  /\ message' = SubSeq(message, 1, indexin) \o <<size - due + 1, 0>>
  /\ indexin' = indexin + 2
  /\ arrived' = TRUE
  /\ UNCHANGED <<pc, oldindexin, count, size, uniform, output>>

\* _event_cb, RX_COMPLETE: recv into &message[indexin], indexin += len.  The
\* interrupt may come at any point of the thread.
Receive ==
  /\ due > 0
  /\ due' = due - 1
  /\ message' = SubSeq(message, 1, indexin) \o <<size - due + 1>>
                  \o SubSeq(message, indexin + 2, Len(message))
  /\ indexin' = indexin + 1
  /\ arrived' = TRUE
  /\ UNCHANGED <<pc, oldindexin, count, size, uniform, output>>

-----------------------------------------------------------------------------
(* _rsrx_thread.                                                           *)

\* Fault: what has come is written at once.
SampleOnce ==
  /\ pc = "sample"
  /\ due > 0 => arrived
  /\ pc' = IF indexin > 0 THEN "limit" ELSE pc
  /\ arrived' = FALSE
  /\ UNCHANGED <<indexin, oldindexin, message, count, lineVars, output>>

\* Fault: the sample is not remembered.
SampleForgets ==
  /\ pc = "sample"
  /\ due > 0 => arrived
  /\ pc' = IF indexin > 0 /\ oldindexin = indexin THEN "limit" ELSE pc
  /\ arrived' = FALSE
  /\ UNCHANGED <<indexin, oldindexin, message, count, lineVars, output>>

\* The periodic wakeup.  A packet takes less than a period on the air, so a
\* burst brings at least one in each period until it ends.
Sample ==
  /\ pc = "sample"
  /\ due > 0 => arrived
  /\ IF indexin > 0 /\ oldindexin = indexin
     THEN pc' = "limit" /\ UNCHANGED oldindexin
     ELSE /\ oldindexin' = IF indexin > 0 THEN indexin ELSE oldindexin
          /\ UNCHANGED pc
  /\ arrived' = FALSE
  /\ UNCHANGED <<indexin, message, count, lineVars, output>>

\* Fault: no limit.
NoLimit ==
  /\ pc = "limit" /\ pc' = "write"
  /\ UNCHANGED <<indexin, oldindexin, message, count, lineVars, arrived, output>>

\* if (indexin > 1432) indexin = 1432
Limit ==
  /\ pc = "limit" /\ pc' = "write"
  /\ indexin' = IF indexin > LIMIT THEN LIMIT ELSE indexin
  /\ UNCHANGED <<oldindexin, message, count, lineVars, arrived, output>>

\* stdio_write(message, indexin) takes its length as it is called.
WriteBegins ==
  /\ pc = "write" /\ pc' = "writing"
  /\ count' = indexin
  /\ UNCHANGED <<indexin, oldindexin, message, lineVars, arrived, output>>

WriteEnds ==
  /\ pc = "writing" /\ pc' = "restart"
  /\ output' = output \o SubSeq(message, 1, count)
  /\ count' = 0
  /\ UNCHANGED <<indexin, oldindexin, message, lineVars, arrived>>

\* indexin = 0: whatever has come since goes with it.
Restart ==
  /\ pc = "restart" /\ pc' = "sample"
  /\ indexin' = 0
  /\ UNCHANGED <<oldindexin, message, count, lineVars, arrived, output>>

Thread == Sample \/ Limit \/ WriteBegins \/ WriteEnds \/ Restart

Init ==
  /\ pc = "sample"
  /\ indexin = 0 /\ oldindexin = 0 /\ message = << >> /\ count = 0
  /\ due = 0 /\ size = 0 /\ uniform \in BOOLEAN /\ arrived = FALSE
  /\ output = << >>

Next == Thread \/ Receive \/ BurstStarts

Spec == Init /\ [][Next]_vars

\* The timer fires, the serial line drains, a burst comes to its end.
FairSpec == Spec /\ WF_vars(Thread) /\ WF_vars(Receive)

-----------------------------------------------------------------------------
(* Properties.                                                             *)

\* The types; indexin, which bounds nothing in the code, counts no packet that
\* has not come, so a burst shorter than message stays inside it.
TypeOK ==
  /\ pc \in Location
  /\ indexin \in 0..size /\ oldindexin \in Nat /\ count \in Nat
  /\ message \in Seq(Nat) /\ output \in Seq(Nat)
  /\ due \in 0..size /\ size \in Sizes \cup {0}
  /\ uniform \in BOOLEAN /\ arrived \in BOOLEAN

Least(a, b) == IF a < b THEN a ELSE b

\* When all bursts have one length, the serial line carries each of them whole,
\* in order, up to the limit, although nothing holds the interrupt off.
BurstWrittenWhole ==
  uniform /\ pc = "sample" /\ indexin = 0 /\ due = 0
    => output = [i \in 1..Least(size, LIMIT) |-> i]

\* Of bursts of any lengths packets may be missing, when a burst is taken for
\* complete too early, but none is written twice or before an earlier one:
\* what the interrupt stores during a write never mixes with what is written.
WritesGoForward ==
  \A i, j \in DOMAIN output : i < j => output[i] < output[j]

\* And putting indexin back to zero forgets no packet that came meanwhile.
NoPacketForgotten ==
  [][uniform /\ pc = "restart" /\ pc' = "sample"
      => due = 0 /\ indexin = Least(size, LIMIT)]_vars

\* The limit holds for the length the write is called with, which is read again
\* after it was limited.
WriteLimited == uniform => count <= LIMIT

\* Every burst is written to its end, and the buffer is free for the next.
BurstComesOut == due > 0 ~> due = 0 /\ indexin = 0

-----------------------------------------------------------------------------
(* What the comments say.                                                  *)

\* "still receiving": message is not written in a period that has brought a
\* packet and leaves others to come.
StillReceiving ==
  [][pc = "sample" /\ pc' = "limit" => ~(arrived /\ due > 0)]_vars
=============================================================================
