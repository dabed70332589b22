------------------------------ MODULE Listener ------------------------------
(***************************************************************************)
(* The listener, lora_relay/ListenOnly/main.c: it writes in hexadecimal    *)
(* every frame it hears.                                                   *)
(*                                                                         *)
(* The receive thread preempts main and puts a frame in message and len;   *)
(* main, once it has seen flag, reads both byte by byte.  Nothing keeps    *)
(* the thread from replacing them meanwhile.  The listener never sends, so *)
(* the TX cases of its callback are not reached.                           *)
(*                                                                         *)
(* Frames are numbered in the order they are heard; a byte of message is   *)
(* the number of the frame that wrote it.                                  *)
(***************************************************************************)
EXTENDS Integers, Sequences

CONSTANTS
  TEMP,       \* size of temp, the line being written
  MaxLen,     \* the longest frame
  MaxFrames   \* the frames of a run (a bound of the model)

ASSUMPTION ListenerAssumption ==
  /\ TEMP \in Nat \ {0}
  /\ MaxLen \in Nat
  /\ MaxFrames \in Nat

VARIABLES
  pc,         \* where main is
  flag,       \* set by the callback, cleared by main
  message,    \* the buffer
  len,        \* length of the last frame
  k,          \* main's index in message
  line,       \* the bytes written to temp
  used,       \* the characters of temp they take
  counted,    \* len, as printed after the line
  listening,  \* the radio receives
  heard,      \* history: number of the last frame
  lengths,    \* history: the length of each
  seen        \* history: number of the last frame when main saw flag

mainVars   == <<pc, k, line, used, counted, seen>>
sharedVars == <<flag, message, len>>
airVars    == <<listening, heard, lengths>>
vars       == <<mainVars, sharedVars, airVars>>

Location == {"boot", "poll", "loop", "byte", "print", "clear", "overrun", "halt"}
Slot     == 0..MaxLen   \* SX126X_MAX_PAYLOAD_LEN exceeds the longest frame
Number   == 0..MaxFrames

-----------------------------------------------------------------------------
(* The receive thread and its callback.                                    *)

\* Fault: a shorter frame leaves the length of a longer one.
ReceiveLonger(n) ==
  /\ listening /\ heard < MaxFrames
  /\ len' = IF n > len THEN n ELSE len
  /\ message' = [j \in Slot |-> IF j < n THEN heard + 1 ELSE message[j]]
  /\ flag' = 1
  /\ heard' = heard + 1
  /\ lengths' = [lengths EXCEPT ![heard + 1] = n]
  /\ UNCHANGED <<mainVars, listening>>

\* NETDEV_EVENT_RX_COMPLETE: the frame goes to message whatever main is doing,
\* and the radio listens again.
Receive(n) ==
  /\ listening /\ heard < MaxFrames
  /\ len' = n
  /\ message' = [j \in Slot |-> IF j < n THEN heard + 1 ELSE message[j]]
  /\ flag' = 1
  /\ heard' = heard + 1
  /\ lengths' = [lengths EXCEPT ![heard + 1] = n]
  /\ UNCHANGED <<mainVars, listening>>

\* The default case, a damaged frame: the radio is left in standby.
Unexpected ==
  /\ listening /\ listening' = FALSE
  /\ UNCHANGED <<mainVars, sharedVars, heard, lengths>>

-----------------------------------------------------------------------------
(* Main.                                                                   *)

\* The radio is set up, the thread created, and the radio made to listen.
Boot ==
  /\ pc = "boot" /\ pc' = "poll"
  /\ listening' = TRUE
  /\ UNCHANGED <<k, line, used, counted, seen, sharedVars, heard, lengths>>

\* One of the two fails: main returns.
BootFails ==
  /\ pc = "boot" /\ pc' = "halt"
  /\ UNCHANGED <<k, line, used, counted, seen, sharedVars, airVars>>

\* Fault: temp is declared once, outside the loop.
PollKeepsTemp ==
  /\ pc = "poll" /\ flag # 0
  /\ pc' = "loop"
  /\ k' = 0
  /\ seen' = heard
  /\ UNCHANGED <<line, used, counted, sharedVars, airVars>>

\* char temp[256]=""; if (flag!=0), and k = 0.
Poll ==
  /\ pc = "poll" /\ flag # 0
  /\ pc' = "loop"
  /\ k' = 0 /\ line' = <<>> /\ used' = 0
  /\ seen' = heard
  /\ UNCHANGED <<counted, sharedVars, airVars>>

\* Fault: <= for <.
TestPastEnd ==
  /\ pc = "loop"
  /\ pc' = IF k <= len THEN "byte" ELSE "print"
  /\ UNCHANGED <<k, line, used, counted, seen, sharedVars, airVars>>

\* k < (int)len, len being read again for every byte.
Test ==
  /\ pc = "loop"
  /\ pc' = IF k < len THEN "byte" ELSE "print"
  /\ UNCHANGED <<k, line, used, counted, seen, sharedVars, airVars>>

\* sprintf("%x") gives one digit or two, strcat appends them and a zero.  What
\* follows when they no longer fit in temp is undefined; main is not followed
\* further.
WriteByte ==
  /\ pc = "byte"
  /\ \E digits \in {1, 2} :
       /\ used' = used + digits
       /\ pc' = IF used + digits < TEMP THEN "loop" ELSE "overrun"
  /\ line' = Append(line, message[k])
  /\ k' = k + 1
  /\ UNCHANGED <<counted, seen, sharedVars, airVars>>

\* printf("%s (%d bytes)\n", temp, (int)len)
PrintLine ==
  /\ pc = "print" /\ pc' = "clear"
  /\ counted' = len
  /\ UNCHANGED <<k, line, used, seen, sharedVars, airVars>>

\* Fault: the flag stays up.
ClearNothing ==
  /\ pc = "clear" /\ pc' = "poll"
  /\ UNCHANGED <<k, line, used, counted, seen, sharedVars, airVars>>

\* flag=0: a frame heard since Poll is forgotten with it.
ClearFlag ==
  /\ pc = "clear" /\ pc' = "poll"
  /\ flag' = 0
  /\ UNCHANGED <<k, line, used, counted, seen, message, len, airVars>>

Main ==
  \/ Boot \/ BootFails \/ Poll \/ Test \/ WriteByte \/ PrintLine \/ ClearFlag

Init ==
  /\ pc = "boot"
  /\ flag = 0 /\ len = 0 /\ message = [j \in Slot |-> 0]
  /\ k = 0 /\ line = <<>> /\ used = 0 /\ counted = 0
  /\ listening = FALSE
  /\ heard = 0 /\ lengths = [n \in 1..MaxFrames |-> 0] /\ seen = 0

Next ==
  \/ Main
  \/ \E n \in 0..MaxLen : Receive(n)
  \/ Unexpected

Spec == Init /\ [][Next]_vars

\* Main runs when the receive thread has nothing to do.  Nobody need send.
FairSpec == Spec /\ WF_vars(Main)

-----------------------------------------------------------------------------
(* Properties.                                                             *)

TypeOK ==
  /\ pc \in Location
  /\ flag \in {0, 1} /\ len \in 0..MaxLen
  /\ message \in [Slot -> Number]
  /\ k \in Slot /\ line \in Seq(Number) /\ used \in Nat
  /\ counted \in 0..MaxLen
  /\ listening \in BOOLEAN
  /\ heard \in Number /\ lengths \in [1..MaxFrames -> 0..MaxLen]
  /\ seen \in Number

\* temp, whose size nothing checks, overflows only if some frame alone is too
\* long for it, two digits a byte: a line that mixes frames, because message
\* and len are replaced while it is written, is no longer than the longest.
TempHolds == pc = "overrun" => \E n \in 1..heard : 2 * lengths[n] >= TEMP

\* A line has no byte older than the frame main saw, and never goes back from
\* a frame to an earlier one, whatever is heard while main writes it and
\* whatever longer frames have left in message.
LineGoesForward ==
  /\ \A i \in 1..Len(line) : seen <= line[i]
  /\ \A i, j \in 1..Len(line) : i <= j => line[i] <= line[j]

\* If nothing is heard while main writes a line, the line is the frame, every
\* byte of it once, with its length.
QuietLineWhole ==
  pc = "clear" /\ heard = seen
    => counted = lengths[seen] /\ line = [i \in 1..counted |-> seen]

\* A frame heard makes main finish a line and look again, although the length
\* that main counts up to changes meanwhile.
FlagServed == flag = 1 ~> flag = 0 \/ pc = "overrun"
=============================================================================
