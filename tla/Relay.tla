------------------------------- MODULE Relay -------------------------------
(***************************************************************************)
(* The LoRa relay firmware, lora_relay/Relay/main.c.                       *)
(*                                                                         *)
(* Three actors share the globals of the program: the main loop, the       *)
(* receive thread, which runs one priority above it and executes the       *)
(* radio's event callback, and the watchdog.  The radio and the other      *)
(* stations are the environment.  The relay serves two legs in turn: it    *)
(* hears one frame of an endpoint (plain I/Q), sends it again, then        *)
(* inverts I/Q to hear one frame of the gateway and sends that one.        *)
(*                                                                         *)
(* Time is counted in ticks, a tick being shorter than the shortest frame  *)
(* (0.6 s at SPREADING_FACTOR 12) and longer than the code between two     *)
(* waits of the main loop, so a tick passes only where main loops.         *)
(***************************************************************************)
EXTENDS Integers

CONSTANTS
  WDT,        \* the 8000 ms of wdt_setup_reboot, in ticks
  MaxAir,     \* the longest time a frame spends on the air, in ticks
  WAIT,       \* the longest time one call of wait(22) takes, in ticks
  Noisy       \* frames may reach the radio damaged, transmissions time out

\* A frame, and one wait(22) after it, end before the watchdog does.
ASSUMPTION RelayAssumption ==
  /\ WDT \in Nat /\ MaxAir \in Nat \ {0} /\ WAIT \in Nat
  /\ MaxAir + WAIT < WDT
  /\ Noisy \in BOOLEAN

VARIABLES
  pc,                     \* where main is
  flagMessageRecv,        \* set by the callback, cleared by main
  flagTxDone,             \* set by the callback, cleared by main
  message,                \* the last frame received: its I/Q and time on air
  forwarded,              \* history: message has been sent
  iq_inverted,            \* main's idea of the I/Q setting
  transmissionDirection,  \* the leg being served
  nap,                    \* ticks left in the current wait(22)
  radio,                  \* "standby", "rx" or "tx"
  chipIq,                 \* the I/Q setting of the radio
  hearing,                \* the frame the radio demodulates, its time in left
  left,                   \* ticks before the frame heard, or sent, ends
  irq,                    \* the interrupt posted to the receive thread
  wdt                     \* ticks before the watchdog bites, or Off

mainVars  == <<pc, iq_inverted, transmissionDirection, nap>>
sharedVars == <<flagMessageRecv, flagTxDone, message, forwarded>>
radioVars == <<radio, chipIq, hearing, left, irq>>
vars      == <<mainVars, sharedVars, radioVars, wdt>>

FROM_ENDPOINT == "endpoint"
FROM_GATEWAY  == "gateway"
Leg           == {FROM_ENDPOINT, FROM_GATEWAY}

DISABLE == FALSE   \* NETOPT_DISABLE: the polarity endpoints send with
ENABLE  == TRUE    \* NETOPT_ENABLE: the polarity the gateway sends with

Frame   == [iq : BOOLEAN, air : 1..MaxAir]
NoFrame == [iq |-> DISABLE, air |-> 0]
None    == "none"
Off     == -1

Location == {"boot", "poll", "configure", "arm", "send", "kick", "test",
             "wait", "flip", "reprogram", "clear", "halt"}
Event    == {"rx_complete", "rx_error", "tx_complete", "tx_timeout"}

\* The I/Q setting main pairs with a leg.
PolarityOf(leg) == IF leg = FROM_GATEWAY THEN ENABLE ELSE DISABLE

Other(leg) == IF leg = FROM_ENDPOINT THEN FROM_GATEWAY ELSE FROM_ENDPOINT

-----------------------------------------------------------------------------
(* Boot and reboot.                                                        *)

\* What reset leaves: the globals as the linker set them, main's locals not
\* yet assigned (given the values lines 304 and 324 will), the radio asleep.
Init ==
  /\ pc = "boot"
  /\ flagMessageRecv = 0 /\ flagTxDone = 0
  /\ message = NoFrame /\ forwarded = TRUE
  /\ iq_inverted = DISABLE /\ transmissionDirection = FROM_ENDPOINT
  /\ nap = 0
  /\ radio = "standby" /\ chipIq = DISABLE
  /\ hearing = NoFrame /\ left = 0 /\ irq = None
  /\ wdt = Off

\* The radio is initialised, the receive thread created, the polarity set and
\* the radio made to listen; the main loop begins.
Boot ==
  /\ pc = "boot"
  /\ pc' = "poll"
  /\ chipIq' = iq_inverted
  /\ radio' = "rx"
  /\ UNCHANGED <<iq_inverted, transmissionDirection, nap, sharedVars,
                 hearing, left, irq, wdt>>

\* The radio or the thread could not be set up: main returns.
BootFails ==
  /\ pc = "boot"
  /\ pc' = "halt"
  /\ UNCHANGED <<iq_inverted, transmissionDirection, nap, sharedVars,
                 radioVars, wdt>>

-----------------------------------------------------------------------------
(* The main loop.  The receive thread has the higher priority: main takes  *)
(* a step only when no interrupt is posted, except that the transfer that   *)
(* changes the polarity, once started, holds the bus and ends first.  (No  *)
(* interrupt can come during the other transfers: that takes a tick.)      *)

Goto(from, to) == pc = from /\ pc' = to

\* if (flagMessageRecv != 0), and the frame printed.
Poll ==
  /\ irq = None
  /\ flagMessageRecv # 0
  /\ Goto("poll", "configure")
  /\ UNCHANGED <<iq_inverted, transmissionDirection, nap, sharedVars,
                 radioVars, wdt>>

\* The radio parameters are set again, the polarity among them.
Configure ==
  /\ irq = None
  /\ Goto("configure", "arm")
  /\ chipIq' = iq_inverted
  /\ UNCHANGED <<iq_inverted, transmissionDirection, nap, sharedVars,
                 radio, hearing, left, irq, wdt>>

\* Fault: only the leg of line 348's commented condition is guarded.
ArmGatewayOnly ==
  /\ irq = None
  /\ Goto("arm", "send")
  /\ wdt' = IF transmissionDirection = FROM_GATEWAY THEN WDT ELSE wdt
  /\ UNCHANGED <<iq_inverted, transmissionDirection, nap, sharedVars,
                 radioVars>>

\* wdt_setup_reboot(0, 8000); wdt_start(): a watchdog that already runs takes
\* the new period at once, or keeps its count until it is kicked.
Arm ==
  /\ irq = None
  /\ Goto("arm", "send")
  /\ wdt' \in IF wdt = Off THEN {WDT} ELSE {WDT, wdt}
  /\ UNCHANGED <<iq_inverted, transmissionDirection, nap, sharedVars,
                 radioVars>>

\* test_send: the driver refuses while the radio transmits, otherwise the
\* frame goes on the air and whatever the radio was hearing is lost.
Send ==
  /\ irq = None
  /\ Goto("send", "kick")
  /\ IF radio = "tx"
     THEN UNCHANGED <<radio, hearing, left, forwarded>>
     ELSE /\ radio' = "tx"
          /\ hearing' = NoFrame
          /\ left' = message.air
          /\ forwarded' = TRUE
  /\ UNCHANGED <<iq_inverted, transmissionDirection, nap, flagMessageRecv,
                 flagTxDone, message, chipIq, irq, wdt>>

\* Fault: only the leg of line 358's commented condition is kicked.
KickEndpointOnly ==
  /\ irq = None
  /\ Goto("kick", "test")
  /\ wdt' = IF wdt = Off \/ transmissionDirection = FROM_GATEWAY THEN wdt ELSE WDT
  /\ UNCHANGED <<iq_inverted, transmissionDirection, nap, sharedVars,
                 radioVars>>

\* wdt_kick(): the full period again, if the watchdog runs.
Kick ==
  /\ irq = None
  /\ Goto("kick", "test")
  /\ wdt' = IF wdt = Off THEN Off ELSE WDT
  /\ UNCHANGED <<iq_inverted, transmissionDirection, nap, sharedVars,
                 radioVars>>

\* while (flagTxDone != 1) wait(22);
TestTx ==
  /\ irq = None
  /\ IF flagTxDone = 1
     THEN Goto("test", "flip") /\ UNCHANGED nap
     ELSE Goto("test", "wait") /\ nap' = WAIT
  /\ UNCHANGED <<iq_inverted, transmissionDirection, sharedVars, radioVars,
                 wdt>>

WaitEnds ==
  /\ irq = None
  /\ Goto("wait", "test")
  /\ nap' = 0
  /\ UNCHANGED <<iq_inverted, transmissionDirection, sharedVars, radioVars,
                 wdt>>

\* Fault: the end of the last transmission is still flagged for the next.
FlipKeepsTxDone ==
  /\ irq = None
  /\ Goto("flip", "reprogram")
  /\ transmissionDirection' = Other(transmissionDirection)
  /\ iq_inverted' = PolarityOf(Other(transmissionDirection))
  /\ UNCHANGED <<nap, sharedVars, radioVars, wdt>>

\* Fault: the second branch is missing, the relay stays with the gateway.
FlipNeverBack ==
  /\ irq = None
  /\ Goto("flip", "reprogram")
  /\ flagTxDone' = 0
  /\ transmissionDirection' = FROM_GATEWAY
  /\ iq_inverted' = ENABLE
  /\ UNCHANGED <<nap, flagMessageRecv, message, forwarded, radioVars, wdt>>

\* The transmission is over; the other leg and its polarity are next.
Flip ==
  /\ irq = None
  /\ Goto("flip", "reprogram")
  /\ flagTxDone' = 0
  /\ transmissionDirection' = Other(transmissionDirection)
  /\ iq_inverted' = PolarityOf(Other(transmissionDirection))
  /\ UNCHANGED <<nap, flagMessageRecv, message, forwarded, radioVars, wdt>>

\* Fault: the polarity is left to line 346, when the next frame is relayed.
ReprogramLater ==
  /\ Goto("reprogram", "clear")
  /\ UNCHANGED <<iq_inverted, transmissionDirection, nap, sharedVars,
                 radioVars, wdt>>

\* The radio takes the new polarity.  A frame it was demodulating is lost; one
\* it has already demodulated waits for the receive thread.
Reprogram ==
  /\ Goto("reprogram", "clear")
  /\ chipIq' = iq_inverted
  /\ IF radio = "rx" /\ chipIq # iq_inverted
     THEN hearing' = NoFrame /\ left' = 0
     ELSE UNCHANGED <<hearing, left>>
  /\ UNCHANGED <<iq_inverted, transmissionDirection, nap, sharedVars,
                 radio, irq, wdt>>

\* Fault: the flag stays up.
ClearNothing ==
  /\ irq = None
  /\ Goto("clear", "poll")
  /\ UNCHANGED <<iq_inverted, transmissionDirection, nap, sharedVars,
                 radioVars, wdt>>

\* flagMessageRecv = 0: a frame received since Poll is forgotten with it.
ClearFlag ==
  /\ irq = None
  /\ Goto("clear", "poll")
  /\ flagMessageRecv' = 0
  /\ UNCHANGED <<iq_inverted, transmissionDirection, nap, flagTxDone,
                 message, forwarded, radioVars, wdt>>

Main ==
  \/ Boot \/ BootFails
  \/ Poll \/ Configure \/ Arm \/ Send \/ Kick
  \/ TestTx \/ WaitEnds \/ Flip \/ Reprogram \/ ClearFlag

-----------------------------------------------------------------------------
(* The receive thread: it takes the interrupt, and the driver calls          *)
(* _event_cb with what the radio reports.                                  *)

\* Fault: the flag counts frames.
RxCounted ==
  /\ irq = "rx_complete" /\ irq' = None
  /\ message' = hearing
  /\ forwarded' = FALSE
  /\ flagMessageRecv' = flagMessageRecv + 1
  /\ radio' = "rx" /\ hearing' = NoFrame
  /\ UNCHANGED <<mainVars, flagTxDone, chipIq, left, wdt>>

\* NETDEV_EVENT_RX_COMPLETE: the frame goes to message whatever main is doing
\* with it, and the radio listens again.
RxComplete ==
  /\ irq = "rx_complete" /\ irq' = None
  /\ message' = hearing
  /\ forwarded' = FALSE
  /\ flagMessageRecv' = 1
  /\ radio' = "rx" /\ hearing' = NoFrame
  /\ UNCHANGED <<mainVars, flagTxDone, chipIq, left, wdt>>

\* NETDEV_EVENT_TX_COMPLETE: main is told, and the radio listens again.
TxComplete ==
  /\ irq = "tx_complete" /\ irq' = None
  /\ flagTxDone' = 1
  /\ radio' = "rx"
  /\ UNCHANGED <<mainVars, flagMessageRecv, message, forwarded, chipIq,
                 hearing, left, wdt>>

\* NETDEV_EVENT_TX_TIMEOUT and the default case, a damaged frame: a line is
\* printed and nothing else is done.
Unhandled ==
  /\ irq \in {"tx_timeout", "rx_error"} /\ irq' = None
  /\ UNCHANGED <<mainVars, sharedVars, radio, chipIq, hearing, left, wdt>>

Callback == RxComplete \/ TxComplete \/ Unhandled

-----------------------------------------------------------------------------
(* The radio and the air.  A reception or a transmission that ends leaves  *)
(* the radio in standby, hence the callback's NETOPT_STATE_RX.             *)

\* Another station starts a frame the radio can hear.
FrameStarts(f) ==
  /\ radio = "rx" /\ hearing = NoFrame
  /\ f.iq = chipIq
  /\ hearing' = f
  /\ left' = f.air
  /\ UNCHANGED <<mainVars, sharedVars, radio, chipIq, irq, wdt>>

FrameEnds ==
  /\ radio = "rx" /\ hearing # NoFrame /\ left = 0
  /\ irq' = "rx_complete" /\ radio' = "standby"
  /\ UNCHANGED <<mainVars, sharedVars, chipIq, hearing, left, wdt>>

\* The frame fails its checksum, or the air gave a header and no frame.
FrameDamaged ==
  /\ Noisy
  /\ radio = "rx" /\ hearing # NoFrame /\ left = 0
  /\ irq' = "rx_error" /\ radio' = "standby" /\ hearing' = NoFrame
  /\ UNCHANGED <<mainVars, sharedVars, chipIq, left, wdt>>

SendEnds ==
  /\ radio = "tx" /\ left = 0
  /\ irq' = "tx_complete" /\ radio' = "standby"
  /\ UNCHANGED <<mainVars, sharedVars, chipIq, hearing, left, wdt>>

SendTimesOut ==
  /\ Noisy
  /\ radio = "tx"
  /\ irq' = "tx_timeout" /\ radio' = "standby" /\ left' = 0
  /\ UNCHANGED <<mainVars, sharedVars, chipIq, hearing, wdt>>

Radio ==
  \/ \E f \in Frame : FrameStarts(f)
  \/ FrameEnds \/ FrameDamaged \/ SendEnds \/ SendTimesOut

-----------------------------------------------------------------------------
(* Time.                                                                   *)

MainIsIdle == pc = "poll" /\ flagMessageRecv = 0
MainIsSlow == MainIsIdle \/ pc = "halt" \/ (pc = "wait" /\ nap > 0)
OnAir      == hearing # NoFrame \/ radio = "tx"

Tick ==
  /\ MainIsSlow
  /\ irq = None
  /\ OnAir => left > 0
  /\ wdt # 0
  /\ left' = IF OnAir THEN left - 1 ELSE left
  /\ nap' = IF pc = "wait" THEN nap - 1 ELSE nap
  /\ wdt' = IF wdt = Off THEN Off ELSE wdt - 1
  /\ UNCHANGED <<pc, iq_inverted, transmissionDirection, sharedVars,
                 radio, chipIq, hearing, irq>>

\* The watchdog, once started, is never stopped: the microcontroller restarts.
Bite ==
  /\ wdt = 0
  /\ pc' = "boot"
  /\ flagMessageRecv' = 0 /\ flagTxDone' = 0
  /\ message' = NoFrame /\ forwarded' = TRUE
  /\ iq_inverted' = DISABLE /\ transmissionDirection' = FROM_ENDPOINT
  /\ nap' = 0
  /\ radio' = "standby" /\ chipIq' = DISABLE
  /\ hearing' = NoFrame /\ left' = 0 /\ irq' = None
  /\ wdt' = Off

Next == Main \/ Callback \/ Radio \/ Tick \/ Bite

Spec == Init /\ [][Next]_vars

\* The scheduler runs whoever is ready and what the radio started ends.  Time
\* passes although main keeps looping between two tests (strong fairness).
\* Nobody is obliged to send.
Fairness ==
  /\ WF_vars(Main) /\ WF_vars(Callback)
  /\ WF_vars(FrameEnds \/ FrameDamaged) /\ WF_vars(SendEnds \/ SendTimesOut)
  /\ SF_vars(Tick) /\ WF_vars(Bite)

FairSpec == Spec /\ Fairness

-----------------------------------------------------------------------------
(* Properties.                                                             *)

TypeOK ==
  /\ pc \in Location
  /\ flagMessageRecv \in {0, 1} /\ flagTxDone \in {0, 1}
  /\ message \in Frame \cup {NoFrame} /\ forwarded \in BOOLEAN
  /\ iq_inverted \in BOOLEAN /\ transmissionDirection \in Leg
  /\ nap \in 0..WAIT
  /\ radio \in {"standby", "rx", "tx"} /\ chipIq \in BOOLEAN
  /\ hearing \in Frame \cup {NoFrame} /\ left \in 0..MaxAir
  /\ irq \in Event \cup {None}
  /\ wdt \in 0..WDT \cup {Off}

\* A frame goes out with the polarity it was heard with, so an uplink reaches
\* only gateways and a downlink only endpoints: the callback may replace
\* message at any time, and main changes the polarity between two frames.
PolarityPreserved == pc = "send" => chipIq = message.iq

\* Once the relay waits for the gateway, or for the end of a transmission, a
\* watchdog is counting: it cannot be stuck inverted, deaf to its endpoints.
GatewayLegGuarded ==
  transmissionDirection = FROM_GATEWAY \/ pc \in {"send", "test", "wait"}
    => wdt # Off

\* The polarity of the radio never changes under a frame it is sending.
NoReprogramOnAir == [][chipIq' # chipIq => radio # "tx" \/ Bite]_vars

\* A frame received is sent at most once.
SentOnce == [][pc = "send" /\ pc' = "kick" => ~forwarded]_vars

\* A restart cuts a frame on the air, or misses the end of one sent, at one place
\* only: between test_send and wdt_kick, where a count that Arm kept from an
\* earlier frame may run out.  Once main has kicked the watchdog it is restarted
\* only if the radio gave the transmission up, and never after the wait for it.
RestartOnlyWhenStuck ==
  [][Bite /\ pc # "kick"
      => /\ radio # "tx" /\ irq # "tx_complete" /\ flagTxDone = 0
         /\ pc \notin {"flip", "reprogram", "clear"}
         /\ pc \in {"test", "wait"} => radio = "standby"]_vars

\* The relay always comes back to the leg of its endpoints.
ReturnsToEndpoint ==
  transmissionDirection = FROM_GATEWAY ~> transmissionDirection = FROM_ENDPOINT

\* Main always comes back to where it looks for a frame, through a restart if
\* the radio does not answer (unless the hardware no longer starts).
ReturnsToPoll == pc # "poll" ~> pc \in {"poll", "halt"}

-----------------------------------------------------------------------------
(* The relay implements RelayPromise.                                      *)

Down      == pc \in {"boot", "halt"}
Sending   == pc \in {"kick", "test", "wait", "flip", "reprogram", "clear"}
Holding   == ~Down /\ ~Sending /\ flagMessageRecv = 1
\* main has gone to the next leg in its variables, not yet for its peers
Changing  == pc \in {"reprogram", "clear"}

legBar   == IF Changing THEN Other(transmissionDirection)
                        ELSE transmissionDirection
phaseBar == IF Down THEN "down"
            ELSE IF Sending THEN "sending"
            ELSE IF Holding THEN "holding" ELSE "listening"
\* the frame held, or the setting the radio sends with
polBar   == IF Holding THEN message.iq
            ELSE IF pc = "clear" THEN ~chipIq
            ELSE Sending /\ chipIq

Promise == INSTANCE RelayPromise
             WITH leg <- legBar, phase <- phaseBar, pol <- polBar

\* Seen from its peers the relay alternates the legs, one frame each, every
\* frame with the polarity of its leg, however the callback interleaves.
KeepsPromise == Promise!PromiseSpec

-----------------------------------------------------------------------------
(* What the README says of the relay: it relays what it hears.             *)

\* Main forgets a frame only after it has sent it.
NoFrameForgotten ==
  [][flagMessageRecv = 1 /\ flagMessageRecv' = 0 /\ ~Bite => forwarded]_vars
=============================================================================
