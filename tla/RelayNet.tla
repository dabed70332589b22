------------------------------ MODULE RelayNet ------------------------------
(***************************************************************************)
(* An end device, the relay and a gateway, composed over the air.          *)
(*                                                                         *)
(* The device is lora_relay/Endpoint/main.c or, with another wait after    *)
(* the join, lora_relay/simpleExample/main.c: it joins the network, once,  *)
(* and then sends and sleeps for ever.  It hears, and is heard by, the     *)
(* relay alone.  The gateway sends when it likes, to this device or to     *)
(* another.  The relay is Relay, of which each step here is a step.        *)
(*                                                                         *)
(* The simple example asks for unconfirmed messages.  In the endpoint that *)
(* call is commented out: it sends in the mode of the package, confirmed,  *)
(* and within one call the package repeats a frame that is not             *)
(* acknowledged, as late as it likes (the duty cycle may be used up).      *)
(*                                                                         *)
(* A tick is a second, less than any LoRaWAN frame takes at spreading      *)
(* factor 12.  The times of the device are the least it waits: what the    *)
(* LoRaMAC package adds (the windows in which it receives) comes on top.   *)
(***************************************************************************)
EXTENDS Relay

CONSTANTS
  PERIOD,     \* SEND_PERIOD, between two messages
  PAUSE,      \* what the simple example sleeps after it has joined
  TRIALS,     \* how often the package sends a confirmed message at most
  ACK_WAIT    \* the least time it waits for an acknowledgement

\* A watchdog runs down once in the pause, twice in the period: once after the
\* message, if need be once more after the answer.
ASSUMPTION NetAssumption ==
  /\ PERIOD \in Nat /\ PAUSE \in Nat
  /\ WDT < PAUSE /\ PAUSE <= PERIOD
  /\ 2 * WDT < PERIOD
  /\ TRIALS \in Nat \ {0}
  /\ ACK_WAIT \in 1..PERIOD

VARIABLES
  program,    \* which of the two programs the device runs
  device,     \* where its main is
  timer,      \* the least time before what it is in ends
  repeats,    \* how often the package may still send the message
  join,       \* history: how far the request to join has come
  uplink,     \* history: how far the last message has come
  fresh       \* history: its first message will follow the join at once

deviceVars == <<program, device, timer, repeats, join, uplink, fresh>>
netVars    == <<vars, deviceVars>>

\* In semtech_loramac_send: sending the message, waiting for its
\* acknowledgement, or repeating it.
InSend         == {"sending", "waiting", "repeating"}
DeviceLocation == {"setup", "joining", "ready", "stopped"} \cup InSend

\* The relay would hear an endpoint.
Listening == radio = "rx" /\ hearing = NoFrame /\ chipIq = DISABLE

\* The device puts a frame on the air; the relay hears it or not.
Transmit(f) ==
  /\ f.iq = DISABLE
  /\ IF Listening THEN FrameStarts(f) ELSE UNCHANGED vars

NetInit ==
  /\ Init
  /\ program \in {"endpoint", "simple"}
  /\ device = "setup" /\ timer = 0 /\ repeats = 0
  /\ join = "none" /\ uplink = "none"
  /\ fresh = (program = "endpoint")

-----------------------------------------------------------------------------
(* The device.                                                             *)

\* The keys are set and semtech_loramac_join sends its request.
JoinRequest(f) ==
  /\ device = "setup" /\ device' = "joining"
  /\ timer' = f.air
  /\ Transmit(f)
  /\ UNCHANGED <<program, repeats, join, uplink, fresh>>

\* No answer, or the package refuses: "Process stopped".
JoinFails ==
  /\ device = "joining" /\ join # "accepted"
  /\ device' = "stopped"
  /\ UNCHANGED <<vars, program, timer, repeats, join, uplink, fresh>>

\* Fault: the simple example goes on as the endpoint does.
NoSleep == 0

\* xtimer_usleep(10 * 1000000), in the simple example only.
SleepAfterJoin == IF program = "simple" THEN PAUSE ELSE 0

JoinSucceeds ==
  /\ device = "joining" /\ join = "accepted"
  /\ device' = "ready" /\ timer' = SleepAfterJoin
  /\ UNCHANGED <<vars, program, repeats, join, uplink, fresh>>

\* set_tx_mode: the simple example asks for unconfirmed messages, the endpoint
\* leaves the package in its own mode.
Confirmed == program = "endpoint"

\* semtech_loramac_send, from the request to what is on the air.
SendMessage(f) ==
  /\ device = "ready" /\ timer = 0
  /\ device' = "sending" /\ timer' = f.air
  /\ repeats' = IF Confirmed THEN TRIALS - 1 ELSE 0
  /\ Transmit(f)
  /\ uplink' = IF fresh THEN "unsure" ELSE "underway"
  /\ fresh' = FALSE
  /\ UNCHANGED <<program, join>>

\* Fault: the sleep after the join is the one repeated.
SleepLess == PAUSE

\* Fault: the sleep after the join has come into the loop.
SleepTwice == PERIOD + PAUSE

\* xtimer_usleep(SEND_PERIOD * 1000000)
Sleep == PERIOD

\* The package refuses ("Cannot send message"): it is busy, or the duty cycle
\* is used up.  The device sleeps as if it had sent.
SendRefused ==
  /\ device = "ready" /\ timer = 0
  /\ timer' = Sleep
  /\ fresh' = FALSE
  /\ UNCHANGED <<vars, program, device, repeats, join, uplink>>

\* A confirmed message is on the air; the package opens its windows and waits.
AwaitAck ==
  /\ device \in {"sending", "repeating"} /\ timer = 0 /\ repeats > 0
  /\ device' = "waiting" /\ timer' = ACK_WAIT
  /\ UNCHANGED <<vars, program, repeats, join, uplink, fresh>>

\* No acknowledgement in time: the package sends the message again, maybe at a
\* lower rate, wherever the relay is.
Repeat(f) ==
  /\ device = "waiting" /\ timer = 0 /\ repeats > 0
  /\ device' = "repeating" /\ timer' = f.air
  /\ repeats' = repeats - 1
  /\ Transmit(f)
  /\ UNCHANGED <<program, join, uplink, fresh>>

\* An unconfirmed message is on the air, or a confirmed one for the last time,
\* or it has been acknowledged.
SendReturns ==
  /\ device \in InSend /\ timer = 0 /\ repeats = 0
  /\ device' = "ready" /\ timer' = Sleep
  /\ UNCHANGED <<vars, program, repeats, join, uplink, fresh>>

Device ==
  \/ \E f \in Frame : JoinRequest(f) \/ SendMessage(f) \/ Repeat(f)
  \/ JoinFails \/ JoinSucceeds \/ SendRefused \/ AwaitAck \/ SendReturns

-----------------------------------------------------------------------------
(* The relay, the gateway, and what they hear of each other.               *)

\* What the relay does without the others' notice.  Its hardware starts.
RelayAlone ==
  /\ (Main /\ pc' # "halt") \/ Callback \/ FrameEnds
  /\ UNCHANGED deviceVars

GatewaySends ==
  /\ \E f \in Frame : f.iq = ENABLE /\ FrameStarts(f)
  /\ UNCHANGED deviceVars

\* What becomes of the last message when the gateway hears one.
Progress == [none |-> "none", unsure |-> "delivered", underway |-> "delivered",
             delivered |-> "repeated", repeated |-> "repeated"]

\* A frame relayed plain has reached the gateway.
GatewayHears ==
  /\ SendEnds /\ chipIq = DISABLE
  /\ join' = IF join = "none" THEN "requested" ELSE join
  /\ uplink' = Progress[uplink]
  /\ UNCHANGED <<program, device, timer, repeats, fresh>>

\* A frame relayed inverted has reached the devices.  It may be the accept, or
\* the acknowledgement of the message.
DeviceHears ==
  /\ SendEnds /\ chipIq = ENABLE
  /\ \/ /\ device = "joining" /\ join = "requested"
        /\ join' = "accepted"
        /\ UNCHANGED <<timer, repeats>>
     \/ /\ device = "waiting"
        /\ timer' = 0 /\ repeats' = 0
        /\ UNCHANGED join
     \/ UNCHANGED <<timer, repeats, join>>
  /\ UNCHANGED <<program, device, uplink, fresh>>

NetTick ==
  /\ Tick
  /\ timer' = IF timer > 0 THEN timer - 1 ELSE 0
  /\ UNCHANGED <<program, device, repeats, join, uplink, fresh>>

NetBite == Bite /\ UNCHANGED deviceVars

NetNext ==
  \/ Device \/ RelayAlone \/ GatewaySends \/ GatewayHears \/ DeviceHears
  \/ NetTick \/ NetBite

NetSpec == NetInit /\ [][NetNext]_netVars

\* As in Relay.  Neither the device nor the gateway need ever send.
NetFairSpec ==
  /\ NetSpec
  /\ WF_netVars(RelayAlone) /\ WF_netVars(GatewayHears)
  /\ WF_netVars(DeviceHears) /\ SF_netVars(NetTick) /\ WF_netVars(NetBite)

-----------------------------------------------------------------------------
(* Properties.                                                             *)

NetTypeOK ==
  /\ program \in {"endpoint", "simple"} /\ device \in DeviceLocation
  /\ timer \in 0..PERIOD /\ repeats \in 0..(TRIALS - 1)
  /\ join \in {"none", "requested", "accepted"}
  /\ uplink \in DOMAIN Progress
  /\ fresh \in BOOLEAN

\* What the relay has begun to hear of the request to join, or of a message the
\* gateway has not had yet, is never lost: the radio hands it over whole, and
\* main lets go of it only when it has sent it.  Neither flagMessageRecv = 0,
\* nor the watchdog that runs on, nor a change of polarity, nor a repetition of
\* the message comes in its way.  (The message that follows the join at once,
\* and repetitions of what the gateway has, may be lost.)
NoUplinkLost ==
  [][(uplink \in {"none", "underway"}) =>
       /\ hearing # NoFrame /\ hearing.iq = DISABLE /\ hearing' # hearing
            => message' = hearing
       /\ flagMessageRecv = 1 /\ flagMessageRecv' = 0 /\ message.iq = DISABLE
            => forwarded]_netVars

\* The relay is not on the air when the device joins or sends a message, unless
\* the device repeats it: a repetition may come while the relay sends.
NoCollision ==
  device \in {"joining", "sending"} /\ timer > 0 => radio # "tx"

Report == INSTANCE Telemetry
            WITH state <- uplink, straight <- fresh, confirmed <- Confirmed

\* Every message reaches the gateway before the next is sent, once if it is
\* unconfirmed, except the one the endpoint sends as soon as it has joined: the
\* relay may still be in wait(22) on the gateway's polarity, or its watchdog
\* about to bite.
KeepsReporting == Report!TelemetrySpec
=============================================================================
