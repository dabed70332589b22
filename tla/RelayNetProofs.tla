--------------------------- MODULE RelayNetProofs ---------------------------
(***************************************************************************)
(* Proofs about RelayNet, for all times that satisfy RelayAssumption and   *)
(* NetAssumption.  NetInv bounds the time the relay still needs before it   *)
(* waits for an endpoint with its watchdog off (Until) by the time the      *)
(* device still sleeps, and says where in the relay a frame of the device  *)
(* may be.                                                                 *)
(***************************************************************************)
EXTENDS RelayNet, RelayProofs

-----------------------------------------------------------------------------
(* The invariant.                                                          *)

\* The radio holds a frame of the device: it hears it, or has heard it.
OnWay == hearing # NoFrame /\ hearing.iq = DISABLE

\* So does message, and the frame has not been sent.
InHand == flagMessageRecv = 1 /\ message.iq = DISABLE /\ ~forwarded

\* How long it may take at most, if no endpoint sends, until the relay waits for
\* one and its watchdog is off.  (Off + 1 is 0.)
Until ==
  IF pc = "boot" THEN 1
  ELSE IF Holding \/ pc = "kick"
       THEN (IF transmissionDirection = FROM_ENDPOINT THEN WDT ELSE 0) + WDT + 1
  ELSE IF pc \in {"test", "wait", "flip"}
       THEN (IF transmissionDirection = FROM_ENDPOINT THEN WDT ELSE 0) + wdt + 1
  ELSE IF transmissionDirection = FROM_GATEWAY THEN WDT + wdt + 1
  ELSE IF OnWay THEN left + WDT + WDT + 1
  ELSE wdt + 1

\* The relay has nothing to send, and hears nobody but the gateway.
After ==
  /\ radio # "tx" /\ ~OnWay
  /\ \/ pc = "boot"
     \/ transmissionDirection = FROM_GATEWAY
          /\ pc \in {"kick", "test", "wait", "flip"}
     \/ transmissionDirection = FROM_ENDPOINT /\ pc \in {"reprogram", "clear"}
     \/ transmissionDirection = FROM_ENDPOINT /\ pc = "poll"
          /\ flagMessageRecv = 0

\* Or it is hearing the device.
Arriving ==
  /\ OnWay /\ radio = "rx" /\ left >= timer
  /\ transmissionDirection = FROM_ENDPOINT
  /\ pc = "clear" \/ (pc = "poll" /\ flagMessageRecv = 0)

\* The gateway has not had what the device sent, and will.
Awaited == uplink \in {"none", "underway"}

\* The device's own variables.
DeviceInv ==
  /\ device = "setup" => join = "none" /\ timer = 0
  /\ device \in {"setup", "joining"}
       => uplink = "none" /\ fresh = (program = "endpoint")
  /\ fresh => uplink = "none" /\ device \notin InSend
  /\ device \in InSend => uplink # "none"
  /\ repeats > 0 \/ device \in {"waiting", "repeating"} => Confirmed

\* The hardware starts, no frame is damaged, and the radio stands by only for
\* the callback.
HealthyInv ==
  /\ pc # "halt" /\ irq \in {None, "rx_complete", "tx_complete"}
  /\ radio = "standby" => pc = "boot" \/ irq # None

\* The device wakes after the relay has come back.
TimeInv ==
  /\ device = "setup" => After /\ wdt = Off /\ pc \in {"boot", "poll"}
  /\ device = "joining" /\ join = "accepted" => After
  /\ device = "ready" /\ fresh => After
  /\ device = "ready" /\ ~fresh => Until <= timer
  /\ device \in {"sending", "repeating"} => Until <= timer + PERIOD
  /\ device = "waiting" => Until <= PERIOD

\* While the device is on the air the relay hears it, or nothing.
AirInv == device \in {"joining", "sending"} /\ timer > 0 => After \/ Arriving

\* Where a frame of the device may be, and that the watchdog is far.
FrameInv ==
  /\ OnWay /\ Awaited
       => pc = "poll" /\ flagMessageRecv = 0 /\ wdt = Off
  /\ InHand /\ Awaited
       => \/ pc \in {"poll", "configure", "arm"} /\ wdt = Off
          \/ pc = "send" /\ wdt = WDT
  /\ radio = "tx" => forwarded

\* A message underway is in the relay or on the air behind it; an unconfirmed one
\* delivered is neither.
MessageInv ==
  /\ uplink = "underway"
       => \/ OnWay \/ InHand
          \/ radio = "tx" /\ chipIq = DISABLE /\ (pc = "kick" => wdt > 0)
  /\ ~Confirmed /\ (OnWay \/ InHand \/ (radio = "tx" /\ chipIq = DISABLE))
       => uplink # "delivered"
  /\ ~Confirmed => uplink # "repeated"

\* A message underway that the relay has not sent yet was sent just now: before
\* time passes, and so before it is repeated, the relay sends it.
RecentInv ==
  uplink = "underway" /\ (OnWay \/ InHand)
    => /\ device = "sending" /\ OnWay => left <= timer
       /\ device = "waiting" => timer = ACK_WAIT /\ (OnWay => left = 0)
       /\ device # "repeating"

NetInv ==
  /\ IInv /\ NetTypeOK /\ HealthyInv /\ DeviceInv
  /\ TimeInv /\ AirInv /\ FrameInv /\ MessageInv /\ RecentInv

-----------------------------------------------------------------------------
(* The relay's own results carry over.                                     *)

USE RelayAssumption, NetAssumption, PolarityFacts, FrameFacts
USE DEF RelayAssumption, NetAssumption, mainVars, sharedVars, radioVars, vars,
        deviceVars, Location, Event, Leg, FROM_ENDPOINT, FROM_GATEWAY, None, Off,
        PolarityOf, Other, Goto, Down, Sending, Holding, InSend

\* What the relay does when neither the clock nor the device moves.
RelayStep ==
  \/ Main /\ pc' # "halt"
  \/ Callback \/ FrameEnds \/ SendEnds \/ Bite
  \/ \E f \in Frame : f.iq = ENABLE /\ FrameStarts(f)

\* A step of the composition is one of these for the relay.
LEMMA NetSteps ==
  ASSUME NetNext
  PROVE  \/ RelayStep \/ Tick \/ UNCHANGED vars
         \/ \E f \in Frame : f.iq = DISABLE /\ Listening /\ FrameStarts(f)
  BY DEF NetNext, Device, JoinRequest, JoinFails, JoinSucceeds, SendMessage,
     SendRefused, AwaitAck, Repeat, SendReturns, Transmit, RelayAlone, GatewaySends, GatewayHears,
     DeviceHears, NetTick, NetBite, RelayStep

\* The relay in the composition behaves as Relay says, so every theorem about
\* Relay holds in the composition.
THEOREM NetIsRelay == NetSpec => Spec
<1>1. NetInit => Init
  BY DEF NetInit
<1>2. [NetNext]_netVars => [Next]_vars
  <2>1. CASE NetNext
    BY <2>1, NetSteps DEF RelayStep, Next, Radio
  <2>2. CASE UNCHANGED netVars
    BY <2>2 DEF netVars
  <2> QED BY <2>1, <2>2
<1> QED BY <1>1, <1>2, PTL DEF NetSpec, Spec

\* Among them the relay's invariant.
LEMMA NetIInv == NetSpec => []IInv
  BY NetIsRelay, Invariance, PTL

-----------------------------------------------------------------------------
(* The device's variables.                                                 *)

\* What a message may come to.
LEMMA ProgressFacts ==
  /\ DOMAIN Progress = {"none", "unsure", "underway", "delivered", "repeated"}
  /\ Progress["none"] = "none" /\ Progress["unsure"] = "delivered"
  /\ Progress["underway"] = "delivered" /\ Progress["delivered"] = "repeated"
  /\ Progress["repeated"] = "repeated"
  BY DEF Progress

\* Types, and the history of the device against its location.
LEMMA DeviceStep ==
  ASSUME IInv, NetTypeOK, DeviceInv, [NetNext]_netVars,
         device = "setup" => radio # "tx"
  PROVE  NetTypeOK' /\ DeviceInv'
<1> USE ProgressFacts DEF NetTypeOK, DeviceInv, DeviceLocation, Confirmed
<1>1. ASSUME NEW f \in Frame, JoinRequest(f) \/ SendMessage(f) \/ Repeat(f)
      PROVE  NetTypeOK' /\ DeviceInv'
  <2>1. f.air \in 0..PERIOD
    OBVIOUS
  <2>2. CASE JoinRequest(f)
    BY <2>1, <2>2 DEF JoinRequest
  <2>3. CASE SendMessage(f)
    <3>1. repeats' \in 0..(TRIALS - 1) /\ (repeats' > 0 => Confirmed)
      BY <2>3 DEF SendMessage
    <3>2. NetTypeOK'
      BY <2>1, <2>3, <3>1 DEF SendMessage
    <3>3. DeviceInv'
      BY <2>3, <3>1 DEF SendMessage
    <3> QED BY <3>2, <3>3
  <2>4. CASE Repeat(f)
    BY <2>1, <2>4 DEF Repeat
  <2> QED BY <1>1, <2>2, <2>3, <2>4
<1>2. CASE JoinFails \/ JoinSucceeds \/ SendRefused \/ AwaitAck \/ SendReturns
  <2>1. SleepAfterJoin \in 0..PERIOD /\ Sleep \in 0..PERIOD
    BY DEF SleepAfterJoin, Sleep
  <2>2. NetTypeOK'
    <3>1. CASE JoinFails \/ JoinSucceeds
      BY <2>1, <3>1 DEF JoinFails, JoinSucceeds
    <3>2. CASE AwaitAck
      BY <3>2 DEF AwaitAck
    <3>3. CASE SendRefused \/ SendReturns
      BY <2>1, <3>3 DEF SendRefused, SendReturns
    <3> QED BY <1>2, <3>1, <3>2, <3>3
  <2>3. DeviceInv'
    BY <1>2 DEF JoinFails, JoinSucceeds, SendRefused, AwaitAck, SendReturns
  <2> QED BY <2>2, <2>3
<1>3. CASE RelayAlone \/ GatewaySends \/ DeviceHears \/ NetBite
  BY <1>3 DEF RelayAlone, GatewaySends, DeviceHears, NetBite
<1>4. CASE GatewayHears
  BY <1>4 DEF GatewayHears, SendEnds
<1>5. CASE NetTick
  BY <1>5 DEF NetTick
<1>6. CASE UNCHANGED netVars
  BY <1>6 DEF netVars
<1> QED BY <1>1, <1>2, <1>3, <1>4, <1>5, <1>6 DEF NetNext, Device

-----------------------------------------------------------------------------
(* How long the relay is away.                                             *)

\* The relay hears an endpoint, with its watchdog off, once Until is 0.
LEMMA UntilFacts ==
  ASSUME IInv, HealthyInv
  PROVE  /\ Until \in Nat
         /\ Until = 0 => /\ pc = "poll" /\ flagMessageRecv = 0 /\ wdt = Off
                        /\ hearing = NoFrame /\ Listening
                        /\ transmissionDirection = FROM_ENDPOINT
         /\ After => Until <= WDT + 1
<1> USE DEF IInv, TypeOK, RadioInv, DownInv, TxInv, PolarityInv, HoldingInv,
            WatchdogInv, HealthyInv, Until, OnWay
<1>1. Until \in Nat
  OBVIOUS
<1>2. Until = 0 => /\ pc = "poll" /\ flagMessageRecv = 0 /\ wdt = Off
                   /\ transmissionDirection = FROM_ENDPOINT /\ ~OnWay
  OBVIOUS
<1>3. Until = 0 => hearing = NoFrame /\ radio = "rx" /\ chipIq = DISABLE
  BY <1>2
<1>4. After => Until <= WDT + 1
  BY DEF After
<1> QED BY <1>1, <1>2, <1>3, <1>4 DEF Listening

\* The same of the next state.
LEMMA UntilNext ==
  ASSUME IInv', HealthyInv'
  PROVE  Until' \in Int
<1> DEFINE extra == IF transmissionDirection' = FROM_ENDPOINT THEN WDT ELSE 0
<1>1. WDT \in Int /\ wdt' \in Int /\ left' \in Int /\ extra \in Int
  BY DEF IInv, TypeOK
<1>2. \A a, b, c \in Int : a + b + 1 \in Int /\ a + 1 \in Int /\ a + b + c + 1 \in Int
  OBVIOUS
<1>3. Until' \in {1, extra + WDT + 1, extra + wdt' + 1, WDT + wdt' + 1,
                 left' + WDT + WDT + 1, wdt' + 1}
  BY DEF Until, OnWay
<1> QED BY <1>1, <1>2, <1>3

\* No step of the relay makes it longer.
LEMMA UntilStep ==
  ASSUME IInv, HealthyInv, RelayStep
  PROVE  Until' <= Until
<1> USE DEF IInv, TypeOK, RadioInv, DownInv, TxInv, PolarityInv, HoldingInv,
            WatchdogInv, HealthyInv, Until, OnWay
<1>1. CASE Boot \/ Poll \/ Configure \/ Arm
  BY <1>1 DEF Boot, Poll, Configure, Arm
<1>2. CASE Send \/ Kick
  BY <1>2 DEF Send, Kick
<1>3. CASE TestTx \/ WaitEnds
  BY <1>3 DEF TestTx, WaitEnds
<1>4. CASE Flip
  BY <1>4 DEF Flip
<1>5. CASE Reprogram
  BY <1>5 DEF Reprogram
<1>6. CASE ClearFlag
  BY <1>6 DEF ClearFlag
<1>7. CASE RxComplete
  BY <1>7 DEF RxComplete
<1>8. CASE TxComplete \/ Unhandled
  BY <1>8 DEF TxComplete, Unhandled
<1>9. CASE FrameEnds \/ SendEnds
  BY <1>9 DEF FrameEnds, SendEnds
<1>10. CASE Bite
  BY <1>10 DEF Bite
<1>11. ASSUME NEW f \in Frame, f.iq = ENABLE, FrameStarts(f)
       PROVE  Until' <= Until
  BY <1>11 DEF FrameStarts
<1> QED BY <1>1, <1>2, <1>3, <1>4, <1>5, <1>6, <1>7, <1>8, <1>9, <1>10, <1>11
        DEF RelayStep, Main, BootFails, Callback

\* A tick brings it nearer.
LEMMA UntilTick ==
  ASSUME IInv, HealthyInv, Tick
  PROVE  IF Until = 0 THEN Until' = 0 ELSE Until' <= Until - 1
  BY DEF Tick, MainIsSlow, MainIsIdle, OnAir, IInv, TypeOK, RadioInv, DownInv,
     TxInv, PolarityInv, WatchdogInv, HealthyInv, Until, OnWay

\* Without a frame of an endpoint the relay stays as it is after a downlink.
LEMMA AfterStep ==
  ASSUME IInv, HealthyInv, After, RelayStep \/ Tick
  PROVE  After'
<1> USE DEF IInv, TypeOK, RadioInv, DownInv, TxInv, PolarityInv, HoldingInv,
            After, OnWay
<1>1. CASE Main /\ pc' # "halt"
  BY <1>1 DEF Main, Boot, BootFails, Poll, Configure, Arm, Send, Kick, TestTx,
     WaitEnds, Flip, Reprogram, ClearFlag
<1>2. CASE Callback
  BY <1>2 DEF Callback, RxComplete, TxComplete, Unhandled
<1>3. CASE FrameEnds \/ SendEnds \/ Bite \/ Tick
  BY <1>3 DEF FrameEnds, SendEnds, Bite, Tick
<1>4. ASSUME NEW f \in Frame, f.iq = ENABLE, FrameStarts(f)
      PROVE  After'
  BY <1>4 DEF FrameStarts
<1> QED BY <1>1, <1>2, <1>3, <1>4 DEF RelayStep

\* So it is when a downlink has been sent.
LEMMA AfterDownlink ==
  ASSUME IInv, HealthyInv, SendEnds, chipIq = ENABLE
  PROVE  After'
  BY DEF SendEnds, IInv, TypeOK, RadioInv, TxInv, PolarityInv, HealthyInv,
     After, OnWay

\* Neither is the radio harmed, nor does main return.
LEMMA HealthyStep ==
  ASSUME IInv, HealthyInv, RelayStep \/ Tick
  PROVE  HealthyInv'
<1> USE DEF HealthyInv, IInv, TypeOK, RadioInv, DownInv, TxInv
<1>1. CASE Main /\ pc' # "halt"
  BY <1>1 DEF Main, Boot, BootFails, Poll, Configure, Arm, Send, Kick, TestTx,
     WaitEnds, Flip, Reprogram, ClearFlag
<1>2. CASE Callback
  BY <1>2 DEF Callback, RxComplete, TxComplete, Unhandled
<1>3. CASE FrameEnds \/ SendEnds \/ Bite \/ Tick
  BY <1>3 DEF FrameEnds, SendEnds, Bite, Tick
<1>4. ASSUME NEW f \in Frame, f.iq = ENABLE, FrameStarts(f)
      PROVE  HealthyInv'
  BY <1>4 DEF FrameStarts
<1> QED BY <1>1, <1>2, <1>3, <1>4 DEF RelayStep

-----------------------------------------------------------------------------
(* The device's times against the relay's.                                 *)

\* A frame of the device adds its time on the air and two runs of the watchdog.
LEMMA TransmitUntil ==
  ASSUME IInv, HealthyInv, NEW f \in Frame, Transmit(f)
  PROVE  Until' <= Until \/ Until' <= f.air + WDT + WDT + 1
  BY DEF Transmit, FrameStarts, Listening, IInv, TypeOK, HealthyInv, Until,
     OnWay

\* A state of the relay that nobody has changed is as good as before.
LEMMA StillSame ==
  ASSUME UNCHANGED vars
  PROVE  Until' = Until /\ (After => After') /\ (HealthyInv => HealthyInv')
  BY DEF Until, After, OnWay, HealthyInv

\* The steps in which the device takes no part.
RelayOrAir == RelayAlone \/ GatewaySends \/ GatewayHears \/ DeviceHears \/ NetBite

LEMMA RelayOrAirSteps ==
  ASSUME RelayOrAir
  PROVE  /\ RelayStep /\ UNCHANGED <<program, device, fresh>>
         /\ timer' = timer \/ device = "waiting"
  BY DEF RelayOrAir, RelayAlone, GatewaySends, GatewayHears, DeviceHears,
     NetBite, RelayStep

\* A device that joins or wakes finds the relay ready, whatever came between.
LEMMA TimeStep ==
  ASSUME IInv, IInv', NetTypeOK, HealthyInv, HealthyInv', DeviceInv, TimeInv,
         [NetNext]_netVars
  PROVE  TimeInv'
<1> USE DEF TimeInv
<1>1. CASE RelayOrAir
  <2>1. /\ RelayStep /\ UNCHANGED <<program, device, fresh>>
        /\ timer' = timer \/ device = "waiting"
    BY <1>1, RelayOrAirSteps
  <2>2. (After => After') /\ Until' <= Until /\ Until \in Nat /\ Until' \in Int
    BY <2>1, AfterStep, UntilStep, UntilFacts, UntilNext
  <2>3. device = "setup" => wdt' = Off /\ pc' \in {"boot", "poll"}
    BY <1>1 DEF RelayOrAir, RelayAlone, GatewaySends, GatewayHears, DeviceHears,
       NetBite, After, Main, Boot, BootFails, Poll, Configure, Arm, Send, Kick,
       TestTx, WaitEnds, Flip, Reprogram, ClearFlag, Callback, RxComplete,
       TxComplete, Unhandled, FrameStarts, FrameEnds, SendEnds, Bite
  <2>4. device = "joining" /\ join' = "accepted" => join = "accepted" \/ After'
    BY <1>1, AfterDownlink
       DEF RelayOrAir, RelayAlone, GatewaySends, GatewayHears, DeviceHears,
           NetBite
  <2>5. TimeInv'
    BY <2>1, <2>2, <2>3, <2>4 DEF NetTypeOK
  <2> QED BY <2>5
<1>2. CASE NetTick
  <2>1. Tick /\ UNCHANGED <<program, device, join, fresh>>
    BY <1>2 DEF NetTick
  <2>2. /\ After => After'
        /\ IF Until = 0 THEN Until' = 0 ELSE Until' <= Until - 1
        /\ Until \in Nat /\ Until' \in Int
    BY <2>1, AfterStep, UntilTick, UntilFacts, UntilNext
  <2>3. pc' = pc /\ (wdt = Off => wdt' = Off)
    BY <2>1 DEF Tick
  <2>4. timer' = IF timer > 0 THEN timer - 1 ELSE 0
    BY <1>2 DEF NetTick
  <2> QED BY <2>1, <2>2, <2>3, <2>4 DEF NetTypeOK
<1>3. ASSUME NEW f \in Frame, JoinRequest(f) PROVE TimeInv'
  BY <1>3 DEF JoinRequest, DeviceInv
<1>4. ASSUME NEW f \in Frame, SendMessage(f) PROVE TimeInv'
  <2>1. Until <= WDT + 1
    BY <1>4, UntilFacts DEF SendMessage, NetTypeOK
  <2>2. Until' <= Until \/ Until' <= f.air + WDT + WDT + 1
    BY <1>4, TransmitUntil DEF SendMessage
  <2>3. Until' <= timer' + PERIOD
    BY <1>4, <2>1, <2>2, UntilFacts, UntilNext DEF SendMessage
  <2> QED BY <1>4, <2>3 DEF SendMessage
<1>5. CASE JoinFails \/ JoinSucceeds \/ SendRefused \/ AwaitAck \/ SendReturns
  <2>1. Until' = Until /\ (After => After') /\ UNCHANGED vars
    BY <1>5, StillSame DEF JoinFails, JoinSucceeds, SendRefused, AwaitAck, SendReturns
  <2>2. Until \in Nat /\ (After => Until <= WDT + 1)
    BY UntilFacts
  <2>3. CASE JoinFails
    BY <2>3 DEF JoinFails
  <2>4. CASE JoinSucceeds
    BY <2>1, <2>2, <2>4 DEF JoinSucceeds, SleepAfterJoin, DeviceInv, NetTypeOK
  <2>5. CASE SendRefused \/ AwaitAck \/ SendReturns
    BY <2>1, <2>2, <2>5 DEF SendRefused, AwaitAck, SendReturns, Sleep, NetTypeOK,
       DeviceInv
  <2> QED BY <1>5, <2>3, <2>4, <2>5
<1>6. ASSUME NEW f \in Frame, Repeat(f) PROVE TimeInv'
  <2>1. Until' <= Until \/ Until' <= f.air + WDT + WDT + 1
    BY <1>6, TransmitUntil DEF Repeat
  <2>2. Until' <= timer' + PERIOD
    BY <1>6, <2>1, UntilFacts, UntilNext DEF Repeat
  <2> QED BY <1>6, <2>2 DEF Repeat, DeviceInv
<1>7. CASE UNCHANGED netVars
  BY <1>7, StillSame DEF netVars
<1> QED BY <1>1, <1>2, <1>3, <1>4, <1>5, <1>6, <1>7 DEF NetNext, Device, RelayOrAir

-----------------------------------------------------------------------------
(* The air.                                                                *)

\* A frame of the device goes on arriving while the device sends it, unless a
\* restart interrupts it.
LEMMA ArrivingStep ==
  ASSUME IInv, HealthyInv, Arriving, timer \in Nat, timer > 0,
         (RelayStep /\ timer' = timer) \/ NetTick
  PROVE  Arriving' \/ After'
<1> USE DEF IInv, TypeOK, RadioInv, DownInv, TxInv, PolarityInv, HoldingInv,
            Arriving, After, OnWay
<1>1. CASE Main /\ pc' # "halt" /\ timer' = timer
  BY <1>1 DEF Main, Boot, BootFails, Poll, Configure, Arm, Send, Kick, TestTx,
     WaitEnds, Flip, Reprogram, ClearFlag
<1>2. CASE (Callback \/ FrameEnds \/ SendEnds) /\ timer' = timer
  BY <1>2 DEF Callback, RxComplete, TxComplete, Unhandled, FrameEnds, SendEnds
<1>3. CASE Bite
  BY <1>3 DEF Bite
<1>4. CASE NetTick
  BY <1>4 DEF NetTick, Tick, OnAir
<1>5. ASSUME NEW f \in Frame, FrameStarts(f) PROVE FALSE
  BY <1>5 DEF FrameStarts
<1> QED BY <1>1, <1>2, <1>3, <1>4, <1>5 DEF RelayStep

\* While the device is on the air the relay has nothing to send.
LEMMA AirStep ==
  ASSUME IInv, NetTypeOK, HealthyInv, DeviceInv, TimeInv, AirInv,
         [NetNext]_netVars
  PROVE  AirInv'
<1> USE DEF AirInv
<1>1. CASE RelayOrAir \/ NetTick
  <2>1. /\ UNCHANGED device
        /\ (RelayStep /\ (timer' = timer \/ device = "waiting")) \/ NetTick
    BY <1>1, RelayOrAirSteps DEF NetTick
  <2>2. timer \in Nat /\ (timer' > 0 => timer > 0 \/ device = "waiting")
    BY <2>1 DEF NetTick, NetTypeOK
  <2>3. After => After'
    BY <2>1, AfterStep DEF NetTick
  <2> QED BY <2>1, <2>2, <2>3, ArrivingStep
<1>2. ASSUME NEW f \in Frame, JoinRequest(f) \/ SendMessage(f) PROVE AirInv'
  <2>1. After \/ (wdt = Off /\ Listening /\ pc = "poll" /\ flagMessageRecv = 0
                   /\ transmissionDirection = FROM_ENDPOINT)
    <3>1. device = "ready" /\ ~fresh => Until = 0 \/ timer # 0
      BY UntilFacts DEF TimeInv, NetTypeOK
    <3> QED BY <1>2, <3>1, UntilFacts DEF JoinRequest, SendMessage, TimeInv, NetTypeOK
  <2>2. CASE ~Listening
    BY <1>2, <2>1, <2>2, StillSame DEF JoinRequest, SendMessage, Transmit
  <2>3. CASE Listening
    <3>1. pc \in {"clear", "poll"} /\ transmissionDirection = FROM_ENDPOINT
          /\ (pc = "poll" => flagMessageRecv = 0)
      BY <2>1, <2>3 DEF Listening, After, IInv, DownInv, PolarityInv
    <3>2. FrameStarts(f) /\ timer' = f.air /\ f.iq = DISABLE
      BY <1>2, <2>3 DEF JoinRequest, SendMessage, Transmit
    <3>3. Arriving'
      BY <3>1, <3>2 DEF FrameStarts, Arriving, OnWay
    <3> QED BY <3>3
  <2> QED BY <2>2, <2>3
<1>3. CASE JoinFails \/ JoinSucceeds \/ SendRefused \/ AwaitAck \/ SendReturns
  BY <1>3 DEF JoinFails, JoinSucceeds, SendRefused, AwaitAck, SendReturns
<1>4. ASSUME NEW f \in Frame, Repeat(f) PROVE AirInv'
  BY <1>4 DEF Repeat
<1>5. CASE UNCHANGED netVars
  BY <1>5, StillSame DEF netVars, Arriving, OnWay
<1> QED BY <1>1, <1>2, <1>3, <1>4, <1>5 DEF NetNext, Device, RelayOrAir

-----------------------------------------------------------------------------
(* The frames of the device in the relay.                                  *)

\* A repetition of a message underway finds the relay sending it.
LEMMA RepeatUnheard ==
  ASSUME IInv, NetTypeOK, DeviceInv, MessageInv, RecentInv,
         NEW f \in Frame, Repeat(f), Awaited
  PROVE  uplink = "underway" /\ ~OnWay /\ ~InHand /\ UNCHANGED vars
<1>1. uplink = "underway" /\ device = "waiting" /\ timer # ACK_WAIT
  BY DEF Repeat, DeviceInv, Awaited
<1>2. ~OnWay /\ ~InHand
  BY <1>1 DEF RecentInv
<1>3. radio = "tx"
  BY <1>1, <1>2 DEF MessageInv
<1> QED BY <1>1, <1>2, <1>3 DEF Repeat, Transmit, Listening

\* A frame that finds the relay with its watchdog off meets no obstacle up to
\* its transmission.
LEMMA FrameStep ==
  ASSUME IInv, NetTypeOK, HealthyInv, DeviceInv, TimeInv, FrameInv, MessageInv,
         RecentInv, [NetNext]_netVars
  PROVE  FrameInv'
<1> USE DEF FrameInv, OnWay, InHand, Awaited
<1>1. CASE RelayAlone
  <2> USE DEF IInv, TypeOK, RadioInv, DownInv, TxInv, PolarityInv, HoldingInv,
              WatchdogInv
  <2>1. CASE Main
    <3>1. CASE Boot \/ BootFails \/ Poll \/ Configure
      BY <1>1, <3>1 DEF RelayAlone, deviceVars, Boot, BootFails, Poll, Configure
    <3>2. CASE Arm \/ Send \/ Kick
      BY <1>1, <3>2 DEF RelayAlone, deviceVars, Arm, Send, Kick
    <3>3. CASE TestTx \/ WaitEnds \/ Flip \/ Reprogram \/ ClearFlag
      BY <1>1, <3>3 DEF RelayAlone, deviceVars, TestTx, WaitEnds, Flip, Reprogram,
         ClearFlag
    <3> QED BY <2>1, <3>1, <3>2, <3>3 DEF Main
  <2>2. CASE Callback \/ FrameEnds
    BY <1>1, <2>2 DEF RelayAlone, deviceVars, Callback, RxComplete, TxComplete,
       Unhandled, FrameEnds
  <2> QED BY <1>1, <2>1, <2>2 DEF RelayAlone
<1>2. CASE GatewaySends \/ NetBite
  BY <1>2, PolarityFacts DEF GatewaySends, NetBite, deviceVars, FrameStarts, Bite
<1>3. CASE GatewayHears \/ DeviceHears
  \* The radio was sending: it held no frame, and message had been sent.
  BY <1>3 DEF GatewayHears, DeviceHears, SendEnds, IInv, TypeOK, RadioInv
<1>4. CASE NetTick
  BY <1>4 DEF NetTick, Tick, MainIsSlow, MainIsIdle, IInv, TypeOK
<1>5. ASSUME NEW f \in Frame, JoinRequest(f) PROVE FrameInv'
  BY <1>5 DEF JoinRequest, Transmit, FrameStarts, Listening, TimeInv, After,
     DeviceInv, IInv, DownInv
<1>6. ASSUME NEW f \in Frame, SendMessage(f) PROVE FrameInv'
  <2>1. CASE fresh
    BY <1>6, <2>1 DEF SendMessage, Transmit, FrameStarts, Listening
  <2>2. CASE ~fresh
    <3>1. pc = "poll" /\ flagMessageRecv = 0 /\ wdt = Off /\ Listening
      BY <1>6, <2>2, UntilFacts DEF SendMessage, TimeInv, NetTypeOK
    <3> QED BY <1>6, <3>1 DEF SendMessage, Transmit, FrameStarts, Listening
  <2> QED BY <2>1, <2>2
<1>7. CASE JoinFails \/ JoinSucceeds \/ SendRefused \/ AwaitAck \/ SendReturns
           \/ UNCHANGED netVars
  BY <1>7 DEF JoinFails, JoinSucceeds, SendRefused, AwaitAck, SendReturns, netVars
<1>8. ASSUME NEW f \in Frame, Repeat(f) PROVE FrameInv'
  <2>1. CASE Awaited
    BY <1>8, <2>1, RepeatUnheard DEF Repeat
  <2>2. CASE ~Awaited
    BY <1>8, <2>2 DEF Repeat, Transmit, FrameStarts, Listening
  <2> QED BY <2>1, <2>2
<1> QED BY <1>1, <1>2, <1>3, <1>4, <1>5, <1>6, <1>7, <1>8 DEF NetNext, Device

\* A message underway is passed on from the air to message and to the air again,
\* and ends there, at the gateway.
LEMMA MessageStep ==
  ASSUME IInv, NetTypeOK, HealthyInv, DeviceInv, TimeInv, FrameInv, MessageInv,
         RecentInv, [NetNext]_netVars
  PROVE  MessageInv'
<1> USE DEF MessageInv, OnWay, InHand, Awaited, Confirmed
<1>1. CASE RelayAlone
  <2> USE DEF IInv, TypeOK, RadioInv, DownInv, TxInv, PolarityInv, HoldingInv,
              FrameInv
  <2>1. CASE Main
    <3>1. CASE Boot \/ BootFails \/ Poll \/ Configure
      BY <1>1, <3>1 DEF RelayAlone, Boot, BootFails, Poll, Configure
    <3>2. CASE Arm
      BY <1>1, <3>2 DEF RelayAlone, Arm
    <3>3. CASE Send
      \* The message goes on the air with the full period before it.
      BY <1>1, <3>3 DEF RelayAlone, Send
    <3>4. CASE Kick \/ TestTx \/ WaitEnds \/ Flip
      BY <1>1, <3>4 DEF RelayAlone, Kick, TestTx, WaitEnds, Flip
    <3>5. CASE Reprogram \/ ClearFlag
      BY <1>1, <3>5 DEF RelayAlone, Reprogram, ClearFlag
    <3> QED BY <2>1, <3>1, <3>2, <3>3, <3>4, <3>5 DEF Main
  <2>2. CASE RxComplete
    BY <1>1, <2>2 DEF RelayAlone, RxComplete
  <2>3. CASE TxComplete \/ Unhandled \/ FrameEnds
    BY <1>1, <2>3 DEF RelayAlone, TxComplete, Unhandled, FrameEnds
  <2> QED BY <1>1, <2>1, <2>2, <2>3 DEF RelayAlone, Callback
<1>2. CASE GatewaySends
  BY <1>2 DEF GatewaySends, FrameStarts
<1>3. CASE GatewayHears
  <2>1. hearing = NoFrame /\ forwarded
    BY <1>3 DEF GatewayHears, SendEnds, IInv, RadioInv, FrameInv
  <2>2. /\ uplink' \in {"none", "delivered", "repeated"}
        /\ ~Confirmed => uplink' \in {"none", "delivered"}
    BY <1>3, ProgressFacts DEF GatewayHears, SendEnds, NetTypeOK
  <2> QED BY <1>3, <2>1, <2>2 DEF GatewayHears, SendEnds
<1>4. CASE DeviceHears
  BY <1>4, PolarityFacts DEF DeviceHears, SendEnds
<1>5. CASE NetTick
  BY <1>5 DEF NetTick, Tick, MainIsSlow, MainIsIdle
<1>6. CASE NetBite
  <2>1. wdt = 0
    BY <1>6 DEF NetBite, Bite
  <2>2. uplink # "underway"
    BY <2>1 DEF IInv, TypeOK, TxInv, WatchdogInv, FrameInv
  <2> QED BY <1>6, <2>2 DEF NetBite, Bite
<1>7. ASSUME NEW f \in Frame, JoinRequest(f) PROVE MessageInv'
  BY <1>7 DEF JoinRequest, DeviceInv
<1>8. ASSUME NEW f \in Frame, SendMessage(f) PROVE MessageInv'
  <2>1. CASE fresh
    BY <1>8, <2>1 DEF SendMessage
  <2>2. CASE ~fresh
    <3>1. Listening
      BY <1>8, <2>2, UntilFacts DEF SendMessage, TimeInv, NetTypeOK
    <3> QED BY <1>8, <2>2, <3>1 DEF SendMessage, Transmit, FrameStarts
  <2> QED BY <2>1, <2>2
<1>9. CASE JoinFails \/ JoinSucceeds \/ SendRefused \/ AwaitAck \/ SendReturns
           \/ UNCHANGED netVars
  BY <1>9 DEF JoinFails, JoinSucceeds, SendRefused, AwaitAck, SendReturns, netVars
<1>10. ASSUME NEW f \in Frame, Repeat(f) PROVE MessageInv'
  <2>1. Confirmed /\ UNCHANGED <<program, uplink>>
    BY <1>10 DEF Repeat, DeviceInv
  <2>2. CASE uplink = "underway"
    BY <2>1, <2>2, <1>10, RepeatUnheard
  <2> QED BY <2>1, <2>2
<1> QED BY <1>1, <1>2, <1>3, <1>4, <1>5, <1>6, <1>7, <1>8, <1>9, <1>10
        DEF NetNext, Device

\* A message is sent on before time passes.
LEMMA RecentStep ==
  ASSUME IInv, NetTypeOK, HealthyInv, DeviceInv, TimeInv, FrameInv, MessageInv,
         RecentInv, [NetNext]_netVars
  PROVE  RecentInv'
<1> USE DEF RecentInv, OnWay, InHand, Awaited
<1>1. CASE RelayAlone
  <2> USE DEF IInv, TypeOK, RadioInv, DownInv, TxInv, HoldingInv, FrameInv
  <2>1. CASE Main
    BY <1>1, <2>1 DEF RelayAlone, deviceVars, Main, Boot, BootFails, Poll,
       Configure, Arm, Send, Kick, TestTx, WaitEnds, Flip, Reprogram, ClearFlag
  <2>2. CASE Callback \/ FrameEnds
    BY <1>1, <2>2 DEF RelayAlone, deviceVars, Callback, RxComplete, TxComplete,
       Unhandled, FrameEnds
  <2> QED BY <1>1, <2>1, <2>2 DEF RelayAlone
<1>2. CASE GatewaySends \/ NetBite
  BY <1>2, PolarityFacts DEF GatewaySends, NetBite, deviceVars, FrameStarts, Bite
<1>3. CASE GatewayHears \/ DeviceHears
  BY <1>3 DEF GatewayHears, DeviceHears, SendEnds, IInv, RadioInv, FrameInv
<1>4. CASE NetTick
  BY <1>4 DEF NetTick, Tick, MainIsSlow, MainIsIdle, OnAir, IInv, TypeOK,
     FrameInv, NetTypeOK
<1>5. ASSUME NEW f \in Frame, JoinRequest(f) PROVE RecentInv'
  BY <1>5 DEF JoinRequest, DeviceInv
<1>6. ASSUME NEW f \in Frame, SendMessage(f) PROVE RecentInv'
  <2>1. CASE fresh
    BY <1>6, <2>1 DEF SendMessage
  <2>2. CASE ~fresh
    <3>1. Listening
      BY <1>6, <2>2, UntilFacts DEF SendMessage, TimeInv, NetTypeOK
    <3> QED BY <1>6, <3>1 DEF SendMessage, Transmit, FrameStarts
  <2> QED BY <2>1, <2>2
<1>7. ASSUME NEW f \in Frame, Repeat(f) PROVE RecentInv'
  <2>1. CASE Awaited
    BY <1>7, <2>1, RepeatUnheard DEF Repeat
  <2> QED BY <1>7, <2>1 DEF Repeat
<1>8. CASE AwaitAck
  BY <1>8 DEF AwaitAck, IInv, TypeOK
<1>9. CASE JoinFails \/ JoinSucceeds \/ SendRefused \/ SendReturns
           \/ UNCHANGED netVars
  BY <1>9 DEF JoinFails, JoinSucceeds, SendRefused, SendReturns, netVars
<1> QED BY <1>1, <1>2, <1>3, <1>4, <1>5, <1>6, <1>7, <1>8, <1>9
        DEF NetNext, Device

-----------------------------------------------------------------------------
(* The invariant of the composition.                                       *)

\* The relay starts before the device, which sets its keys first.
LEMMA NetInitInv == NetInit => NetInv
<1> SUFFICES ASSUME NetInit PROVE NetInv
  OBVIOUS
<1>1. IInv
  BY InitIInv DEF NetInit
<1>2. NetTypeOK /\ HealthyInv /\ DeviceInv
  BY ProgressFacts
     DEF NetInit, Init, NetTypeOK, DeviceLocation, HealthyInv, DeviceInv
<1>3. TimeInv /\ AirInv /\ FrameInv /\ MessageInv /\ RecentInv
  BY DEF NetInit, Init, TimeInv, After, AirInv, FrameInv, MessageInv, RecentInv,
     OnWay, InHand
<1> QED BY <1>1, <1>2, <1>3 DEF NetInv

\* Every step of the composition preserves it.
LEMMA NetNextInv ==
  ASSUME NetInv, IInv', [NetNext]_netVars
  PROVE  NetInv'
<1> USE DEF NetInv
<1>1. HealthyInv'
  <2>1. CASE NetNext
    <3>1. CASE RelayStep \/ Tick
      BY <3>1, HealthyStep
    <3>2. CASE UNCHANGED vars
      BY <3>2, StillSame
    <3>3. CASE \E f \in Frame : f.iq = DISABLE /\ Listening /\ FrameStarts(f)
      BY <3>3 DEF HealthyInv, FrameStarts
    <3> QED BY <2>1, <3>1, <3>2, <3>3, NetSteps
  <2>2. CASE UNCHANGED netVars
    BY <2>2, StillSame DEF netVars
  <2> QED BY <2>1, <2>2
<1>2. NetTypeOK' /\ DeviceInv'
  BY DeviceStep DEF TimeInv, After
<1>3. TimeInv'
  BY <1>1, TimeStep
<1>4. AirInv'
  BY AirStep
<1>5. FrameInv'
  BY FrameStep
<1>6. MessageInv'
  BY MessageStep
<1>7. RecentInv'
  BY RecentStep
<1> QED BY <1>1, <1>2, <1>3, <1>4, <1>5, <1>6, <1>7

\* NetInv holds of every reachable state of the composition.
THEOREM NetInvariance == NetSpec => []NetInv
<1>1. NetInit => NetInv
  BY NetInitInv
<1>2. NetInv /\ IInv' /\ [NetNext]_netVars => NetInv'
  BY NetNextInv
<1> QED BY <1>1, <1>2, NetIInv, PTL DEF NetSpec

-----------------------------------------------------------------------------
(* The results.                                                            *)

\* The variables of the device have their types.
THEOREM NetTypeCorrect == NetSpec => []NetTypeOK
BY NetInvariance, PTL DEF NetInv

\* The relay is not on the air when the device joins or first sends a message:
\* it has had the time to finish what it heard before, repetitions included.
THEOREM NeverCollide == NetSpec => []NoCollision
<1>1. NetInv => NoCollision
  BY DEF NetInv, AirInv, After, Arriving, NoCollision, NetTypeOK
<1> QED BY <1>1, NetInvariance, PTL

\* The relay relays the request to join, and every message that it has begun to
\* hear and the gateway has not had, except the one that follows the join at once.
THEOREM UplinksAreKept == NetSpec => NoUplinkLost
<1> DEFINE Kept ==
      Awaited =>
        /\ hearing # NoFrame /\ hearing.iq = DISABLE /\ hearing' # hearing
             => message' = hearing
        /\ flagMessageRecv = 1 /\ flagMessageRecv' = 0 /\ message.iq = DISABLE
             => forwarded
<1>1. NetInv /\ [NetNext]_netVars => [Kept]_netVars
  <2> SUFFICES ASSUME NetInv, NetNext, Awaited
               PROVE  Kept
    BY DEF netVars
  <2> USE DEF NetInv
  <2>1. /\ OnWay => pc = "poll" /\ flagMessageRecv = 0 /\ wdt = Off
        /\ InHand => \/ pc \in {"poll", "configure", "arm"} /\ wdt = Off
                     \/ pc = "send" /\ wdt = WDT
    BY DEF FrameInv
  <2>2. RelayStep \/ Tick \/ UNCHANGED vars
        \/ \E f \in Frame : f.iq = DISABLE /\ Listening /\ FrameStarts(f)
    BY NetSteps
  <2>3. CASE Main
    BY <2>1, <2>3 DEF OnWay, InHand, Main, Boot, BootFails, Poll, Configure, Arm,
       Send, Kick, TestTx, WaitEnds, Flip, Reprogram, ClearFlag
  <2>4. CASE Callback \/ FrameEnds \/ SendEnds
    BY <2>4 DEF Callback, RxComplete, TxComplete, Unhandled, FrameEnds, SendEnds
  <2>5. CASE Bite
    BY <2>1, <2>5 DEF OnWay, InHand, Bite
  <2>6. CASE Tick \/ UNCHANGED vars
    BY <2>6 DEF Tick
  <2>7. CASE \E f \in Frame : FrameStarts(f)
    BY <2>7 DEF FrameStarts
  <2> QED BY <2>2, <2>3, <2>4, <2>5, <2>6, <2>7 DEF RelayStep
<1> QED BY <1>1, NetInvariance, PTL DEF NetSpec, NoUplinkLost, Awaited

\* The safety part of KeepsReporting: no message is sent while the one before is
\* underway, and the gateway hears one that is not confirmed at most once.
THEOREM ReportingIsSafe ==
  NetSpec => Report!TelemetryInit /\ [][Report!TelemetryNext]_(Report!telemetryVars)
<1>1. NetInit => Report!TelemetryInit
  BY DEF NetInit, Report!TelemetryInit, Confirmed
<1>2. NetInv /\ [NetNext]_netVars
        => [Report!TelemetryNext]_(Report!telemetryVars)
  <2> SUFFICES ASSUME NetInv, NetNext
               PROVE  Report!TelemetryNext \/ UNCHANGED Report!telemetryVars
    BY DEF netVars, Report!telemetryVars, Confirmed
  <2> USE DEF NetInv, Report!telemetryVars, Confirmed
  <2>1. CASE (RelayOrAir /\ ~GatewayHears) \/ NetTick
    BY <2>1 DEF RelayOrAir, RelayAlone, GatewaySends, DeviceHears, NetTick, NetBite
  <2>2. CASE GatewayHears
    BY <2>2, ProgressFacts DEF GatewayHears, SendEnds, MessageInv, NetTypeOK,
       Report!TelemetryNext, Report!Deliver, Report!DeliverAgain
  <2>3. ASSUME NEW f \in Frame, SendMessage(f) PROVE Report!Submit
    \* The relay listens and is idle: nothing is underway.
    <3>1. CASE fresh
      BY <2>3, <3>1 DEF SendMessage, Report!Submit, DeviceInv
    <3>2. CASE ~fresh
      <4>1. Until = 0
        BY <2>3, <3>2, UntilFacts DEF SendMessage, TimeInv, NetTypeOK
      <4>2. uplink # "underway"
        BY <4>1, UntilFacts DEF MessageInv, OnWay, InHand, Listening
      <4> QED BY <2>3, <3>2, <4>2 DEF SendMessage, Report!Submit
    <3> QED BY <3>1, <3>2
  <2>4. CASE SendRefused
    BY <2>4 DEF SendRefused, Report!TelemetryNext, Report!Delay, NetTypeOK
  <2>5. ASSUME NEW f \in Frame, JoinRequest(f)
        PROVE  UNCHANGED Report!telemetryVars
    BY <2>5 DEF JoinRequest
  <2>6. CASE JoinFails \/ JoinSucceeds \/ AwaitAck \/ SendReturns
    BY <2>6 DEF JoinFails, JoinSucceeds, AwaitAck, SendReturns
  <2>7. ASSUME NEW f \in Frame, Repeat(f)
        PROVE  UNCHANGED Report!telemetryVars
    BY <2>7 DEF Repeat
  <2> QED BY <2>1, <2>2, <2>3, <2>4, <2>5, <2>6, <2>7
          DEF NetNext, Device, RelayOrAir, Report!TelemetryNext
<1> QED BY <1>1, <1>2, NetInvariance, PTL DEF NetSpec
=============================================================================
