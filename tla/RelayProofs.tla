---------------------------- MODULE RelayProofs ----------------------------
(***************************************************************************)
(* Proofs about Relay, for every watchdog period, time on air and wait     *)
(* that satisfy RelayAssumption.  IInv is the inductive invariant: it says *)
(* what the radio, its pending interrupt, the two flags and the watchdog   *)
(* can be at each location of main.                                        *)
(***************************************************************************)
EXTENDS Relay, TLAPS

-----------------------------------------------------------------------------
(* The inductive invariant, in parts.                                      *)

\* An interrupt is posted only by a radio that went to standby, and a frame is
\* in the radio only while it is heard or waits to be read.
RadioInv ==
  /\ irq # None => radio = "standby"
  /\ irq = "rx_complete" => hearing # NoFrame
  /\ hearing # NoFrame => radio = "rx" \/ irq = "rx_complete"

\* Before main has set the program up everything is as reset left it.
DownInv ==
  Down => /\ radio = "standby" /\ irq = None
          /\ flagMessageRecv = 0 /\ flagTxDone = 0
          /\ transmissionDirection = FROM_ENDPOINT /\ chipIq = DISABLE
          /\ wdt = Off

\* Transmission is confined to the wait for it, and flagTxDone to its end.
TxInv ==
  /\ radio = "tx" \/ irq \in {"tx_complete", "tx_timeout"}
       => pc \in {"kick", "test", "wait"} /\ flagTxDone = 0
  /\ flagTxDone = 1 => pc \in {"kick", "test", "wait", "flip"}
  /\ pc \in {"kick", "test", "wait"} /\ flagTxDone = 0
       => radio # "rx" /\ irq # "rx_complete"
  /\ pc = "flip" => flagTxDone = 1

\* The polarity of the radio follows the leg, and so does that of a frame it
\* hears, and of the frame in message until main sends it.
PolarityInv ==
  /\ iq_inverted = PolarityOf(transmissionDirection)
  /\ ~Down /\ pc # "reprogram" => chipIq = iq_inverted
  /\ pc = "reprogram" => chipIq # iq_inverted
  /\ hearing # NoFrame /\ (pc = "clear" => radio = "rx")
       => hearing.iq = chipIq
  /\ Holding => message.iq = iq_inverted

HoldingInv ==
  /\ pc \in {"configure", "arm", "send"} => Holding
  /\ Holding => ~forwarded

\* Where the watchdog runs, and how far it is from biting.
WatchdogInv ==
  /\ pc \in {"send", "kick", "test", "wait", "flip", "reprogram", "clear"}
     \/ transmissionDirection = FROM_GATEWAY => wdt # Off
  /\ pc # "wait" => nap = 0
  /\ pc \in {"test", "wait"} /\ radio = "tx" => wdt >= left + (WDT - MaxAir)
  /\ pc \in {"test", "wait"} /\ (irq = "tx_complete" \/ flagTxDone = 1)
       => wdt > nap
  /\ pc \in {"flip", "reprogram", "clear"} => wdt > 0

IInv ==
  /\ TypeOK
  /\ RadioInv /\ DownInv /\ TxInv
  /\ PolarityInv /\ HoldingInv /\ WatchdogInv

-----------------------------------------------------------------------------
(* Facts about the data, after which frames and polarities stay opaque.    *)

\* The two polarities differ.
LEMMA PolarityFacts ==
  ENABLE # DISABLE /\ ENABLE \in BOOLEAN /\ DISABLE \in BOOLEAN
  BY DEF ENABLE, DISABLE

\* A frame spends at least one tick on the air and is not NoFrame.
LEMMA FrameFacts ==
  /\ NoFrame \notin Frame
  /\ NoFrame.air = 0
  /\ \A f \in Frame : f.air \in 1..MaxAir /\ f.iq \in BOOLEAN
  BY RelayAssumption DEF RelayAssumption, Frame, NoFrame

USE RelayAssumption, PolarityFacts, FrameFacts
USE DEF RelayAssumption, mainVars, sharedVars, radioVars,
        Location, Event, Leg, FROM_ENDPOINT, FROM_GATEWAY, None, Off,
        PolarityOf, Other, Goto, Down, Sending, Holding

-----------------------------------------------------------------------------
(* Every step preserves the invariant.                                     *)

\* The state that reset leaves satisfies the invariant.
LEMMA InitIInv == Init => IInv
  BY DEF Init, IInv, TypeOK, RadioInv, DownInv, TxInv, PolarityInv,
         HoldingInv, WatchdogInv

\* Main: the actions that read or write what the callback shares are split.
LEMMA MainIInv == ASSUME IInv, Main PROVE IInv'
<1> USE DEF IInv, RadioInv, DownInv, TxInv, PolarityInv, HoldingInv,
            WatchdogInv
<1>1. CASE Boot \/ BootFails
  BY <1>1 DEF Boot, BootFails, TypeOK
<1>2. CASE Poll \/ Configure \/ Arm
  BY <1>2 DEF Poll, Configure, Arm, TypeOK
<1>3. CASE Send
  <2>1. TypeOK'
    <3>1. message.air \in 0..MaxAir
      BY DEF TypeOK
    <3> QED BY <1>3, <3>1 DEF Send, TypeOK
  <2>2. RadioInv' /\ DownInv' /\ TxInv'
    BY <1>3 DEF Send, TypeOK
  <2>3. PolarityInv' /\ HoldingInv' /\ WatchdogInv'
    BY <1>3 DEF Send, TypeOK
  <2> QED BY <2>1, <2>2, <2>3
<1>4. CASE Kick
  <2>1. (pc \in {"test", "wait"} /\ radio = "tx" =>
           wdt >= left + (WDT - MaxAir))'
    \* The full period against a frame that is at most MaxAir long.
    BY <1>4 DEF Kick, TypeOK
  <2> QED BY <1>4, <2>1 DEF Kick, TypeOK
<1>5. CASE TestTx \/ WaitEnds
  BY <1>5 DEF TestTx, WaitEnds, TypeOK
<1>6. CASE Flip
  BY <1>6 DEF Flip, TypeOK
<1>7. CASE Reprogram
  <2>1. PolarityInv'
    \* What is being heard is dropped; what is in the radio already is read
    \* while pc = "clear", and forgotten.
    BY <1>7 DEF Reprogram, TypeOK
  <2>2. RadioInv'
    BY <1>7 DEF Reprogram, TypeOK
  <2> QED BY <1>7, <2>1, <2>2 DEF Reprogram, TypeOK
<1>8. CASE ClearFlag
  BY <1>8 DEF ClearFlag, TypeOK
<1> QED BY <1>1, <1>2, <1>3, <1>4, <1>5, <1>6, <1>7, <1>8 DEF Main

\* The callback: an interrupt finds main where its kind allows it.
LEMMA CallbackIInv == ASSUME IInv, Callback PROVE IInv'
<1> USE DEF IInv, RadioInv, DownInv, TxInv, PolarityInv, HoldingInv,
            WatchdogInv
<1>1. CASE RxComplete
  <2>1. PolarityInv' /\ HoldingInv'
    \* Before "clear" the frame has the polarity of the leg; at "clear" it may
    \* not have, but main is not Holding there.
    BY <1>1 DEF RxComplete, TypeOK
  <2> QED BY <1>1, <2>1 DEF RxComplete, TypeOK
<1>2. CASE TxComplete
  BY <1>2 DEF TxComplete, TypeOK
<1>3. CASE Unhandled
  BY <1>3 DEF Unhandled, TypeOK
<1> QED BY <1>1, <1>2, <1>3 DEF Callback

\* The radio and the other stations.
LEMMA RadioIInv == ASSUME IInv, Radio PROVE IInv'
<1> USE DEF IInv, RadioInv, DownInv, TxInv, PolarityInv, HoldingInv,
            WatchdogInv
<1>1. ASSUME NEW f \in Frame, FrameStarts(f) PROVE IInv'
  BY <1>1 DEF FrameStarts, TypeOK
<1>2. CASE FrameEnds \/ FrameDamaged
  BY <1>2 DEF FrameEnds, FrameDamaged, TypeOK
<1>3. CASE SendEnds
  \* At left = 0 the watchdog has more than one wait(22) to go.
  <2>1. (pc \in {"test", "wait"} /\ irq = "tx_complete" => wdt > nap)'
    BY <1>3 DEF SendEnds, TypeOK
  <2> QED BY <1>3, <2>1 DEF SendEnds, TypeOK
<1>4. CASE SendTimesOut
  BY <1>4 DEF SendTimesOut, TypeOK
<1> QED BY <1>1, <1>2, <1>3, <1>4 DEF Radio

\* Time and the watchdog.
LEMMA TimeIInv == ASSUME IInv, Tick \/ Bite PROVE IInv'
<1> USE DEF IInv, RadioInv, DownInv, TxInv, PolarityInv, HoldingInv,
            WatchdogInv
<1>1. CASE Tick
  <2>1. WatchdogInv'
    BY <1>1 DEF Tick, MainIsSlow, MainIsIdle, OnAir, TypeOK
  <2> QED BY <1>1, <2>1 DEF Tick, MainIsSlow, MainIsIdle, OnAir, TypeOK
<1>2. CASE Bite
  BY <1>2 DEF Bite, TypeOK
<1> QED BY <1>1, <1>2

\* The step of the induction.
LEMMA NextIInv == IInv /\ [Next]_vars => IInv'
<1> SUFFICES ASSUME IInv, [Next]_vars PROVE IInv'
  OBVIOUS
<1>1. CASE UNCHANGED vars
  BY <1>1 DEF vars, IInv, TypeOK, RadioInv, DownInv, TxInv, PolarityInv,
              HoldingInv, WatchdogInv
<1> QED BY <1>1, MainIInv, CallbackIInv, RadioIInv, TimeIInv DEF Next

\* The inductive invariant holds of every behaviour of the relay.
THEOREM Invariance == Spec => []IInv
  BY InitIInv, NextIInv, PTL DEF Spec

-----------------------------------------------------------------------------
(* The safety properties.                                                  *)

\* Every variable has its type in every reachable state.
THEOREM TypeCorrect == Spec => []TypeOK
<1>1. IInv => TypeOK
  BY DEF IInv
<1> QED BY <1>1, Invariance, PTL

\* The frame handed to the radio has the polarity the radio will send with.
THEOREM PolarityIsPreserved == Spec => []PolarityPreserved
<1>1. IInv => PolarityPreserved
  BY DEF IInv, PolarityInv, HoldingInv, PolarityPreserved
<1> QED BY <1>1, Invariance, PTL

\* A watchdog counts whenever the relay depends on the gateway or the radio.
THEOREM GatewayLegIsGuarded == Spec => []GatewayLegGuarded
<1>1. IInv => GatewayLegGuarded
  BY DEF IInv, WatchdogInv, GatewayLegGuarded
<1> QED BY <1>1, Invariance, PTL

\* The radio keeps its polarity while it sends.
THEOREM NeverReprogrammedOnAir == Spec => NoReprogramOnAir
<1>1. IInv /\ [Next]_vars => [chipIq' # chipIq => radio # "tx" \/ Bite]_vars
  <2> SUFFICES ASSUME IInv, Next, chipIq' # chipIq, ~Bite PROVE radio # "tx"
    OBVIOUS
  <2>1. CASE Boot \/ Configure \/ Reprogram
    BY <2>1 DEF Boot, Configure, Reprogram, IInv, DownInv, TxInv
  <2> QED
    BY <2>1 DEF Next, Main, BootFails, Poll, Arm, Send, Kick, TestTx,
       WaitEnds, Flip, ClearFlag, Callback, RxComplete, TxComplete, Unhandled,
       Radio, FrameStarts, FrameEnds, FrameDamaged, SendEnds, SendTimesOut,
       Tick
<1> QED BY <1>1, Invariance, PTL DEF Spec, NoReprogramOnAir

\* No frame is sent twice.
THEOREM NeverSentTwice == Spec => SentOnce
<1>1. IInv => (pc = "send" /\ pc' = "kick" => ~forwarded)
  BY DEF IInv, HoldingInv
<1>2. IInv /\ [Next]_vars
        => [pc = "send" /\ pc' = "kick" => ~forwarded]_vars
  BY <1>1
<1> QED BY <1>2, Invariance, PTL DEF Spec, SentOnce

\* A restart cuts a frame on the air, or misses its end, at most between
\* test_send and wdt_kick: before, nothing is on the air; after, WatchdogInv keeps
\* the count above what is left of the frame and of wait.
THEOREM RestartsOnlyWhenStuck == Spec => RestartOnlyWhenStuck
<1> DEFINE Harmless ==
      /\ radio # "tx" /\ irq # "tx_complete" /\ flagTxDone = 0
      /\ pc \notin {"flip", "reprogram", "clear"}
      /\ pc \in {"test", "wait"} => radio = "standby"
<1>1. IInv /\ Bite /\ pc # "kick" => Harmless
  <2> SUFFICES ASSUME IInv, Bite, pc # "kick" PROVE Harmless
    OBVIOUS
  <2> USE DEF IInv, TypeOK, WatchdogInv, TxInv, Bite
  <2>1. CASE pc \in {"test", "wait"}
    BY <2>1
  <2>2. CASE pc \notin {"test", "wait"}
    BY <2>2
  <2> QED BY <2>1, <2>2
<1>2. IInv /\ [Next]_vars => [Bite /\ pc # "kick" => Harmless]_vars
  BY <1>1
<1> QED BY <1>2, Invariance, PTL DEF Spec, RestartOnlyWhenStuck

-----------------------------------------------------------------------------
(* The relay implements RelayPromise.                                      *)

USE DEF legBar, phaseBar, polBar, Changing

\* A step of main is Start, Emit or Change, or invisible to the peers.
LEMMA MainKeepsPromise ==
  ASSUME IInv, Main
  PROVE  Promise!PromiseNext \/ UNCHANGED <<legBar, phaseBar, polBar>>
<1> USE DEF IInv, TypeOK, TxInv, DownInv, PolarityInv, HoldingInv,
        Promise!PromiseNext
<1>1. CASE Boot
  BY <1>1 DEF Boot, Promise!Start
<1>2. CASE BootFails \/ Poll \/ Configure \/ Arm
  BY <1>2 DEF BootFails, Poll, Configure, Arm
<1>3. CASE Send
  BY <1>3 DEF Send, Promise!Emit
<1>4. CASE Kick \/ TestTx \/ WaitEnds
  BY <1>4 DEF Kick, TestTx, WaitEnds
<1>5. CASE Flip
  BY <1>5 DEF Flip
<1>6. CASE Reprogram
  BY <1>6, PolarityFacts DEF Reprogram
<1>7. CASE ClearFlag
  <2>1. phaseBar = "sending" /\ phaseBar' = "listening"
    BY <1>7 DEF ClearFlag
  <2>2. legBar' = Promise!Opposite(legBar)
    BY <1>7 DEF ClearFlag, Promise!Opposite
  <2>3. polBar' = FALSE
    BY <1>7 DEF ClearFlag
  <2> QED BY <2>1, <2>2, <2>3 DEF Promise!Change
<1> QED BY <1>1, <1>2, <1>3, <1>4, <1>5, <1>6, <1>7 DEF Main

\* A frame received while main listens is Hear; while it sends, the frame is
\* invisible, for main will forget it.
LEMMA CallbackKeepsPromise ==
  ASSUME IInv, Callback
  PROVE  Promise!PromiseNext \/ UNCHANGED <<legBar, phaseBar, polBar>>
<1> USE DEF IInv, TypeOK, RadioInv, DownInv, TxInv, PolarityInv, HoldingInv,
        Promise!PromiseNext
<1>1. CASE RxComplete
  <2>1. pc = "clear" \/ hearing.iq = chipIq
    BY <1>1 DEF RxComplete
  <2>2. CASE pc = "poll" /\ flagMessageRecv = 0
    BY <1>1, <2>1, <2>2
       DEF RxComplete, Promise!Hear, Promise!LegPolarity, ENABLE, DISABLE
  <2>3. CASE Holding
    BY <1>1, <2>1, <2>3 DEF RxComplete
  <2>4. CASE Sending
    BY <1>1, <2>4 DEF RxComplete
  <2> QED BY <1>1, <2>2, <2>3, <2>4 DEF RxComplete
<1>2. CASE TxComplete
  BY <1>2 DEF TxComplete
<1>3. CASE Unhandled
  BY <1>3 DEF Unhandled
<1> QED BY <1>1, <1>2, <1>3 DEF Callback

\* The air, the watchdog's count and the clock are invisible; its bite is
\* Restart.
LEMMA EnvironmentKeepsPromise ==
  ASSUME IInv, Radio \/ Tick \/ Bite
  PROVE  Promise!PromiseNext \/ UNCHANGED <<legBar, phaseBar, polBar>>
<1>1. CASE Radio
  BY <1>1 DEF Radio, FrameStarts, FrameEnds, FrameDamaged, SendEnds,
              SendTimesOut
<1>2. CASE Tick
  BY <1>2 DEF Tick
<1>3. CASE Bite
  BY <1>3 DEF Bite, Promise!PromiseNext, Promise!Restart
<1> QED BY <1>1, <1>2, <1>3

\* The firmware, its callback interleaved with its main loop in every way the
\* priorities allow, implements the alternation of legs its peers rely on.
THEOREM RelayKeepsPromise == Spec => KeepsPromise
<1>1. Init => Promise!PromiseInit
  BY DEF Init, Promise!PromiseInit
<1>2. IInv /\ [Next]_vars
        => [Promise!PromiseNext]_<<legBar, phaseBar, polBar>>
  <2>1. CASE UNCHANGED vars
    BY <2>1 DEF vars
  <2>2. CASE Next
    BY <2>2, MainKeepsPromise, CallbackKeepsPromise, EnvironmentKeepsPromise
       DEF Next
  <2> QED BY <2>1, <2>2
<1> QED
  BY <1>1, <1>2, Invariance, PTL
     DEF Spec, KeepsPromise, Promise!PromiseSpec, Promise!promiseVars
=============================================================================
