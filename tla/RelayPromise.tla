---------------------------- MODULE RelayPromise ----------------------------
(***************************************************************************)
(* What the relay promises to the two sides of the link: it serves one leg *)
(* after the other, one frame each, and sends that frame with the polarity *)
(* of its leg.  It may start again at any time, on the endpoints' leg.     *)
(* How it shares its flags between main and the receive thread, and what   *)
(* it does to frames that come while it is busy, is left to Relay.         *)
(***************************************************************************)

VARIABLES
  leg,     \* whose frame is awaited or being relayed
  phase,   \* "down", "listening", "holding" a frame, or "sending" it
  pol      \* polarity of the frame held or sent; FALSE when there is none

promiseVars == <<leg, phase, pol>>

\* The polarity of a leg: only the gateway sends with inverted I/Q.
LegPolarity(l) == l = "gateway"

Opposite(l) == IF l = "endpoint" THEN "gateway" ELSE "endpoint"

PromiseInit == leg = "endpoint" /\ phase = "down" /\ pol = FALSE

Start ==
  /\ phase = "down" /\ phase' = "listening"
  /\ UNCHANGED <<leg, pol>>

Hear ==
  /\ phase = "listening" /\ phase' = "holding"
  /\ pol' = LegPolarity(leg)
  /\ UNCHANGED leg

Emit ==
  /\ phase = "holding" /\ phase' = "sending"
  /\ UNCHANGED <<leg, pol>>

Change ==
  /\ phase = "sending" /\ phase' = "listening"
  /\ leg' = Opposite(leg)
  /\ pol' = FALSE

Restart ==
  /\ phase' = "down"
  /\ leg' = "endpoint"
  /\ pol' = FALSE

PromiseNext == Start \/ Hear \/ Emit \/ Change \/ Restart

PromiseSpec == PromiseInit /\ [][PromiseNext]_promiseVars
=============================================================================
