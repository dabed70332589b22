----------------------------- MODULE Telemetry -----------------------------
(***************************************************************************)
(* What an end device that has joined may count on: each message it sends  *)
(* reaches the gateway before it sends the next, and reaches it once,      *)
(* unless it is repeated until it is confirmed.  Only the message sent     *)
(* straight after the join may be missed.                                  *)
(***************************************************************************)

VARIABLES
  state,     \* of the last message: "none", "unsure", "underway", "delivered",
             \* "repeated"
  straight,  \* a message sent now would follow the join at once
  confirmed  \* the device asks for confirmations

telemetryVars == <<state, straight, confirmed>>

TelemetryInit ==
  state = "none" /\ straight \in BOOLEAN /\ confirmed \in BOOLEAN

Submit ==
  /\ state # "underway"
  /\ state' = IF straight THEN "unsure" ELSE "underway"
  /\ straight' = FALSE
  /\ UNCHANGED confirmed

\* The device had a reason to wait before its first message.
Delay == straight /\ straight' = FALSE /\ UNCHANGED <<state, confirmed>>

Deliver ==
  /\ state \in {"unsure", "underway"} /\ state' = "delivered"
  /\ UNCHANGED <<straight, confirmed>>

\* The gateway has had the message and has it again.
DeliverAgain ==
  /\ confirmed
  /\ state = "delivered" /\ state' = "repeated"
  /\ UNCHANGED <<straight, confirmed>>

TelemetryNext == Submit \/ Delay \/ Deliver \/ DeliverAgain

TelemetrySpec ==
  /\ TelemetryInit /\ [][TelemetryNext]_telemetryVars
  /\ WF_telemetryVars(state = "underway" /\ Deliver)
=============================================================================
