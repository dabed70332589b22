----------------------------- MODULE JoinRetry -----------------------------
(***************************************************************************)
(* The join procedures of loramac_utils.c (one file, copied into           *)
(* lora_snowdepth, lora_relay/Endpoint and lora_relay/simpleExample):      *)
(* loramac_utils_join_retry_loop, called "otaa" here, and                  *)
(* loramac_utils_abp_join_retry_loop, "abp".                               *)
(*                                                                         *)
(* A loop asks the MAC to join until it succeeds.  After each failure it   *)
(* first lowers the data rate, down to the lowest of its kind, then        *)
(* lengthens the time it sleeps before the next try.  Once joined it looks *)
(* up the network that the device address belongs to.                      *)
(*                                                                         *)
(* A 32-bit word is the set of its bits that are set.                      *)
(***************************************************************************)
EXTENDS Integers, Sequences

CONSTANTS
  LORAMAC_JOIN_MIN_DATARATE,
  RETRYTIME_PERCENT,
  WORD,       \* 2^32, or less: the times are counted modulo WORD
  Rates,      \* the data rates a caller may start with
  Times,      \* the times a caller may give, first and longest
  Addresses   \* device addresses the network server may give

ASSUMPTION JoinAssumption ==
  /\ LORAMAC_JOIN_MIN_DATARATE \in 0..255
  /\ RETRYTIME_PERCENT \in Nat
  /\ WORD \in Nat \ {0}
  /\ Rates \subseteq 0..255
  /\ Times \subseteq 0..(WORD - 1)
  /\ Addresses \subseteq SUBSET (0..31)

VARIABLES
  pc,                \* "idle", "join", "retry" or "sleep"
  loop,              \* the procedure that was called last
  initDataRate,
  nextRetryTime,
  maxNextRetryTime,
  given,             \* history: the rate and the first time it was called with
  devaddr,           \* the address the MAC was given
  network            \* the name looked up for it

call == <<loop, maxNextRetryTime, given>>
found == <<devaddr, network>>
vars == <<pc, loop, initDataRate, nextRetryTime, maxNextRetryTime, given,
          devaddr, network>>

\* The lowest data rate a loop goes down to.
Lowest(l) == IF l = "otaa" THEN LORAMAC_JOIN_MIN_DATARATE ELSE 0

-----------------------------------------------------------------------------
(* The networks.                                                           *)

NETID1 == 25..31   \* 0xFE000000
NETID3 == 17..31   \* 0xFFFE0000
NETID6 == 10..31   \* 0xFFFFFC00

\* lorawan_networks: subnet, mask and name.
lorawan_networks == <<
  <<{26},                          NETID1, "Actility">>,
  <<{25, 26, 29},                  NETID1, "The Things Network">>,
  <<{25, 26, 27, 28},              NETID1, "Orange">>,
  <<{25, 26, 27},                  NETID1, "Bouygues Telecom">>,
  <<{26, 29},                      NETID1, "Kerlink">>,
  <<{25, 27, 29},                  NETID1, "Cisco Systems">>,
  <<{25, 29},                      NETID1, "Tata Communications">>,
  <<{25, 26, 27, 29},              NETID1, "Mulitech">>,
  <<{17, 18, 19, 21, 29, 30, 31},  NETID3, "Schneider Electric">>,
  <<{13, 15} \cup 26..31,          NETID6, "Lacuna Space">>,
  <<{10, 15} \cup 26..31,          NETID6, "Hiber">>,
  <<{11, 13, 14} \cup 26..31,      NETID6, "Requea">>,
  <<{10, 11, 13, 15} \cup 26..31,  NETID6, "UGA">> >>

BelongsTo(word, n) == n[1] = word \cap n[2]

\* loramac_utils_get_lorawan_network: the first that matches.
get_lorawan_network(word) ==
  LET matching == {i \in DOMAIN lorawan_networks :
                     BelongsTo(word, lorawan_networks[i])}
  IN  IF matching = {} THEN "Unknown"
      ELSE lorawan_networks[CHOOSE i \in matching : \A j \in matching : i <= j][3]

\* devaddr[k] << 8*k: one byte of the address, at its place in the word.
ShiftedByte(addr, k) == addr \cap (8 * k)..(8 * k + 7)

\* devaddr[3] << 24 & devaddr[2] << 16 & devaddr[1] << 8 & devaddr[0]
DevAddrWord(addr) ==
  ShiftedByte(addr, 3) \cap ShiftedByte(addr, 2)
    \cap ShiftedByte(addr, 1) \cap ShiftedByte(addr, 0)

-----------------------------------------------------------------------------
(* The loops.                                                              *)

Init ==
  /\ pc = "idle" /\ loop = "otaa"
  /\ initDataRate = 0 /\ nextRetryTime = 0 /\ maxNextRetryTime = 0
  /\ given = [rate |-> 0, time |-> 0]
  /\ devaddr = {} /\ network = "none"

\* The application calls one of the loops: the data rate is set.
Call(l, rate, first, longest) ==
  /\ pc = "idle" /\ pc' = "join"
  /\ loop' = l
  /\ initDataRate' = rate
  /\ nextRetryTime' = first /\ maxNextRetryTime' = longest
  /\ given' = [rate |-> rate, time |-> first]
  /\ devaddr' = {} /\ network' = "none"

\* semtech_loramac_join returns anything but success.
JoinFails ==
  /\ pc = "join" /\ pc' = "retry"
  /\ UNCHANGED <<initDataRate, nextRetryTime, call, found>>

\* It succeeds: the address is read back, its network named, and the loop
\* returns.
JoinSucceeds(addr) ==
  /\ pc = "join" /\ pc' = "idle"
  /\ devaddr' = addr
  /\ network' = get_lorawan_network(DevAddrWord(addr))
  /\ UNCHANGED <<initDataRate, nextRetryTime, call>>

\* Fault: the rate is lowered without end.
LowerAlways ==
  /\ pc = "retry" /\ pc' = "sleep"
  /\ initDataRate' = (initDataRate - 1) % 256
  /\ UNCHANGED <<nextRetryTime, call, found>>

\* Fault: abp's lowest rate for both.
LowerToZero ==
  /\ pc = "retry" /\ initDataRate > 0
  /\ pc' = "sleep"
  /\ initDataRate' = initDataRate - 1
  /\ UNCHANGED <<nextRetryTime, call, found>>

\* if (initDataRate > LORAMAC_JOIN_MIN_DATARATE), or 0
LowerRate ==
  /\ pc = "retry" /\ initDataRate > Lowest(loop)
  /\ pc' = "sleep"
  /\ initDataRate' = initDataRate - 1
  /\ UNCHANGED <<nextRetryTime, call, found>>

\* Fault: divided before it is multiplied.
LongerTruncated ==
  (nextRetryTime + (nextRetryTime \div 100) * RETRYTIME_PERCENT) % WORD

\* Fault: the part instead of the sum.
LongerPartOnly == (nextRetryTime * RETRYTIME_PERCENT) \div 100

\* nextRetryTime += (nextRetryTime * RETRYTIME_PERCENT) / 100, in uint32_t
Longer ==
  (nextRetryTime + ((nextRetryTime * RETRYTIME_PERCENT) % WORD) \div 100) % WORD

\* Fault: the maximum is not looked at.
BackOffUncapped ==
  /\ pc = "retry" /\ initDataRate <= Lowest(loop)
  /\ pc' = "sleep"
  /\ nextRetryTime' = Longer
  /\ UNCHANGED <<initDataRate, call, found>>

\* At the lowest rate.  The maximum is compared with the time before it is
\* lengthened.
BackOff ==
  /\ pc = "retry" /\ initDataRate <= Lowest(loop)
  /\ pc' = "sleep"
  /\ nextRetryTime' = IF nextRetryTime < maxNextRetryTime
                      THEN Longer ELSE maxNextRetryTime
  /\ UNCHANGED <<initDataRate, call, found>>

\* xtimer_sleep(nextRetryTime)
SleepEnds ==
  /\ pc = "sleep" /\ pc' = "join"
  /\ UNCHANGED <<initDataRate, nextRetryTime, call, found>>

Called == \E l \in {"otaa", "abp"}, rate \in Rates, first, longest \in Times :
            Call(l, rate, first, longest)
Joined == \E addr \in Addresses : JoinSucceeds(addr)

Next == Called \/ JoinFails \/ Joined \/ LowerRate \/ BackOff \/ SleepEnds

Spec == Init /\ [][Next]_vars

\* The loop runs, the MAC answers and the timer fires.  The network need never
\* let the device in, nor the application call.
FairSpec == Spec /\ WF_vars(JoinFails \/ Joined \/ LowerRate \/ BackOff \/ SleepEnds)

-----------------------------------------------------------------------------
(* Properties.                                                             *)

\* The types; the data rate, a uint8_t, never rises above what was asked for,
\* as it would if it wrapped.
TypeOK ==
  /\ pc \in {"idle", "join", "retry", "sleep"}
  /\ loop \in {"otaa", "abp"}
  /\ given \in [rate : 0..255, time : 0..(WORD - 1)]
  /\ initDataRate \in 0..given.rate
  /\ nextRetryTime \in 0..(WORD - 1) /\ maxNextRetryTime \in 0..(WORD - 1)
  /\ devaddr \in SUBSET (0..31)

\* The longest a loop may come to sleep.
Overshoot == maxNextRetryTime + (maxNextRetryTime * RETRYTIME_PERCENT) \div 100

\* The maximum is exceeded, since it is compared before the time is lengthened,
\* but by no more than one step, whatever the 32-bit arithmetic does.
DelayBounded == nextRetryTime <= Overshoot \/ nextRetryTime = given.time

\* A device first tries every slower data rate its kind of join allows, and no
\* slower one, before it sleeps longer.
RateFirst ==
  /\ initDataRate < given.rate => initDataRate >= Lowest(loop)
  /\ nextRetryTime # given.time => initDataRate <= Lowest(loop)

\* maxNextRetryTime * RETRYTIME_PERCENT is below 2^32 (5 years at 25 percent).
NoWrap == maxNextRetryTime * RETRYTIME_PERCENT < WORD
            /\ Overshoot < WORD

\* The time never shrinks but to the maximum: a device that cannot join spares
\* its battery more and more.
NeverSooner ==
  [][NoWrap /\ pc = "retry" =>
       nextRetryTime' >= nextRetryTime \/ nextRetryTime' = maxNextRetryTime]_vars

Lengthens == NoWrap /\ pc # "idle" /\ given.time * RETRYTIME_PERCENT >= 100
Settled   == pc = "idle" \/ nextRetryTime = maxNextRetryTime

\* A device that cannot join comes to sleep exactly the maximum between tries;
\* integer division makes 4 seconds the least first time for which it does.
DelaySettles == Lengthens ~> Settled

-----------------------------------------------------------------------------
(* What the comments say.                                                  *)

\* "print the Operator for the DevAddr": the network named is the one whose
\* prefix the address has.
NamesNetwork == network # "none" => network = get_lorawan_network(devaddr)
=============================================================================
