-------------------------- MODULE JoinRetryProofs --------------------------
(***************************************************************************)
(* Proofs about JoinRetry: for every data rate, every pair of times and    *)
(* every width of the counter, a loop lowers the rate no further than its  *)
(* kind of join allows, lengthens its sleep only then, and sleeps at most  *)
(* one step longer than its maximum.                                       *)
(***************************************************************************)
EXTENDS JoinRetry, TLAPS

IInv == TypeOK /\ DelayBounded /\ RateFirst

\* A remainder is no larger than what was divided.
LEMMA RemainderIsLess ==
  ASSUME NEW n \in Nat, NEW d \in Nat \ {0}
  PROVE  n % d \in 0..(d - 1) /\ n % d <= n
  OBVIOUS

\* Lengthening a time below the maximum goes one step beyond it at most.
LEMMA LongerBounded ==
  ASSUME NEW t \in Nat, NEW max \in Nat, t < max,
         NEW percent \in Nat, NEW word \in Nat \ {0}
  PROVE  LET longer == (t + ((t * percent) % word) \div 100) % word
         IN  longer \in 0..(word - 1) /\ longer <= max + (max * percent) \div 100
<1> DEFINE part == (t * percent) % word
<1> DEFINE sum  == t + part \div 100
<1>1. t * percent \in Nat /\ max * percent \in Nat
  OBVIOUS
<1>2. t * percent <= max * percent
  <2>1. (max - t) * percent \in Nat
    OBVIOUS
  <2>2. max * percent = t * percent + (max - t) * percent
    OBVIOUS
  <2> QED BY <1>1, <2>1, <2>2
<1>3. part \in Nat /\ part <= t * percent
  <2> DEFINE product == t * percent
  <2>1. product \in Nat
    BY <1>1
  <2> HIDE DEF product
  <2>2. product % word \in 0..(word - 1) /\ product % word <= product
    BY <2>1, RemainderIsLess
  <2>3. product % word \in Nat
    BY <2>2
  <2> QED BY <2>2, <2>3 DEF product
<1> HIDE DEF part
<1>4. part \div 100 \in Nat /\ part \div 100 <= (max * percent) \div 100
  <2>1. part <= max * percent
    BY <1>1, <1>2, <1>3
  <2> QED
    <3> DEFINE most == max * percent
    <3>1. most \in Nat /\ part \in Nat /\ part <= most
      BY <1>1, <1>3, <2>1
    <3> HIDE DEF most
    <3>2. part \div 100 \in Nat /\ part \div 100 <= most \div 100
      BY <3>1
    <3> QED BY <3>2 DEF most
<1>5. sum \in Nat /\ sum <= max + (max * percent) \div 100
  <2> DEFINE step == (max * percent) \div 100
  <2>1. step \in Nat
    BY <1>1
  <2> HIDE DEF step
  <2>2. part \div 100 \in Nat /\ part \div 100 <= step
    BY <1>4 DEF step
  <2> QED BY <2>1, <2>2 DEF step
<1>6. sum % word \in 0..(word - 1) /\ sum % word <= sum
  <2> HIDE DEF sum
  <2> QED BY <1>5, RemainderIsLess
<1>7. sum % word \in Nat /\ (max * percent) \div 100 \in Nat
  BY <1>1, <1>6
<1>8. sum % word <= max + (max * percent) \div 100
  <2> DEFINE step == (max * percent) \div 100
  <2>1. step \in Nat /\ sum \in Nat /\ sum <= max + step
        /\ sum % word \in Nat /\ sum % word <= sum
    BY <1>5, <1>6, <1>7
  <2> HIDE DEF step, sum
  <2>2. sum % word <= max + step
    BY <2>1
  <2> QED BY <2>2 DEF step
<1> QED BY <1>6, <1>8 DEF part

\* At boot nothing was asked for.
LEMMA InitIInv == Init => IInv
  BY JoinAssumption
  DEF Init, IInv, TypeOK, DelayBounded, RateFirst, Lowest, JoinAssumption

\* The call starts afresh, whatever the previous one left.
LEMMA CallIInv ==
  ASSUME IInv, NEW l \in {"otaa", "abp"}, NEW rate \in Rates,
         NEW first \in Times, NEW longest \in Times,
         Call(l, rate, first, longest)
  PROVE  IInv'
<1>1. rate \in 0..255 /\ first \in 0..(WORD - 1) /\ longest \in 0..(WORD - 1)
  BY JoinAssumption DEF JoinAssumption
<1> QED BY <1>1 DEF Call, IInv, TypeOK, DelayBounded, RateFirst, Lowest

\* The two steps that answer a failure.
LEMMA RetryIInv == ASSUME IInv, LowerRate \/ BackOff PROVE IInv'
<1>0. Lowest(loop) \in 0..255 /\ WORD \in Nat \ {0} /\ RETRYTIME_PERCENT \in Nat
  BY JoinAssumption DEF Lowest, JoinAssumption
<1>1. CASE LowerRate
  BY <1>0, <1>1
  DEF LowerRate, call, found, IInv, TypeOK, DelayBounded, Overshoot, RateFirst,
      Lowest
<1>2. CASE BackOff
  <2>1. nextRetryTime' \in 0..(WORD - 1) /\ nextRetryTime' <= Overshoot
    <3>1. nextRetryTime \in Nat /\ maxNextRetryTime \in 0..(WORD - 1)
      BY <1>0 DEF IInv, TypeOK
    <3>2. CASE nextRetryTime < maxNextRetryTime
      BY <1>0, <1>2, <3>1, <3>2, LongerBounded DEF BackOff, Longer, Overshoot
    <3>3. CASE ~(nextRetryTime < maxNextRetryTime)
      <4>1. nextRetryTime' = maxNextRetryTime
        BY <1>2, <3>3 DEF BackOff
      <4>2. maxNextRetryTime * RETRYTIME_PERCENT \in Nat
        BY <1>0, <3>1
      <4>3. (maxNextRetryTime * RETRYTIME_PERCENT) \div 100 \in Nat
        BY <4>2
      <4> QED BY <3>1, <4>1, <4>3 DEF Overshoot
    <3> QED BY <3>2, <3>3
  <2>2. UNCHANGED <<initDataRate, loop, maxNextRetryTime, given, devaddr>>
        /\ pc' = "sleep" /\ initDataRate <= Lowest(loop)
    BY <1>2 DEF BackOff, call, found
  <2>3. TypeOK'
    BY <2>1, <2>2 DEF IInv, TypeOK
  <2>4. Overshoot' = Overshoot
    BY <2>2 DEF Overshoot
  <2>5. DelayBounded' /\ RateFirst'
    BY <2>1, <2>2, <2>4 DEF IInv, DelayBounded, RateFirst, Lowest
  <2> QED BY <2>3, <2>5 DEF IInv
<1> QED BY <1>1, <1>2

\* Every step keeps the invariant.
LEMMA NextIInv == IInv /\ [Next]_vars => IInv'
<1> SUFFICES ASSUME IInv, [Next]_vars PROVE IInv'
  OBVIOUS
<1> USE DEF IInv, TypeOK, DelayBounded, Overshoot, RateFirst, Lowest, call, found
<1>1. CASE Called
  BY <1>1, CallIInv DEF Called
<1>2. CASE JoinFails
  BY <1>2 DEF JoinFails
<1>3. CASE Joined
  <2> PICK addr \in Addresses : JoinSucceeds(addr)
    BY <1>3 DEF Joined
  <2>1. addr \in SUBSET (0..31)
    BY JoinAssumption DEF JoinAssumption
  <2> QED BY <2>1 DEF JoinSucceeds
<1>4. CASE LowerRate \/ BackOff
  BY <1>4, RetryIInv
<1>5. CASE SleepEnds
  BY <1>5 DEF SleepEnds
<1>6. CASE UNCHANGED vars
  BY <1>6 DEF vars
<1> QED BY <1>1, <1>2, <1>3, <1>4, <1>5, <1>6 DEF Next

\* So it always holds.
LEMMA Invariance == Spec => []IInv
  BY InitIInv, NextIInv, PTL DEF Spec

\* The data rate never wraps below zero, and everything has its type.
THEOREM TypeCorrect == Spec => []TypeOK
<1>1. IInv => TypeOK
  BY DEF IInv
<1> QED BY <1>1, Invariance, PTL

\* The sleep between two tries exceeds the maximum by one step at most, for
\* every width of the counter: a product that wraps only makes it shorter.
THEOREM DelayIsBounded == Spec => []DelayBounded
<1>1. IInv => DelayBounded
  BY DEF IInv
<1> QED BY <1>1, Invariance, PTL

\* The rate is lowered first, and to the lowest of its kind of join only.
THEOREM RateComesFirst == Spec => []RateFirst
<1>1. IInv => RateFirst
  BY DEF IInv
<1> QED BY <1>1, Invariance, PTL

\* What is below the divisor is its own remainder.
LEMMA RemainderIsSame ==
  ASSUME NEW n \in Nat, NEW d \in Nat \ {0}, n < d
  PROVE  n % d = n
  OBVIOUS

\* Without a wrap a time below the maximum does not become shorter.
LEMMA LongerGrows ==
  ASSUME NEW t \in Nat, NEW max \in Nat, t < max,
         NEW percent \in Nat, NEW word \in Nat \ {0},
         max * percent < word, max + (max * percent) \div 100 < word
  PROVE  t <= (t + ((t * percent) % word) \div 100) % word
<1> DEFINE product == t * percent
           most    == max * percent
<1>1. product \in Nat /\ most \in Nat /\ product <= most
  <2>1. (max - t) * percent \in Nat
    OBVIOUS
  <2>2. max * percent = t * percent + (max - t) * percent
    OBVIOUS
  <2>3. t * percent \in Nat /\ max * percent \in Nat
    OBVIOUS
  <2> QED BY <2>1, <2>2, <2>3
<1>2. most < word /\ max + most \div 100 < word
  OBVIOUS
<1> HIDE DEF product, most
<1>3. product % word = product
  BY <1>1, <1>2, RemainderIsSame
<1>4. product \div 100 \in Nat /\ most \div 100 \in Nat
      /\ product \div 100 <= most \div 100
  BY <1>1
<1>5. t + product \div 100 \in Nat /\ t + product \div 100 < word
      /\ t <= t + product \div 100
  BY <1>2, <1>4
<1>6. (t + product \div 100) % word = t + product \div 100
  BY <1>5, RemainderIsSame
<1> QED BY <1>3, <1>5, <1>6 DEF product

\* As long as nothing wraps, the sleep between two tries never becomes shorter
\* but where it comes back to the maximum.
THEOREM SleepsNoSooner == Spec => NeverSooner
<1> DEFINE A == NoWrap /\ pc = "retry" =>
                  nextRetryTime' >= nextRetryTime \/ nextRetryTime' = maxNextRetryTime
<1>1. ASSUME IInv, [Next]_vars PROVE [A]_vars
  <2> SUFFICES ASSUME NoWrap, pc = "retry", Next PROVE A
    BY <1>1
  <2>1. /\ nextRetryTime \in Nat /\ maxNextRetryTime \in Nat
        /\ WORD \in Nat \ {0} /\ RETRYTIME_PERCENT \in Nat
    BY <1>1, JoinAssumption DEF IInv, TypeOK, JoinAssumption
  <2>2. LowerRate \/ BackOff
    BY DEF Next, Called, Call, JoinFails, Joined, JoinSucceeds, SleepEnds
  <2>3. CASE LowerRate
    BY <2>1, <2>3 DEF LowerRate
  <2>4. CASE BackOff
    <3>1. CASE nextRetryTime < maxNextRetryTime
      <4>1. nextRetryTime' = Longer
        BY <2>4, <3>1 DEF BackOff
      <4>2. nextRetryTime <= Longer
        BY <2>1, <3>1, LongerGrows DEF Longer, NoWrap, Overshoot
      <4> QED BY <4>1, <4>2
    <3>2. CASE ~(nextRetryTime < maxNextRetryTime)
      BY <2>4, <3>2 DEF BackOff
    <3> QED BY <3>1, <3>2
  <2> QED BY <2>2, <2>3, <2>4
<1>2. IInv /\ [Next]_vars => [A]_vars
  BY <1>1
<1> QED BY <1>2, Invariance, PTL DEF Spec, NeverSooner

\* The bytes of an address have no bit in common, so their conjunction is 0.
LEMMA WordIsZero == ASSUME NEW addr PROVE DevAddrWord(addr) = {}
<1>1. \A n : n \in (8 * 3)..(8 * 3 + 7) /\ n \in (8 * 2)..(8 * 2 + 7) => FALSE
  OBVIOUS
<1>2. \A n : n \in DevAddrWord(addr)
               => n \in (8 * 3)..(8 * 3 + 7) /\ n \in (8 * 2)..(8 * 2 + 7)
  BY DEF DevAddrWord, ShiftedByte
<1> QED BY <1>1, <1>2

\* No network of the list has the prefix 0.
LEMMA ZeroIsUnknown == get_lorawan_network({}) = "Unknown"
<1>1. ASSUME NEW i \in DOMAIN lorawan_networks, BelongsTo({}, lorawan_networks[i])
      PROVE  FALSE
  <2>1. lorawan_networks[i][1] = {}
    BY <1>1 DEF BelongsTo
  <2>2. i \in 1..13
    BY DEF lorawan_networks
  <2>3. /\ 26 \in lorawan_networks[1][1] /\ 26 \in lorawan_networks[2][1]
        /\ 26 \in lorawan_networks[3][1] /\ 26 \in lorawan_networks[4][1]
        /\ 26 \in lorawan_networks[5][1] /\ 25 \in lorawan_networks[6][1]
        /\ 25 \in lorawan_networks[7][1] /\ 25 \in lorawan_networks[8][1]
        /\ 29 \in lorawan_networks[9][1]
    BY DEF lorawan_networks
  <2>4. /\ 26 \in lorawan_networks[10][1] /\ 26 \in lorawan_networks[11][1]
        /\ 26 \in lorawan_networks[12][1] /\ 26 \in lorawan_networks[13][1]
    BY DEF lorawan_networks
  <2>5. \E n : n \in lorawan_networks[i][1]
    BY <2>2, <2>3, <2>4
  <2> QED BY <2>1, <2>5
<1> QED BY <1>1 DEF get_lorawan_network

\* Whatever address a device is given, the network it is told it belongs to is
\* "Unknown".
THEOREM NetworkAlwaysUnknown == Spec => [](network \in {"none", "Unknown"})
<1> DEFINE Told == network \in {"none", "Unknown"}
<1>1. Init => Told
  BY DEF Init
<1>2. Told /\ [Next]_vars => Told'
  BY WordIsZero, ZeroIsUnknown
  DEF Next, Called, Call, JoinFails, Joined, JoinSucceeds, LowerRate, BackOff,
      SleepEnds, found, vars
<1> QED BY <1>1, <1>2, PTL DEF Spec
=============================================================================
