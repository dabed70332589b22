# A TLA+ verification of the LoRa firmwares of RIOT_NyAlesund

The repository holds small RIOT OS firmwares for LoRa stations in the Arctic: a
relay between LoRaWAN endpoints and a gateway, a snow depth station, a link that
carries GPS corrections from a base station to a rover, the LoRaWAN endpoints
that go with them, and the utilities they share.  Each is a main loop, one or
two threads and interrupts that share global variables with no lock.  This
directory models them in TLA+, checks them with TLC and proves the central
results with TLAPS.

## Inventory

| Component | Source (`src/`) | State | Operations | Hard behaviours |
|---|---|---|---|---|
| Relay | `lora_relay/Relay/main.c` | `flagMessageRecv`, `flagTxDone`, `message`, `len`, `iq_inverted`, `transmissionDirection`, the radio's state and I/Q, the watchdog | boot; poll, configure, arm, send, kick, wait, flip, reprogram, clear; the callback's events | the callback preempts main anywhere; I/Q changes with the radio on; watchdog; damaged frames and lost transmissions |
| Snow depth station | `lora_snowdepth/main.c` | ring buffer, printer's message queue, `decompte`, `val`/`index`, `_mutex`, sensor power | `rx_cb`, the printer's period, join in `main` | interrupt against thread on an unlocked ring buffer; bounded queue that drops; what one period leaves to the next |
| GPS base | `lora_GPS/main.c` (no `RXROVER`) | `message`, `compteurin`, `oldcompteurin`, `indice`, radio | `_rstx_thread`, `main`, `_event_cb` TX | thread against main on an unlocked counter; end of burst guessed from two samples |
| GPS rover | `lora_GPS/main.c` (`RXROVER`) | `message`, `indexin`, `oldindexin` | `_event_cb` RX, `_rsrx_thread` | interrupt against thread on an unlocked index |
| Join utilities | `*/loramac_utils.c` (3 identical copies) | data rate, next and longest retry time | two join loops, network lookup, key forging | retry and back-off, 32-bit arithmetic |
| Endpoint, simple example | `lora_relay/Endpoint/main.c`, `lora_relay/simpleExample/main.c` | where main is, the sleep it is in, the LoRaMAC package | join once, send and sleep for ever; a thread that prints downlinks | both ends of a half duplex path run on their own clocks; the relay is away after each uplink; the endpoint's messages are confirmed and repeated |
| Listener | `lora_relay/ListenOnly/main.c` | `flag`, `message`, `len`, `temp` | `_event_cb` RX; main's line, byte by byte | `message` and `len` replaced while they are read; a line of fixed size |
| Host tools | `lora_GPS/application/*.c`, `2512_meshtastic/*.py`, `2604_meshcore/*.py`, patches | none, or in programs that are not here | - | - |

The firmwares interact only over the air: endpoints and snow stations send
plain I/Q frames that the relay repeats to the gateway, the gateway answers with
inverted I/Q; the GPS base sends raw LoRa packets to the rover.  Inside a firmware
main, the threads and the interrupts interact through globals, except that the
snow station's interrupt also sends messages to its printer thread.

What makes each correct: the **relay** sends each frame with the polarity it
was heard with, at most once, never changes the polarity under a frame on the
air, always returns to its endpoints, and once it has kicked its watchdog is restarted
with a frame on its way only when stuck; the
**snow station**, as long as no interrupt tears its ring buffer, never reads a
sentence that is not there, stays inside `val`, sends something unless bytes were
overwritten, and keeps reporting; the **base** puts on the air exactly the
bytes that came, from inside its buffer; the **rover** writes exactly the
packets that came, up to its limit; the **listener** writes what it hears
without going back to what is left of earlier frames; the **join loops** lower the rate first, then
lengthen the delay, up to a maximum; and an **end device with the relay and a
gateway** gets each of its messages to the gateway before it sends the next, once if the
message is unconfirmed, and begins none while the relay sends.  `PROJECT.json` lists under `hazards` what
could go wrong, line by line, and the property that would catch it.

## Modules

| Module | Models | TLC | TLAPS |
|---|---|---|---|
| `Relay` | the relay, its radio and its watchdog | `MCRelay`, `MCRelayForgets` | `RelayProofs` |
| `RelayPromise` | what the relay promises its peers (abstract) | refined by `Relay` (`KeepsPromise`) | `RelayKeepsPromise` |
| `RelayNet` | an end device (endpoint or simple example), the relay and a gateway on the air; extends `Relay` | `MCRelayNet` | `RelayNetProofs` |
| `Telemetry` | what an end device may count on (abstract) | refined by `RelayNet` (`KeepsReporting`) | its safety, `ReportingIsSafe` |
| `SnowDepth` | the snow depth station and its sensor | `MCSnowDepth`, `MCSnowDepthStale` | `SnowDepthProofs` |
| `GpsBase` | the base station and its serial line | `MCGpsBase`, `MCGpsBaseSilence` | `GpsBaseProofs` |
| `GpsRover` | the rover | `MCGpsRover`, `MCGpsRoverReceiving` | `GpsRoverProofs` |
| `Listener` | the listener and its receive thread | `MCListener` | `ListenerProofs` |
| `JoinRetry` | the join loops and the network table | `MCJoinRetry`, `MCJoinRetryNetwork` | `JoinRetryProofs` |

A run checks the specification itself: the constants of a module are its
capacities and times, which the `MC*.cfg` files give their values, and no further
module is needed in between.  Variables carry the names of the code's variables; those
marked "history" or "environment" in a module have none.  An action is one step
of one actor that no other actor can split: what main does between two accesses
to shared state, a whole callback, a whole interrupt.  Definitions whose comment
begins with "Fault:" are plausible errors in the definition that follows them;
`PROJECT.json` pairs each property with a fault that violates it, and they take
no part in `Next`.

### Relay

`pc` follows the loop of `main` (lines 325-412): `Poll` reads `flagMessageRecv`
(328), `Configure` sets the parameters and I/Q (340-347), `Arm` the watchdog
(349-350), `Send` is `test_send` (352), `Kick` is `wdt_kick` (359), `TestTx` and
`WaitEnds` the loop on `flagTxDone` (367-370), `Flip` lines 372-382, `Reprogram`
line 383, `ClearFlag` line 389.  `RxComplete`, `TxComplete` and `Unhandled` are
the cases of `_event_cb`, run by the receive thread: it has the higher priority,
so main moves only when no interrupt is posted (`irq = None`); only `Reprogram`,
which holds the bus, may have to finish with an interrupt just posted.  The radio
(`FrameStarts` ... `SendTimesOut`), `Tick` and `Bite` are external.  Constants of the
program that never change (frequency, spreading factor, sync word) are left out,
as is `_recv_thread`'s queue: the radio raises one interrupt per operation.

Time is counted in ticks, between the time the code needs between two waits and
the shortest frame on the air (0.66 s at spreading factor 12).  A tick passes
only while main polls or waits, no interrupt is pending and nothing on the air is
due.  `RelayAssumption` is the one timing assumption: a frame and one `wait(22)`
last less than the watchdog's 8 s.  At spreading factor 12 this holds for every
LoRaWAN frame (51 bytes, 2.8 s); a raw frame of 255 bytes lasts about 9 s and is
outside it.

`RelayPromise` knows three things: the leg, whether the relay listens, holds a
frame, sends it or is down, and the polarity of the frame.  The mapping
(`legBar`, `phaseBar`, `polBar`) ignores the flags, the watchdog and the order
of the assignments.

### RelayNet

The end device's main is at its keys (`setup`), in `semtech_loramac_join`
(`joining`), in `semtech_loramac_send` (`InSend`: `sending`, `waiting`,
`repeating`), before or asleep between messages (`ready`), or has returned
(`stopped`).  `program` says which of the two programs it is.  They differ in the
sleep of 10 s after the join (`SleepAfterJoin`), which only the simple example has;
in the mode of their messages (`Confirmed`); and in the radio parameters, which do
not matter here: the LoRaMAC package sets its own for each frame, on the one
frequency `lora_relay/README.txt:12-23` patches into it.  `JoinRequest`,
`JoinFails`, `JoinSucceeds`, `SendMessage`, `SendRefused` and `SendReturns` are what
main does there.  The receive thread of the simple example only prints.

The simple example calls `semtech_loramac_set_tx_mode(.., LORAMAC_TX_UNCNF)` (line
84): one frame a message.  In the endpoint that call is commented out (line 193), so
the package sends in its own mode, confirmed: within the call on line 199 it waits
for an acknowledgement (`AwaitAck`) and, if none comes in `ACK_WAIT`, sends the frame
again (`Repeat`), `TRIALS` times at most.  `ACK_WAIT` is the least it waits; it may
wait any longer, for its windows, its random delay or the duty cycle, so that a
repetition finds the relay anywhere: on the gateway's leg, sending, restarting.  A
downlink that the relay passes on while the device waits may be the acknowledgement
(`DeviceHears`); the device need not get one.

The relay is `Relay` itself, not its promise, since what matters is when it
listens: every step of `RelayNet` is a step of `Relay` or leaves it alone
(`NetIsRelay`, proved), so all that is shown of `Relay` holds here too.  What was
"another station" there is told apart: a plain frame is the device's, and if
nobody listens for it when it starts it is lost (`Transmit`); an inverted frame
is the gateway's (`GatewaySends`), whenever it likes and for whomever it likes.
A transmission that ends is heard at the other side (`GatewayHears`,
`DeviceHears`); a downlink heard while the device waits for one may be its join
accept.  One device, as in the repository's set-up; no noise, since an unconfirmed
message that noise destroys is not repeated by anybody.

A tick is one second.  The device's times are the least it waits, so the
receive windows of the package and the drift of two clocks are included: a sleep
of `PERIOD` may last any number of ticks from `PERIOD` on.

`join`, `uplink` and `fresh` are history: how far the request and the last
message have come, and whether a message sent now would follow the join at once.
`Telemetry` is what the user of the device sees of these: a message is underway
or delivered, the next is not sent before, and only a confirmed one is delivered
again.

### SnowDepth

`RxCb` is `rx_cb`; `Setup`, `Joined`, `JoinFailed` are `main`; `Lock`, `PowerUp`,
`Receive`, `GetOne` (with `Keep` and `AfterByte`), `Report` are `printer`.  A byte
is a carriage return or not, of the banner or of a measure, written since the
last power up or before.  `AddOne` is RIOT's `ringbuffer_add_one`, which overwrites
the oldest byte of a full buffer.  `RingTakes` is that call from an interrupt, which
may hit `ringbuffer_get_one` (line 116) anywhere:

- before it has stored `avail`, the new byte is not counted, or a full buffer loses
  two of its oldest bytes instead of one (`Mislay`);
- between the store of `avail` and that of `start`, the new byte overwrites the newest
  one, which may be a carriage return whose message is posted, and a byte of an
  earlier turn of the buffer is uncovered behind it (`Tear`).

`torn` is a history variable: the second has happened.  What a torn buffer leads to is
in the model and not ruled out by any property: the printer runs past its sentence,
goes on in the empty buffer until the next byte (`Spinning`) and may fill `val`
beyond its end (`Smashed`), where the model stops, what the program does then being
undefined.  TLC reaches all of these on the instance of `snow`.  `slipped` says that
the printer works faster than 9600 baud: at most one byte arrives while it works off
its queue, unless it spins; any number arrive while it waits or sends.  `overrun` is a
history variable: since the last power up a byte has come to a full buffer while
the printer read.

The sensor is the environment: a banner of `BANNER` sentences at power up, then
measures.  `lora_snowdepth/maxbotix_wakeup.csv`, a trace of its line at 9600 baud,
has six sentences of 5 to 20 bytes and then measures of 5 (`R1794`), which gives
the code's numbers: `RING` 128, `QUEUE` 8, `VAL` 128, `DISCARD` 5, `TOTAL` 9,
`BANNER` 6, `BLEN` 20, `MLEN` 5.  `RingAssumption` (the sentences of a full queue and
one byte fit the ring buffer) and `ValAssumption` (the sentences kept fit `val` when each
is cut, joined to a banner sentence and preceded by a byte of the one before) hold of
them: 109 < 128 and 123 <= 128.

### GpsBase and GpsRover

`ReadByte` is one turn of `_rstx_thread`; `Sample` to `Loop` are the loop of
`main` (311-347), with `compteurin -= SX127X_LORA_MSG_QUEUE` split into its read
and its write, between which the thread may count bytes.  `Receive` is the
RX_COMPLETE case of the rover's callback; `Sample` to `Restart` are
`_rsrx_thread`.  A byte, or a packet, is its number in the burst, so "in order,
once and whole" can be said.  Main's reads of `compteurin` at lines 316, 318 and 344
are one step (`Sample`); no packet is lost on the air to the rover, whose callback
only prints what it does not know (line 214).  Between two samples (25.6 ms, 51.2 ms) a burst brings
something unless it is over: at 115200 baud a byte takes 0.09 ms and a packet of
64 bytes at 500 kHz and spreading factor 7 takes about 30 ms.  Since only the code
can say what happens when a burst does pause, `paused` (base) and `uniform`
(rover: all bursts have one length) are initial choices of the environment.
`fresh` (base) records whether main had cleared `oldcompteurin` when the burst
began: it has not after a burst that is a multiple of the packet, and then main
may send the next one too early and lose bytes of it.  A burst is `Steady` when it
does not pause and is fresh; the safety properties of the base but its type are stated
for such bursts, the liveness properties of both for all.

`Steady` and `uniform` are preconditions that exclude more than a pause.  A steady
burst is over when main sends, so no byte comes between the read and the write of
`compteurin` (line 329) and none raises it beside `indice` (line 335): of a burst that
goes on there, only `CounterInRange` and `BurstLeaves` speak.  With bursts of one
length no packet comes between lines 260 and 262 of the rover: of longer bursts after
shorter ones only `WritesForward`, `IndexInBurst` and `BurstComesOut` do.

### Listener

`Receive` and `Unexpected` are the cases of `_event_cb` that a radio which never
sends can reach; `Poll` to `ClearFlag` are main's loop (314-339), with a step for
each test of `k < len` and one for each byte written.  A byte of `message` is the
number of the frame that wrote it, which tells a byte left over from one just
heard.  `digits` is 1 or 2, as `%x` gives.  Once `temp` is full what follows is
undefined and main is not followed further (`overrun`).

### JoinRetry

`Call`, `JoinFails`, `LowerRate`, `BackOff`, `SleepEnds` and `JoinSucceeds` are the
lines 97-153 (OTAA) and 158-203 (ABP, whose lowest rate is 0).  A word is its set
of bits: `&` is intersection, a shift moves a byte to its place.  No program of the
repository calls these loops: every `main` tries to join once and gives up.  They are
modelled as the utilities they are, for any start rate and times a caller may give.
`NeverSooner` is stated as long as no product wraps (`NoWrap`); `DelayBounded` and
`RateFirst` are stated for those that wrap too.

## Runs

| Run | Shows | Bounds |
|---|---|---|
| `relay` | 9 properties of the relay with noise on | watchdog 8 ticks, frames up to 3, wait 2: a frame is short enough and long enough for an arrival in every step, a watchdog armed earlier may be anywhere in its count, also at its end when a frame starts; 3,275 states |
| `relay_forgets` | **violated**: a frame that arrives while another is relayed is dropped by line 389 | as `relay`, no noise |
| `relay_net` | a device that joins and reports through the relay: the relay is not on the air when the device joins or begins a message, what it hears of a message the gateway has not had is not lost, every message is delivered before the next, an unconfirmed one once (`Telemetry`, with its liveness), except the one the endpoint sends straight after the join | watchdog 8 s, frames up to 3 s, wait 2 s, pause 10 s, period 30 s, as in the code; a confirmed message sent up to 3 times, each 3 s or more after the last, so that a repetition meets the relay on the gateway's leg, sending, restarting and listening again; 86,029 states |
| `snow` | unless the buffer is torn: no sentence is read from an empty buffer; `val` holds; reports are not empty unless bytes were overwritten. Torn or not: reports go on for ever while `val` holds | buffer of 13 bytes, queue of 3, 4 sentences of which 3 dropped, a banner of 3 sentences of 4 bytes and measures of 2, `val` of 9: the least that the assumptions allow; as in the code the banner has as many sentences as are dropped and longer ones, one of them may come after a measure waits, the queue is one short of a period; buffer and queue both overflow, bytes are lost, a torn buffer and leftovers happen; 134,496 states |
| `snow_stale` | **violated**: the first period is right; its leftovers are counted among the sentences dropped in the second, and the banner's last bytes are kept | as `snow`; nothing is torn or overflows in the trace |
| `gps_base` | every steady burst goes on the air whole, in order, from inside the buffer; every burst, steady or not, ends | buffer 6, packets of 2, bursts of 1, 2, 3 and 5: shorter than a packet, one packet exactly, several packets, last one short; 110,000 states |
| `gps_base_silence` | **violated**: after a burst that is a multiple of the packet size main sends during the next burst | bursts of 2 and 5 |
| `gps_rover` | bursts of one length are written whole up to the limit; of bursts of any lengths nothing is written twice or out of order; every burst comes out | limit 4, bursts of 1, 2, 4, 5 packets: below, at and above the limit; 13,000 states |
| `gps_rover_receiving` | **violated**: the length of the last burst is taken for the end of the next | bursts of 2 and 5 |
| `listen` | a line goes forward through the frames, overflows only for a frame too long alone, and is the frame when nothing else is heard; every flag is served | line of 8, frames of 0 to 4 bytes (3 fit, 4 may not), 3 frames in a run: the second and the third may each replace the one before while it is written; 80,000 states |
| `join` | the rate is lowered first, the delay overshoots by one step at most and settles | three rates, four times below and above the wrap of a 10-bit word; 1,700 states |
| `join_network` | **violated**: the network is always "Unknown" | two addresses |

A larger instance adds no new case: the capacities matter only through "full",
"empty" and "a multiple of the packet", the times only through their order.

`RelayNet` has the code's own times.  With a period of 16 s, twice the watchdog,
`NoUplinkLost` fails and with 17 s it passes, so the bound of `NetAssumption` is the
least.

The bounds named in the modules are `Sizes` (lengths of bursts), `MaxFrames`
(frames the listener hears) and the start values of the join loops; nothing else
is capped.

**Fairness.** RIOT's scheduler runs a thread that is ready, a posted interrupt is
served, an operation of the radio ends with an event or a timeout, the sensor
and the receiver complete the sentence or burst they started, and timers fire:
weak fairness of those actions.  Time passes in the relay's waiting loop although
the loop keeps changing state: strong fairness of `Tick`.  In the composition the same
holds of the relay's steps and the clock, and of nothing the device or the
gateway does.  Nobody is obliged to send, to join, or to answer.

### What the violated runs say

Each states what a line of the repository says and is listed under `findings`.
Three of them have one cause in common: state that is not reset where a cycle
ends (the ring buffer and queue, `oldcompteurin`, `oldindexin`).
`NoFrameForgotten` is the opposite, a flag reset without a look at it, and
`NamesNetwork` an `&` in place of `|`.

### What the snow station's run says

- A message stands for a carriage return only because the sentences of a full
  queue fit the ring buffer (`RingAssumption`).  The run has the least buffer that the
  assumption allows.  With less the printer reads on in an empty buffer and fills `val`
  with -1, as it does when an interrupt tears the buffer.
- Nothing in the code keeps the interrupt out of `ringbuffer_get_one`.  One that falls
  between its two stores brings the printer to an empty buffer and past the end of
  `val`: the three safety properties hold only until then (`~torn`).  The window is a few
  instructions long and a byte takes a millisecond, so this is rare, and no test
  would find it; it is not made up for later, except that reports go on if `val` is
  spared.
- `LengthNotNegative` fails without `~overrun`, on this instance and with the
  code's own numbers.  The backlog that the report of one period leaves in the
  buffer makes it overflow in the next, because the banner that arrives is longer
  than the measures that are read; of the last sentences only the carriage returns
  are left, `index` is 0, and 255 bytes are asked for.  Nothing in the repository
  promises otherwise, so no run claims it; the hazard is listed.

### What the composition says

- The watchdog is what makes the relay usable: after an uplink it hears only the
  gateway, and where no downlink comes the bite, 8 s later, brings it back to its
  endpoints.  With the condition that is commented out in line 348 (`ArmGatewayOnly`)
  `KeepsReporting` fails.
- It is never stopped, and may restart an idle relay that has just received a
  frame.  The frames of one device, 30 s apart, are out of its reach
  (`NoUplinkLost`); with a sleep of less than two watchdogs, or with a second
  device that keeps its own time, they are not.
- A repeated message does not change this: each frame that the relay hears starts its
  watchdog, and the device sleeps its whole period after the last repetition, by which
  time the relay is back.  But nothing keeps a repetition and the relay apart: the
  device may be on the air with it (TLC reaches `device = "repeating"` with the relay
  transmitting), the repetition is then lost, and the gateway may get a message twice.
  `NoCollision` therefore speaks of the request and of the first sending only.
- The watchdog may restart the relay with a frame on the air at one place: `Arm` keeps
  the count of an earlier frame, and `wdt_kick` (line 359) comes only after
  `test_send` has started the next (line 352).  TLC reaches it in `relay`.
  `RestartOnlyWhenStuck` says that it is the only place.
- A relay that has just relayed an uplink is away for at most two watchdogs and a
  second: a downlink relayed just before the bite starts it again in full.
- The endpoint's first message, sent as soon as the join returns, may be lost; the
  simple example's cannot, because of the 10 s it sleeps first.
- Between the request to join and the accept the relay has to send the one, turn
  round and hear the other whole, before its watchdog bites: hence the changed
  delays of `lora_relay/README.txt:17-18`.

## Proofs

| Theorem | States | Assumption |
|---|---|---|
| `RelayProofs!TypeCorrect`, `PolarityIsPreserved`, `GatewayLegIsGuarded` | the three invariants of the relay | `RelayAssumption` |
| `RelayProofs!NeverReprogrammedOnAir`, `NeverSentTwice`, `RestartsOnlyWhenStuck` | its three action properties | `RelayAssumption` |
| `RelayProofs!RelayKeepsPromise` | `Relay` implements `RelayPromise` | `RelayAssumption` |
| `RelayNetProofs!NetIsRelay` | the relay in the composition is a behaviour of `Relay` | both of these |
| `RelayNetProofs!NetTypeCorrect`, `NeverCollide`, `UplinksAreKept` | the invariants and the action property of the composition, for every number of trials and wait for an acknowledgement | `RelayAssumption`, `NetAssumption` |
| `RelayNetProofs!ReportingIsSafe` | the composition implements the safety part of `Telemetry` | `RelayAssumption`, `NetAssumption` |
| `GpsBaseProofs!CounterInRange` | `compteurin` stays in `0..BUFSIZE` | `BaseAssumption` |
| `GpsBaseProofs!BurstSentAsReceived`, `PacketsInBuffer`, `BurstIsSentWhole` | a steady burst leaves in order and once, from inside the buffer, to its end | `BaseAssumption` |
| `GpsRoverProofs!IndexInBurst`, `WritesForward` | bursts of any lengths: `indexin` stays within the burst, nothing is written twice or out of order | `RoverAssumption` |
| `GpsRoverProofs!BurstIsWrittenWhole`, `WriteIsLimited`, `NothingForgotten` | bursts of one length are written whole up to the limit, and `indexin = 0` forgets nothing | `RoverAssumption` |
| `ListenerProofs!TypeCorrect`, `TempIsLargeEnough`, `LinesGoForward`, `QuietLineIsWhole` | the four invariants of the listener | `ListenerAssumption` |
| `JoinRetryProofs!TypeCorrect`, `DelayIsBounded`, `RateComesFirst` | the three invariants of the join loops | `JoinAssumption` |
| `JoinRetryProofs!SleepsNoSooner` | their action property: the sleep never becomes shorter but to its maximum | `JoinAssumption` |
| `JoinRetryProofs!NetworkAlwaysUnknown` | whatever the address, the network named is "Unknown": what `join_network` shows for two | `JoinAssumption` |
| `SnowDepthProofs!SnowTypeOK`, `SnowMessageHasSentence` | the types; each message taken has a carriage return in the buffer, unless it was torn | `SnowAssumption`, `RingAssumption` |
| `SnowDepthProofs!SnowValFits` | what is kept fits `val`, unless the buffer was torn | these and `ValAssumption` |
| `SnowDepthProofs!SnowLengthNotNegative` | a report is not empty unless the buffer overflowed while it was read or was torn | `SnowAssumption`, `RingAssumption` |

*Relay.*  The properties are not inductive: that a frame is sent with its own
polarity depends on the radio's I/Q being main's except for the one step between
`Flip` and `Reprogram`, on a frame being heard only with the radio's I/Q, and on
no transmission being on the air there.  The inductive invariant `IInv` says, besides the
types, what the radio may be doing in each state (`RadioInv`), at boot
(`DownInv`) and during a transmission (`TxInv`: one is on the air, or its end is
posted, only while main kicks, tests and waits, and `flagTxDone` is set only from
then until `Flip`), relates the polarities (`PolarityInv`) and the frame held
(`HoldingInv`), and bounds what is left of the transmission, and of the wait
after it, by what is left of the watchdog (`WatchdogInv`), which is where
`MaxAir + WAIT < WDT` is used.  It bounds nothing between `test_send` and the kick,
where the count may be an earlier frame's.  The action properties and the step
simulation follow from it, action by action.

*RelayNet.*  Why the device always finds the relay listening is a matter of time,
and the invariant is a bound: `Until` is the longest the relay may still need
before it listens to endpoints with its watchdog off if none of them sends.  A
step of the relay never lengthens it (`UntilStep`), a tick shortens it by one
(`UntilTick`), and a frame of the device, first or repeated, sets it to at most the
frame and two watchdogs (`TransmitUntil`).  So when the call to send returns it is
below the device's sleep (`TimeInv`), whose length exceeds twice the watchdog, and it
is zero when the device wakes.  During and after the join the relay is in one of the
places it passes on its way home (`After`), or hears the device (`Arriving`).  From
there `AirInv` gives that the relay is silent while the device joins or begins a
message, and `FrameInv` follows a frame that the gateway waits for through `main`
with the watchdog off or just started.  `MessageInv` says that a message underway is
in one of the places a frame may be, and an unconfirmed one delivered in none of them.
`RecentInv` is what repetitions need: while a message underway is still in the relay
and not sent, its wait for an acknowledgement has not begun to run, so no repetition
comes before the relay has sent it, and one that comes after cannot harm it.

*GpsBase.*  The subtraction is safe because what main has seen stays: the thread
only adds, so `compteurin >= QUEUE` holds from the test to the read, and
`tmp >= QUEUE` to the write (`PacketCounted`).  For the bursts, `SInv` adds what a
steady one keeps (`BurstInv`): while main samples, all that was received is still
counted, and a count that has not changed means that no byte came since the last
sample, hence that the burst is over; from then on what is sent and what is left
make up what was received, and the next packet begins at `message[sent]`
(`SendingInv`).

*GpsRover.*  For bursts of any lengths (`ForwardInv`) the counted part of `message`
goes forward, and all of it is later than what was written of the burst, except
between the end of a write and `indexin = 0`; so `indexin = 0` is what keeps a
packet from being written twice.  For bursts of one length (`UniformInv`)
`oldindexin` keeps the length of the last burst, which `indexin` reaches only when
the burst is complete, and two samples in the middle of a burst differ because a
packet came between them: the thread leaves `sample` only when nothing is due, and
no packet comes between the test of line 256 and `indexin=0` in line 264.

*Listener.*  A place that a frame reached holds that frame or a later one
(`MessageInv`), and when main was allowed the byte `k` some frame, no older than
any already written, reached it (`Current`): so the byte it takes, even if another
frame arrives between the test and the read, is no older either (`LineInv`).

*JoinRetry.*  `LongerBounded` is the arithmetic: a step from below the maximum
ends at most a quarter above it, since a remainder is no larger than what was
divided; `LongerGrows`: without a wrap it is its own remainder, and so no shorter.

*SnowDepth.*  The invariants, each checked by TLC on the instance of `snow` and
on others before it was proved.  All but the types hold as long as the buffer is not
torn, and `torn` never becomes FALSE again (`TornStays`), so each step is proved from
an untorn state to an untorn one:

- `TypeInv` is by itself inductive, torn or not: `decompte` cannot pass `TOTAL`
  since `GetOne` counts only in a period that is not over.
- `PInv` counts.  Once the backlog is worked off at most one message waits at a
  time (`PeriodInv`), so a period ends with the queue empty; the sentences read
  are the sensor's own but for `QUEUE` of them (`SaidInv`); no carriage return
  comes while the printer is at work (`SlowInv`).
- `FoundInv` gives each message its carriage return: an increasing function says
  how far from the end of the buffer they are.  While the report is sent the
  `j`-th is within `j` measures and what the banner's sentences among them are
  longer (`Near`); later all are within `Held` bytes, one more once a byte has
  come.  `Held + 1 < RING` keeps every one of them from being overwritten, also when
  an interrupt in `ringbuffer_get_one` makes a full buffer lose two bytes
  (`EndsSkip`).  A message may be dropped, and its carriage return is then no longer
  counted; a byte that the interrupt fails to count is no carriage return (`SlowInv`)
  and moves nothing.
- `GapInv` bounds the bytes between two carriage returns by `BLEN + Longest` (`Joint`):
  a sentence that the sensor was powered down in goes on with the banner.  The first
  sentence of the buffer may have one byte more (`Gap`), kept from the sentence before
  when the byte behind it was skipped.  `KeptInv`
  follows what is kept through the sentences; the byte that arrives while one is
  read is behind its carriage return, which `FoundInv` says is there.
- `ApartInv` says that no two carriage returns are adjacent, also when a byte is
  lost; so the first sentence that is kept is not empty
  (`SomeInv`), unless an overflow took its bytes.

**Model-checked only:** the liveness properties `ReturnsToEndpoint`,
`ReturnsToPoll`, `KeepsReporting`, `ReportsForever`, `BurstLeaves`, `BurstComesOut`,
`FlagServed` and `DelaySettles` (fairness and ENABLED are outside the prover's
fragment).  The properties the code violates are no theorems.  Every invariant and
every action property that a passing run checks is proved.

## Not modelled

The drivers, RIOT and the LoRaMAC package are not in the repository: they appear
as environment actions, as the code uses them.  Left out: printing, radio
parameters written once (`lora_setup_cmd`, `set_param`, `print_param`,
`debug_cmd`, `debug_print`), `loramac_utils_forge_euis_and_key` (a copy and a
hash), the host tools and decoding scripts, build files and logs.  Two remarks
that no run states: the listener forgets a frame in the same way as the relay
(line 337), and it sets inverted I/Q only (line 294), so it hears gateways and no
endpoints, which `lora_relay/README.txt:5` also promises.

Base and rover are not composed: what the base is proved to put on the air (the
packets of a burst, in order, once, to its end) is what the rover's environment
does (`BurstStarts`, `Receive`), and the air between them adds nothing that the
code handles.  The patch of `2604_meshcore` changes the alert queue of a program
that is not in the repository; of that program the patch shows too little (when
tasks leave the queue) to say what the queue should do.

## Plan

Done, in this order: the relay with its promise and proofs, the snow station, the
base and the rover, the counter proof, the join loops and their proofs, the proofs
that a steady burst leaves as it came, the listener and its proofs, the end device
with the relay and its proofs, the rover's proofs, the snow station's, and the rest
of the join loops'.

Left: a second end device in `RelayNet`.  Two devices that are not synchronised may
starve each other, and the relay's deafness for the watchdog's period then loses
frames for which no promise holds: what to state is the question, not how.

