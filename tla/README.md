# A verification of the wireless network simulator

The program (`src/Simulation of wireless network/`) is a discrete-event simulator, written by the
activity-scanning method, of `k` transmitter-receiver pairs that share one radio channel.
Transmitters use a CSMA scheme: they probe the channel at intervals, count down idle time, send a
packet, wait for an ACK and, without one, back off and retry a limited number of times.  Most of
the repository, by lines, is the logging library spdlog with the formatting library fmt in it, which
the program is built with.

The core of this directory verifies the simulator: that its events, executed in the order of its
scan, keep the promises of the protocol and count what they claim to count; that every run starts
from seeds of its own; and that what it allocates has one owner.  Around it are models of those parts of
spdlog and fmt that keep state or compute something: queue, asynchronous logger, registry, sinks, formatters,
writers and buffers.

## 1. The system

### Components, state, operations

| component | state it keeps | operations |
|---|---|---|
| `Transmitter` | FIFO buffer, down counter, retransmission counter, seven flags, time stamp of the first attempt, latest packet length | fields set by events; `reset` |
| `Receiver` | three flags: packet received, not collided, not corrupted | fields set by events; `reset` |
| `Channel` | transmissions under way; update, busy and collision flag | push, `removeTranFromChannel`, `reset` |
| `Statistics` | received and lost per pair; totals of retransmissions, await time, delay | increments by events; averages; `reset` |
| timed events (7 kinds) | one time each, -1 when not scheduled | `execute` when the time is 0 |
| conditional events (13 kinds) | none | `execute` when `isTriggered()` |
| `Simulation` | clock, event lists, targets | `run`, `resetAndInitialize`, `isInitialPhaseOver`, `isTargetCriteriaMet`, `loadRNGSeeds` |
| `RandomNumGen` | kernel | uniform, rounded, exponential, zero-one draws |
| seed file | a line of kernels per run | `generateRNGSeedsToFile`, `readRNGSeedsFromFile` |
| `main` | - | seeds, objects, `kSimulationRuns * kRepeatCount` runs on the same objects, the report |
| `mpmc_bounded_queue` | items, one mutex, two condition variables | `enqueue`, `enqueue_nowait`, `dequeue_for` |
| `async_log_helper` | queue, worker thread, flush flag and time | `log`, `flush`, worker loop, destructor |
| `logger`, `dist_sink` | sinks, levels, error handler | `log`, `flush`, add and remove a sink |
| `registry` | loggers by name, defaults for new ones, mutex | create, register, get, drop, settings for all |
| file sinks | current file, its size, its limit or time | `log`, rotation by size, by day, by step |
| console sinks | attributes of the console | print a message with a range in colour |
| `pattern_formatter` | compiled pattern, cached UTC offset | compile, format |
| `BasicWriter`, `MemoryBuffer` | text and where it is kept | write number, string, character, double; grow, move |
| `BasicFormatter` | place in a format string, argument counter | parse, pick arguments |

`check_comm_status_event.cpp`, `update_tx_down_counter_event.*`, `channel_emptied_event.cpp` and
`reset_tx_down_counter_event` (no extension) are left-overs nothing uses.

### Interaction

The simulator is one thread.  `Simulation::run` looks at every event in a fixed order, kind by kind and
within a kind pair by pair, and executes those that are due; passes are repeated until one executes
nothing; then all scheduled timers count down by one, the clock advances, and the scan begins
again.  Events never call each other: they talk through the flags of the objects, through the
channel, and by scheduling other events' timers.  `main` cuts one run (time is up or a target is
reached) and starts the next on the same objects, after giving each generator its next seed.

In spdlog, a logger formats a message with its formatter, over fmt's writer and buffer, and calls its sinks one
after the other; an asynchronous logger puts it into the queue instead, and the worker calls the sinks.  The registry
creates loggers and hands them out by name.  `main` uses one synchronous logger with a file and a console sink from one
thread; the library promises more than that, and it is the library's promises that the models are about.

### What is hard

* **Ordering.**  Everything due at one clock value happens in scan order and possibly over several
  passes.  The correctness of ACK time-outs, carrier sensing, and collision marking depends on which
  stage comes first and on which pass sees which change.
* **Interleaving of pairs.**  Pairs share the channel and its two flags.  The random draws make every
  relative timing of the pairs possible.
* **Stale state.**  The carrier-sense flag is a snapshot taken once per clock value; the collision flag
  is shared and persistent; the down counter stays 0 while a transmission lasts; end events keep pointers to
  transmissions that were deleted.
* **Time-outs and retries.**  The wait for the ACK is computed in advance; the retry limit is split over
  two events.
* **Cut runs.**  A run can end with anything half done and the next uses the same objects.
* **Counting.**  Totals and counts of one packet are taken at different times, around the end of the
  initial phase.
* **Threads.**  Queue, registry, loggers and sinks are called by several threads, with more than one mutex and with gaps
  between a check and its use.
* **Failure.**  Sinks throw in the middle of a loop over sinks; opening, renaming and removing files fails; the process ends
  between two renames.
* **Memory.**  Objects reached through plain pointers, buffers whose memory moves, characters that are never written.

PROJECT.json lists the hazards at their lines with the properties that would catch them.

### What makes each component correct

* channel: a transmission is there exactly while its end is scheduled; only packets that start at the
  same clock value overlap; an ACK is never disturbed; each receiver gets the right collision verdict;
* stop and wait: the wait covers the ACK; a time-out means failure; packets leave in order, are accepted
  at most once, and are given up only after the permitted attempts;
* contention: nobody is stranded, probes are decided at once, starts follow enough idle time;
* statistics: times never go negative, totals and counts are of the same packets, the averages fit together;
* runs: every scan and every run ends, the reset hides nothing, no two generators go through the same draws;
* objects: deleted once, not used afterwards, not lost;
* loggers: every sink gets what it should, once, in order; calls return; a name keeps its logger; settings reach all;
* files: the newest messages are there without a gap, and only the oldest file is ever given up;
* text: what is shown means what was written, at its width, with no character left unwritten.

## 2. Modules

### The simulator

| module | models |
|---|---|
| `WirelessNetwork` | constants with their assumptions; all state of the objects and timers; construction and reset; type invariants |
| `Events` | the twenty kinds of event: trigger conditions and effects |
| `Simulation` | the scan, the clock, early termination, the runs: `Init`, `Next`, `Spec`, `FairSpec` |
| `PacketDelivery` | abstract specification: what a pair promises with no channel and no timers |
| `SimulationProperties` | safety, action, refinement and liveness properties |
| `SimulationHistory` | history variables that watch the simulator, properties that need them, and their invariant |
| `StatisticsReport` | the averages and rates `main` writes after a run, and what must hold among them |
| `SimulationInvariant` | the inductive invariant of the simulator |
| `StatisticsInvariant` | the inductive invariant of the totals and the report, on top of the other two |
| `RandomNumGen`, `Seeds` | the arithmetic of the generator; the seed file and the hand-out of seeds to generators and runs |
| `Ownership` | who allocates and deletes which object |

`Simulation` EXTENDS `Events`, which EXTENDS `WirelessNetwork`.  `SimulationProperties` maps the
simulator to `PacketDelivery` with INSTANCE.

### The libraries

| module | models |
|---|---|
| `BoundedQueue` | `mpmc_bounded_queue`: lock, wait, wake-up and notification of several producers and consumers |
| `AsyncLogHelper` | asynchronous logger: clients, worker, overflow policies, flush interval, destructor |
| `AsyncLogging` | abstract specification of it, with no queue and no thread |
| `Registry` | creating, registering and dropping loggers, and settings for all of them, by several threads |
| `Logger` | the synchronous logger, a distribution sink, sinks that throw, the error handler |
| `ConsoleSinks` | coloured console sinks, of Windows and with escape codes |
| `FileSystem`, `RotatingFileSink`, `DailyFileSink`, `StepFileSink`, `FileSinks` | files; sinks that begin a new one by size, by day, by step; failures, crashes and restarts; the three next to each other |
| `PatternFormatter`, `OffsetFormatter` | patterns of a line; the cached offset from UTC |
| `WriterFields`, `BasicWriter`, `WriteDouble` | fields of numbers and strings; integers; floating-point numbers by way of the C library |
| `FormatterBase`, `FormatString` | picking arguments; format strings with fields in braces |
| `MemoryBuffer` | buffers that keep text in themselves or in a block of memory |

`AsyncLogHelper` uses the queue as `BoundedQueue` shows it to be: putting in and taking out are atomic.

### Model checking and proofs

`MCSimulation` and `StatisticsInvariant` are the simulator without and with history.  `MCProgram`, `MCLogging` and `MCText`
instantiate the other modules; `MCPatterns`, `MCWriter` and `MCFormat` hold the inputs for three of them.

The proofs about the simulator are in `SimulationProofs` (types, timers and flags of one pair; the channel and how it is
sensed; times and packets, the refinement; state and past; totals and report).
`ProgramProofs` is about generator, seeds and the ownership of objects, `QueueProofs` about the bounded queue, `AsyncLogProofs`
about the asynchronous logger and its refinement of `AsyncLogging`, `SinkProofs` about what a line meets on its way (the
synchronous logger, coloured consoles, the cached offset), `TextProofs` about files and buffers, `DoubleProofs` about
floating-point numbers.  `LoggingProofs` proves the
registry, takes up the results of the three before it, and so states the properties of the run `logging` as they are checked.

Components that have no state in common share a run: a variable `part` chooses one of them when a behaviour begins, and in
that behaviour only this one takes steps.  The reachable states are the disjoint union of those of the parts, so nothing
is lost against a run for each: a property of one component only depends on the variables of that component.  For liveness,
each fairness condition names the part it belongs to; strong fairness of threads of different parts is put into one
condition, which is the same, since in a behaviour at most one of its disjuncts is ever enabled.

### How the model corresponds to the code

* A field of `Transmitter` or `Receiver` is a function from pair indices to its values.  The pointers that
  couple a pair are set at construction (and to the same value on each reception); one index names both.
* A packet is its generation time; nothing else of it is read.  A transmission is a packet of pair `i` or an
  ACK to pair `i`; the channel's vector is a set, since nothing reads its order and a pair never has two of
  a kind under way - which is a property (`PairUsesChannelOnce`), not an assumption.
* Each event class is an action of `Events`; `isTriggered` is the operator `...Triggered`, a timed event is due
  when its time is 0.  Each random draw is an `\E` over the values the generator may return: packet lengths
  (`TransmissionTimes`), inter-arrival times (`GenIntervals`, 0 included, as the code rounds down), back-off
  multipliers (all of `0 .. 2^r - 1`), channel corruption (`BOOLEAN`).
* The scan is not modelled check by check.  `(stage, turn)` is the event executed last in the pass; an event
  that is not due changes nothing, so the next step executes the first event after that position that is due
  (`Turn`).  `stage # 0` is `was_event_triggered_`.  `NewPass` starts another pass; `Tick` is the clock update
  of a pass that executed nothing.  This leaves one step per executed event.
* Times are integers in units of `kMinimalTimeStep`, which is 1 in `main.cpp`.
* Targets and averages are exact fractions; the code divides floats.
* A `catch (...)` in an event's `execute` only logs; nothing in the bodies throws in the states of the model
  (`TimestampsOrdered` shows that `front()` always finds a packet).
* `Seeds` computes with the real formula of `rand()`, in a word just large enough for the modulus; a draw that is rounded
  is the integer division with the same value.  If the seed file cannot be opened for writing, the stream swallows what is
  written and the program reads whatever an earlier run of it left.
* `Ownership` reduces the scan loop to its packets and transmissions; an allocation takes any free address, also one a
  stale pointer still holds.  Of the channel's vector it keeps how often each address is in it; that this is never more than
  once is part of `RunOwnsItsObjects`.
* With threads, what a thread does while it holds a mutex nobody can look behind is one step, and what happens between two
  such sections is a step of its own.  `notify_one` wakes any one waiting thread; waits may end by time or for no reason.
* A sink that throws, a file that cannot be opened, renamed, removed or written, and the end of the process between any
  two calls of the file system are choices of the model.
* Characters are members of small sets.  A place of a buffer that was never written holds `Unwritten`, of which nothing is
  assumed.  Words have `W` bits: the code's 32 are replaced by fewer where the smallest number matters.
* Model bounds: `MaxPackets` (arrivals per transmitter and run; the draw beyond the end of the run is always
  possible), `Runs` (runs of `main`'s loop), `IdleBound` (history only), `MaxDraws` (draws of a generator in a run),
  `MaxCalls`, `MaxItems`, `MaxLogged`, `MaxMessages`, `MaxTime`, `MaxTrouble`, `MaxLength`, `MaxCapacity`, `MaxAppend`: how much
  threads call, how long the clock runs, how often something fails, how long texts are.  `generated` counts arrivals for the
  first bound and has no counterpart in the code.

Operators introduced by a comment `Seeded defect` are variants of the definition that follows them.  They are
not part of the model; each was put in place of that definition to see that a property notices the defect.  A property that
is a conjunction has one for nearly every conjunct.

## 3. Runs

| run | instance | question |
|---|---|---|
| `contention` | 2 pairs, ACK 2, counter 4, interval 2, lengths 2 and 3, one packet each, two runs of 50 steps, with fairness | do carrier sensing, collision flag and down counter work together; does every scan, run and packet come to an end? |
| `queueing` | 2 pairs, ACK 1, counter 2, length 2, two packets each, 36 steps | is stop-and-wait right when packets queue; does the simulator implement `PacketDelivery`? |
| `three_pairs` | 3 pairs, lengths 2 and 3, 26 steps, with history | does the one collision flag serve three receivers? |
| `statistics` | 2 pairs, two packets, statistics from step 7 on, two runs, targets of 2 packets and 100 % retransmissions | do totals and counts fit; are targets exact? |
| `two_runs` | 2 pairs, lengths 2 and 3, one packet each, two runs of 44 steps that end at 2 packets received, 1 lost or an error rate of 100 %, with history | is `StatisticsInv`, which contains all invariants the proofs use, invariant, also through the reset of a network that was cut; are carrier-sense flag, retransmission counter and idle time what they stand for; are packets conserved and do the averages agree? |
| `program` | seeds: modulus 31, one pair, two runs, five old seed files; objects: two pairs, three addresses, two runs | is every generator of every run seeded, with draws of its own; is every object deleted once and none used after? |
| `logging` | queue of 2 with two producers and two consumers; asynchronous logger with two clients that wait, or one that discards; registry with two threads; logger with two threads, a distribution sink and a sink that throws; three threads at coloured sinks; two at a cached offset | is every message delivered, once, in order, flushed when asked for; does the queue keep each producer's order, and lose no wake-up; do its threads never all wait; do settings and names hold; is the console as it was? |
| `logging_progress` | the same with a queue of 1, one message per thread, three threads at the registry, with fairness | do calls return, does the destructor end, is what is written flushed; does the asynchronous logger implement `AsyncLogging`? |
| `text` | files: 6, 4 and 4 messages with 3, 2 and 2 failures or crashes; format strings of up to 4 of any characters and of pieces; numbers at the ends of their range in every alignment; doubles with buffers of 2, 3 and 16; 2 buffers, 3 blocks, capacity up to 3 | do files keep the newest messages; do formats mean what they say; are numbers and buffers whole? |
| `removal_limit` | violation | see findings |
| `await_time` | violation | see findings |
| `average_rate` | violation | see findings |

**Bounds.**  Two pairs give every interaction between a pair and the rest of the network; three are needed for a
packet that ends while two others still collide.  `MaxRetranCount = 2` gives a first attempt, a
retry and a loss, with back-off multipliers 0 and 1.  Lengths 2 and 3 (the shortest not below the check interval)
let collisions be staggered in their ends.  The counter needs two probes after the marking one (4 with
interval 2), or one (2).  The run lengths are enough for every packet to leave on every path
(`EveryPacketLeaves` would fail otherwise).  `ACK = 1` in `queueing` is shorter than the check interval, so an ACK may fall
between two probes; the properties there do not need it to be seen.  The program's own values (ACK 10, counter
55, interval 5, lengths 10..100) have the same order relations as `ACK = 2`, counter 4, interval 2.

In `program`, 3 is a primitive root of 31, so the small generator has a full period, and the old files are one that fits, one a
seed short, one a run short, one for a larger network, and none.  In `logging`, two producers and two consumers are the
fewest with which a notification may wake the wrong one.  In `text`, two old files and the current one give the
first, a middle and the last rename; 3 failures allow two failed attempts and a crash; capacities 2 and 3 make a
floating-point number grow the buffer once and more than once.

**Fairness.**  The simulator's `FairSpec` is `Spec` with `WF_vars(Next)`.  The program is one thread that waits for nothing, so
as long as a step is possible one is taken; nothing weaker makes sense, nothing stronger is assumed: the draws
are not fair, every packet may be corrupted every time.  In `logging_progress` a thread that is inside a call goes on with
it (weak fairness per thread), time passes, and a thread that waits for a mutex that is free again and again gets
it in the end (strong fairness of those steps), which is what a mutex of an operating system gives.  Nobody has to begin a
call, no wait has to end by time, and nobody has to destroy a logger.

**Findings.**  Comments disagree with the code in three places.  `transmitter.h:61` says a packet is removed when the counter is
greater than the maximum; the code removes it when they are equal (`removal_limit`).  `statistics.h:47` says the
await time is that of packets received; the code adds that of lost ones too and then divides by the number
received (`await_time`).  `statistics.cpp:63` and `:84` speak of the maximum of the error rates and of their average for the
system; a receiver that received nothing has the rate 0.0 (`:78`), however many of its packets were lost, and so the average
can be above the maximum (`average_rate`).

**Remarks.**  Seen while modelling, and part of the models, without a run of their own:

* `Simulation::~Simulation` empties the vectors of the pairs' generators before it deletes what is in them, so that these are
  never deleted; the events that reduce the counters are not deleted either.
* spdlog: `flush()` of an asynchronous logger returns before anything is flushed (`async_logger.h:149`); the
  flush interval is looked at after every message, not only when the queue is empty (`async_log_helper.h:320`);
  creating a logger under a name that exists truncates the file before it throws; `set_error_handler` of the registry takes
  no mutex; the limit of one error report per minute is not kept by threads that get there together; a synchronous
  logger skips the sinks behind one that throws, an asynchronous one does not; a daily rotation may be late by a message
  when the time of it passes between two readings of the clock; a failed rotation by size gives up one old file per attempt;
  the step sink may rename the file of a logger made anew within a second over that of its predecessor; `%I` shows noon and
  midnight as 00; `%z` prints the local offset in a pattern of UTC time, too.
* fmt: a closing brace before `=` is not taken for a fill character and the field is refused (`{:}=5}`); a centred floating-point number is lost
  when the buffer has to grow for its padding; left-aligned ones are padded with blanks whatever the fill; `{:#o}` of 0
  is `00`; a buffer that was moved from keeps size and capacity of what it gave away.

## 4. Proofs

Every safety, action and refinement property of the simulator that a run checks is also proved, and so are those of `main`
(seeds, objects), of the loggers (queue, asynchronous logger, registry, synchronous logger, consoles), of files, of
buffers and of floating-point numbers.  Of the simulator: for any number of pairs and
runs, any set of packet lengths, any ACK length, limits, targets and run length, from `NetworkAssumption`,
`SimulationAssumption` and, for the count-down, `CounterAssumption` (the counter is a multiple of the interval, as 55 is of 5).

**The pairs** (`SimulationProofs`).  `PairInv == TypeOK /\ LinkInv /\ ContendInv` is inductive (`PairsAreConsistent`).

* `TypeOK` alone is not inductive: the outcomes of a transmission take the head of the buffer, so there must be
  one, and the back-off multiplies by the packet length, so one must have been drawn.
* `Link(i)` ties the timers of pair `i` to what it has on the channel.  While its packet is sent, the wait
  has the packet's remaining time plus an ACK plus 1 to go; while the ACK is sent the ACK's remaining time plus 1;
  when the ACK has arrived exactly 1.  So the wait never ends before the ACK has, at any stage of
  any scan.  When the clock advances, nothing is due (`QuietFacts`), so no timer passes 0 unseen and the
  differences stay.
* `Contend(i)` says when a transmitter probes: only if active, idle and with a packet.  It gives `Link` the
  facts about buffer and activity.

From it follow `TypeOK`, `TransmissionHasItsEnd`, `ListeningCoversAck` and `TimeoutMeansFailure`.

**The channel** (`SimulationProofs`).  `AccessInv` adds five parts, none of which is inductive without the others (`AccessIsOrdered`):

* `SenseInv`: the channel is sensed before any event that reads the flag, since these come at stage 5 or later and the timer of
  the update is always 0 or 1.
* `AirInv`: the properties of the channel, and that at most one ACK is owed, on a channel that is empty until it starts.  The latter
  is why an ACK is alone although nobody senses the channel for it: the packet it answers was alone, and while it was on the
  channel every transmitter found the flag set.
* `ExpiredInv`: a counter of 0 was reduced in this very pass, on an idle channel, and its start is still ahead in it.  Thus
  packets that overlap have started at one clock value.  This depends on the order of the stages and is where
  the position of the scan enters.
* `ProbeInv`, `CountInv`: a probe that is not decided will be within the pass, and the counter is a multiple of the
  interval, so that it meets 0 and never passes it.

From these follow `AckAlone`, `OverlapIsRecorded`, `OverlapsStartTogether`, `CounterStartsTransmission`, `PairUsesChannelOnce`,
`ProbeIsDecidedAtOnce` and `NoStrandedTransmitter`.

**Packets** (`SimulationProofs`).  `IInv` adds `AwaitInv`: generation, first transmission, ACK and clock are ordered, with a lower bound
for the time each phase took (`InvariantHolds`).  From it: `TimestampsOrdered`, and, step by step, that the simulator implements
`PacketDelivery` (`SimulatorImplementsDelivery`): the start of an ACK is the abstract acceptance, a wait that ends without an ACK a failure, the
packet's leaving a completion or a giving-up, the reset between runs a restart, and every other step an arrival or a stutter.  `PacketsAreConserved` is inductive relative to `IInv`.

**State and past** (`SimulationProofs`).  The history variables record what happened; `HistoryInv` says what the state knows of it
(`HistoryIsConsistent`): the last tick decides the carrier-sense flag (`SnapshotInv`); the collision flag
tells the past of a packet that has been on the channel for a while, and the present of one that has just started
(`ReceptionInv`); a transmitter that has found the channel idle either is about to find it busy, or the channel has been idle ever since
its first idle probe (`IdleInv`).  The last one holds because no packet fits between two probes (`PacketsOutlastIntervals`).
Theorems: `AttemptsCounted`, `BusyFlagIsSnapshot`, `ReceptionMatchesOverlap`, `StartsAfterIdle`.

**Totals and report** (`SimulationProofs`).  What `Total` computes is shown by induction on the number of pairs.  The
induction is over a set of numbers rather than a predicate (`SetInduction`), and is drawn from the library's theorem that the
finite sets are well-founded by inclusion, which the provers can use.  Every step is an acknowledgement, the
arrival of an ACK, an accounting, a loss, or changes nothing that is counted (`AccountCases`).  On these cases rest:

* `OutcomeInv`, `TotalsInv`: at most one packet is received and not yet in the totals (`TotalsMatchReceived`).
* `TargetInv`: the packet that reaches the target has its ACK started at the present clock value; as ACKs are alone, no second one
  starts before the loop is left (`TargetReceivedIsExact`).
* `AverageInv`, `PhaseInv`: what a packet adds to each total (`AveragesAgree`).
* `CapacityInv`: each packet received took a count-down, the shortest length at least and an ACK, one after the other
  (`ThroughputWithinCapacity`).

The proof showed that the last needs a run with more than one clock value: with `TargetSimTime = 0` the getter divides by
a time of 0.  That is now a hypothesis of the property; a condition on the ACK it had before turned out not to be needed.

**The generator and the seeds** (`ProgramProofs`).  `SchrageStep`: the split `kM = kA * kQ + kR` with `kR < kQ` (`SplitAssumption`) keeps every
intermediate value of `rand()` within the modulus, and with a prime modulus (`PrimeAssumption`) every kernel leads to a kernel.
The argument writes a kernel as `kQ * q + r` and bounds the two products.  `EveryRunIsSeeded` and `DrawsAreProductsAlways`
follow from an invariant of the seeds' types and phases, for any number of pairs and runs, and whatever file was found.

That no two generators go through the same draws (`SeedsServeEveryRun`) needs two facts that are assumed.  `PeriodAssumption`: the powers of `kA` go
through all `kM - 1` kernels before one returns, so that each kernel has a `Place` in one cycle: 16807 is known to be a
primitive root of the modulus, and TLC evaluates the statement for the small one.  That the code takes these powers is `SchrageStep`.  `DistanceAssumption`: the seeds of all runs
fit into one period, and an old file that is read in place of one that could not be written has its seeds apart, as a
file of this program has.  The inductive invariant is `StreamsInv`: seed `p` of line `a` follows the kernel the
program started from by exactly the draws made before it (`SeedsFollow`), and the kernels a generator has used are those that follow
its seed (`Drawing`, `DrawnIn`).  So two streams are pieces of one cycle that begin at least `NumericalDistance` apart.  Rounding
is counted (`DrawsAreSpread`): the kernels that round to a value are those between two multiples, whose number differs by one at most.

**Ownership** (`ProgramProofs`).  From `OwnershipAssumption`, for any number of pairs, runs and addresses, which are used again
as soon as they are free.  `OwnershipInv` is inductive (`OwnershipInvariantHolds`): to what the runs check it adds

* `StandingInv`: which objects there are at each point of `main`, by kind: so that what a destructor deletes is there, and what
  stands at the end is known to be the generators and one vector of events.
* `PhaseInv`: when the channel is emptied between two runs nothing is scheduled.  Without it an end event could meet, in the
  next run, a new transmission at the address its stale pointer holds; and the vectors of generators are empty when
  `~Simulation` gets to them.

`EveryObjectIsOwned` states `ObjectsAreOwned` of the program the run checks, of which the objects are one part.

**The queue** (`QueueProofs`).  From `QueueAssumption` (finite sets of threads), for any number of threads, places and calls.
`QueueInv` is inductive (`QueueInvariantHolds`): types, `FirstInFirstOut`, `ItemsAreNumbered`, `NoWakeUpIsLost`.

* `ItemsAreNumbered`: the numbers of a producer's items grow, and a call that still has to put its item in has the number of its
  last call, which no item has yet.  This is what `ProducersKeepOrder` lacks, which speaks of items only.
* `NoWakeUpIsLost` compares the length of the queue with the number of threads about to notify or to look.  `CountsAfterMove`
  says what one thread's move does to such a number; a notification moves two, one on either side, and it gives up its own
  place in the count only to a thread it has woken, or when nobody waits.
* From it follows `NotAllWait` (`ThreadsDoNotAllWait`): if all threads waited the counts would be 0, so that the queue would be
  empty and full.  This needs a thread on either side and a place (`spdlog.h:51` asks for a
  size that is a power of 2).

**The asynchronous logger** (`AsyncLogProofs`).  From `HelperAssumption`, for any number of clients and sinks, any levels and size of
the queue, under both overflow policies, sinks that fail and messages that cannot be formatted.  `HelperInv` is inductive
(`HelperInvariantHolds`):

* `BacklogInv`: there is a `Numbering` of the places of the queue by how many messages were accepted up to there, which begins
  with those handed on and ends with all.  So what the worker has is always the message that comes next, and nothing is left
  when queue and worker are empty.  The numbering is stated to exist, since how many of the queue's members are messages
  rather than requests is a recursion over it.
* `EndInv`: the terminate message is sent once, after the last call, and stays the last in the queue until the worker ends with it,
  having flushed.  `DestructionLeavesNothing` follows from this and the numbering.
* `FlushInv`: behind a message that asks for a flush, in the queue, with the worker or in a sink's buffer, there is a request, or a
  client about to send one.  `GraveMessagesReachTheFiles` is the case of an empty queue.  It needs the policy that waits for
  room, as the other one may discard the request.

* `NumbersInv`: no two accepted messages are the same, as each client numbers its own, and those the formatter threw on have been
  handed on.  Then a sink that does not fail has as many messages as there are places in the accepted sequence that it wants,
  each where the count of those before it says (`SinksHaveTheirMessages`).  Stated by counting, the property needs no recursion
  over the sequence, and a step only adds one place.

`HelperImplementsLogging`: the initial states and every step map to `AsyncLogging`, up to its fairness (`SafeSpec`): a message that
finds room is accepted, the worker hands on the next one, joining the worker closes, all else stutters.  All these
properties are conjuncts of `AsyncLoggingLosesNothing`, or part of `ImplementsAsyncLogging`, which the runs check.

**The registry** (`LoggingProofs`).  From `RegistryAssumption`, for any threads, names, values and numbers of calls.  `RegistryInv` is
inductive (`RegistryInvariantHolds`):

* `MutexInv`: a thread that constructs a logger, or is in a loop over them that needs the mutex, holds it, and the name of
  a logger under construction is free.  So a name keeps its logger (`NamesKeepTheirLoggers`), although it is looked up
  in one step and registered in another.
* `LoopInv`: a loop that stores its value has given it to every logger it has seen, and what it has not seen is still to come:
  no logger comes or goes meanwhile.  `SettingsReachEveryLogger` says this of settings nobody is in the middle of setting
  (`SettingsReachAll`).  The error handler is set without the mutex, which is why the property leaves it out.

**The synchronous logger** (`SinkProofs`).  From `LoggerAssumption`, for any threads, sinks, levels and lists, sinks that throw
and a distribution sink whose list changes.  `LoggerInv` is inductive (`LoggerInvariantHolds`):

* `StackInv`: a thread with a call is in the loop over the sinks of the logger, or within it in that of the distribution sink,
  and then it holds the mutex; an exception leaves neither.
* `Delivered`, `Secured`: a sink that wants the message of a call that threw nothing has it or is still to come in the loop;
  one that has a message that asks for a flush has flushed it, or is still to come in the loop that flushes.  At the end of
  the call nothing is to come (`MessagesReachTheirSinks`, `GraveMessagesAreSecured`).
* `NumberInv`: messages are numbered by the calls of their thread, so that what another thread writes is never mistaken for one's
  own message.

For the order behind the distribution sink, `OrderInv` adds that a message a sink behind it has is handed to it no more, and
that as long as its thread holds the mutex nothing comes after it (`OrderIsKept`).  This needs the logger to list the
distribution sink once: one listed twice hands on a message twice, and others may come in between.

**The console** (`SinkProofs`).  From `ConsoleAssumption`, for any threads, sinks and colours.  `ConsoleInv`: the label of
a thread tells how much of its message is shown, and mutexes are held by those that write (`PiecesComeInOrder`).  `ColourInv`: if
the attributes are not those the console began with, somebody is about to put them back.  For escape codes this is inductive with any
number of sinks; `wincolor_sink` puts back what it found, which is what the console began with only if no other
sink was in the middle of a message.  So `OrigColorsComeBack` has the hypothesis that such a console has a single sink: with one for
stdout and one for stderr, one may find the other's colour and put it back when the other is done.  With a single sink
messages are whole and only their range is coloured (`OneSinkKeepsMessages`).

**The cached offset** (`SinkProofs`).  `OffsetInv` bounds the time of the cache by the newest message.  That the first line is not
shown with the offset 0 the cache begins with follows from the clock, which is further from 1970 than `cache_refresh` (`OffsetsAreRecent`).

**The loggers together** (`LoggingProofs`).  `MCLogging` puts six parts side by side, of which one takes steps.  A step of it is
a step of every part or leaves it alone, so the invariant of each part holds in it (`AsyncLoggingKeepsItsPromises`,
`LinesReachTheirSinks`, `ConsoleGetsItsColoursBack`, `SettingsReachAll`, `NamesKeepTheirLoggers`): the proofs instantiate the modules above, and
show that the small instances satisfy their assumptions, which are conjuncts of `LoggingAssumption`.

**Files** (`TextProofs`).  From `FilesAssumption`, for any sizes and numbers of files, messages and failures, any day and step.
`FileInv` is inductive (`FileInvariantHolds`).

* By size: `PlaceInv` says which name is free at each point of a rotation, `SizeInv` that `_current_size` is never less than the
  file, also after a file could not be opened, `FullInv` that a file is given up only when every name is taken, if nothing has failed.  A message
  that is kept has all newer ones with it (`KeepsTheNewest`), through every crash, which cuts the last file and no other.
* By day: `DueInv` ties the time of the next rotation to when it was computed and when the file was opened, on which rests
  that a message is late by one at most (`RotationIsOnTime`).
* By step: under a temporary name there is no file newer than the current one, and a sink without a file has nothing under its name
  (`StepFileInv`, `StepCallInv`): so no rename loses one (`NothingIsLost`), and a full file grows in its second only
  (`FullFilesGrowForASecond`).

`FilesAreSound` is `FilesKeepTheNewest`; `OnlyTheOldestGoes` and the two just named are the files' part of `NoStepGoesBack`.

**Buffers** (`TextProofs`).  `BlocksStayOwned`: for any number of buffers and blocks and any texts, an allocated block has exactly one owner.
`OwnedOnce` is not inductive: a move overwrites the pointer of its target, which must not be the only one to its block, so
that the invariant adds that a buffer that is not constructed, or was moved from, has no block (`NoBlock`).
`ContentsStay`: what was put into a buffer is what it holds, in a memory of the capacity it believes to have.  `ContentsInv` says this
of the buffers that may be used: one that was moved from keeps size and capacity of what it gave away, and is only to
be destroyed or assigned to.

**Floating-point numbers** (`DoubleProofs`).  From `FloatAssumption` (texts, numbers and fill characters are made of characters, and a
buffer has room for what it holds) and `PlainCharacters`, for any numbers, specifications, earlier texts, capacities and either
C library; the run `text` evaluates both assumptions for its constants (`DoublesAreSuch`).  `FloatInv` is inductive (`FloatInvHolds`):
`Printing` says where the C library writes and that a sign has had its room made, also when the buffer has been replaced in between;
`Shown` which place of the finished text holds what.  `FloatsAreWritten` concludes `EarlierTextStays`, `FieldHasItsWidth` and
`PaddedWithFill`, and `NumberIsShown`, which says place by place what `NumberArrives` says of the text without its padding: the
characters of the number are next to each other at the side the alignment asks for, the sign before them or at the left end.  The number that is
centred without room (section 3) is the one exception, as there (`RoomForField`).  `EveryRoundMakesRoom` is `RoundsMakeRoom`.

**Only model-checked.**

* Liveness (`RunEnds`, `EveryPacketLeaves`, `CallsReturn`): the provers have no means for fairness and ENABLED.
* What a computation over data yields: `FormatsMeanWhatTheySay`, and of `TextIsWhole` the integers in their fields; so also the
  writer's and the formatter's part of `NoStepGoesBack`.
* The liveness part of `ImplementsAsyncLogging` (every accepted message is handed on).

## 5. Not modelled

* The simulator: stepping mode, the results file's layout, the initial-phase data file, float rounding, the logarithm of the
  exponential draw; the superseded sources.
* spdlog: `apply_all` of the registry, which calls a function of the user with the mutex held (one that calls the registry back
  waits for itself, `registry.h:117`); `set_formatter` and `set_error_handler`, which replace objects that other threads may be
  using, with no outcome short of any at all; sinks that only pass a message on; `os.h` but for the offset and the files;
  the retries of `file_helper::open`.
* fmt: `printf.h`, `posix.h`, `time.h`, which nothing here uses; the storage of argument lists, wide characters, system errors.
* `StepFileSink` assumes that an open file can be renamed and removed, as POSIX has it; Windows refuses.

## 6. Plan

1. Done: the simulator, its properties and abstract delivery specification; seeds, report and ownership; the parts of spdlog and
   fmt that keep state; proofs of all safety properties of the simulator, `main`, the loggers, files, buffers and doubles.
2. Integers and format strings for all values of their inputs.
