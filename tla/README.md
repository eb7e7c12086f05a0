# SpiNNaker PDP2: specification and verification

SpiNNaker PDP2 runs multi-layer perceptrons trained by back propagation on the
SpiNNaker neuromorphic machine. A network is split over many small cores that
share nothing and talk in multicast packets. This directory holds TLA+ modules
that model what those cores do, TLC configurations that check them, and TLAPS
proofs.

Names of definitions follow the source (`tf_advance_tick`, `s_lds_arrived`,
`net_stop_rdy`, ...). `PROJECT.json` maps every definition to source lines.

## 1. The system

### Components

| Component | Source | State it keeps | Operations |
|---|---|---|---|
| Weight core W(to, from) | `weight.c`, `*_w.c` | weights, link deltas, two output buffers, history of outputs, errors being summed, link delta sum, packet queue | partial dot products in FORWARD (`wf_process`), link deltas and errors in BACKPROP (`wb_process`), weight update at the end of an epoch |
| Sum core S | `sum.c`, `*_s.c` | a net and an error per unit with scoreboards, link delta sum, threads pending, queue | adds up partial products (`sf_process`, `sb_process`), counts sync generation packets, sums link delta sums |
| Input core I | `input.c`, `*_i.c` | input pipeline, position in inputs, queue | applies the pipeline to a net (`if_process`), and its inverse to a delta (`ib_process`) |
| Threshold core T | `threshold.c`, `*_t.c` | outputs, their history, two error buffers, criteria, two sets of threads pending, queues | outputs (`tf_process`), deltas (`tb_process`), stop criterion, decision, sync, end of stage, timeout |
| Packet queue (in each core) | `comms_*.c` | ring buffer, active flag | packet interrupt, processing thread |
| Pipelines (in I and T) | `process_i.c`, `process_t.c` | integrators and their values to recover from, histories | input and output pipeline of a unit, forward and backward |
| Deadlock recovery | `threshold.c`, `*_dlrv_packet` | position and count of the timer in the last T | restart of a tick in all cores, abort |
| Host | `spinn_pdp2/*.py` | description of the network, examples, weights | builds the machine graph, writes configurations and counts, runs stages |

### How they interact

A tick of the FORWARD phase: every W multiplies and sends a partial product per
unit to its S; S sends each net to I as soon as all products are in; I sends it
to T; T computes the output and multicasts it to the W cores it feeds. A tick of
the BACKPROP phase runs the other way: T sends deltas to I, I to the W cores, W
sends partial errors to S, S sends errors to T.

How a tick ends is the heart of the protocol. No core sees a global clock:

- *FORWARD*. A W core that has got all outputs sends a sync generation packet
  (`fsgn`) to its S; these are counted up a tree of S cores to the *last T*. The T
  cores report, along a chain (the other subgroups of a group to its last one, and
  these to the last T), whether their outputs meet the stop criterion. When the
  last T has all three (own outputs, chain, `fsgn`) it decides, multicasts STOP
  with the decision, and schedules its own advance.
- *BACKPROP*. `bsgn` packets of S and T cores are counted the same way, and the last
  T multicasts SYNC.
- *End of an epoch*. The last T multicasts a network stop packet (`stpn`), which meets
  the core's own advance in either order (`net_stop_rdy`, `epoch_rdy`).

Sharing is inside a core only: the packet interrupt (a FIQ) and the callbacks share
queues, flags, scoreboards and thread semaphores. Callbacks do not preempt each other, except
for those of priority 0: the user event, which only sends a packet, and the timer of the
last T, which does not touch the queue. The one way to send a packet from the FIQ is a
*user event*, of which there is one: the FIQ spins until it is free.

### What is hard

- Everything is counted, and compared with `==`; packets carry no epoch, example
  or phase, so a packet handled in the wrong tick is not noticed.
- The three threads of a tick end in any order, in callbacks and in the FIQ;
  exactly one of them must report.
- Double buffers are swapped by tick and phase, and histories are read a phase later.
- Two packets (STOP and the own advance; network stop and end of epoch) meet in
  either order; the link delta sum is not met by anything.
- Packets can be lost; a timeout restarts the tick on every core. What a first attempt has
  left behind (scoreboards, sums, buffers, integrators, link deltas) has to be undone or
  used again, by each kind of core in its own way.

The hazards are listed, each with its line and the properties that would catch
it, in `PROJECT.json`.

### What makes each component correct

- W: computes with the outputs of the tick before, in both phases (`OutputsCurrent`);
  the link deltas at the end of an example are exactly those of its ticks
  (`GradientExact`, and `GradientWhole` with restarts).
- S: what it passes on is the exact sum of one product per W (`SumsExact`, `LdsExact`), in a
  tree of any size (`TreeFits`, `ExpectedExact`, `TotalExact`, `TotalSent`).
- T: deltas come from the errors of the tick above and the outputs of the tick
  itself (`DeltasCurrent`).
- Pipelines: integrators hold each tick once, in order (`IntegratorExact`, `IntegratedOnce`);
  derivatives are of the outputs of the tick (`DerivativeOfTick`).
- Chain and last T: the decision is complete and of this tick (`DecisionSound`,
  `DecisionComplete`, `ScoreboardSound`).
- Tick protocol: lockstep (`BarrierSpec`, `Lockstep`, `CountedTogether`), nothing left
  over at the end of a tick or stage (`TickQuiet`, `StageEndsClean`), every core gets to
  the end (`TicksEnd`), also when packets are lost (`Recovers`).
- Queue: a bounded FIFO, one thread, no lost wakeup (`FifoSpec`, `OneThread`,
  `NoLostWakeup`, `Served`).

## 2. The modules

| Module | Models |
|---|---|
| `Fabric` | subgroups, cores, routes and packet counts as the host builds them; packets in flight; the timing assumption |
| `Stage` | configuration of a stage, positions, end-of-epoch rendezvous shared by S, I and T |
| `WeightCore`, `SumCore`, `InputCore`, `ThresholdCore` | one kind of core each: an action per packet handler and per scheduled callback |
| `PDP2` | all of them together, and their properties |
| `Recovery` | `PDP2` over a fabric that loses packets, with the timer, the restart of a tick and the abort |
| `TickBarrier` | abstract specification: the cores go through ticks in lockstep |
| `TickFlow` | abstract specification: one packet over every link of a graph in every tick, each sent when those it depends on have been handled |
| `PDP2Flow` | the links of the machine, the mapping of `PDP2` to `TickFlow`, and the invariants the proofs about `PDP2` rest on |
| `CriterionChain` | the part of the T cores that depends on the shape of the network, any number of groups and subgroups |
| `PacketQueue` | the queue of one core, with the FIQ interleaved at every point where interrupts are enabled |
| `BoundedFifo` | abstract specification of the queue |
| `UnitPipelines` | the units of one subgroup: what the I and T core keep of them from tick to tick, with restarts |
| `SumTree` | the sum cores of one subgroup, any number: the host's loops that build the tree, its counts, and a round of packets through it |
| `TickFlowProofs`, `PDP2StepProofs`, `PDP2Proofs`, `PDP2DataProofs` | theorems about ticks and the whole machine |
| `CriterionChainProofs`, `PacketQueueProofs`, `UnitPipelinesProofs`, `SumTreeProofs` | theorems about the other components |
| `MCPDP2`, `MCRecovery`, `MCCriterionChain`, `MCPacketQueue`, `MCUnitPipelines`, `MCSumTree` | instances for TLC |

`PDP2` extends the four cores, which extend `Stage`, which extends `Fabric`. It
instantiates `TickBarrier` with the mapping *position of a core = (epoch, example,
phase, tick)*, *finished = stage_done scheduled*. `PDP2Flow` extends `PDP2` and instantiates `TickFlow`: what has been
sent in a tick is read off the scoreboards and threads pending of the cores, what has been handled
is what has been sent and is not in `net`. `Recovery` extends `PDP2`. `PacketQueue` instantiates
`BoundedFifo` with the slots from `head` to `tail`, read around the wrap.

### From code to model

- **A core is a record** (`wc[c]`, `sc[s]`, `ic[s]`, `tc[s]`) with a field per global
  variable of the C program that the protocol reads. An action is a whole handler
  (`SForward` is `sf_process` with its scoreboard, its send, its thread semaphore and its
  report).
- **Values are modelled by their origin.** An output is the stamp (epoch, example,
  phase, tick) of the tick it was computed in; a sum is the bag of what was added, so
  a product too many, missing, repeated or of another tick shows. The arithmetic
  itself is left out.
- **Whether an output meets its stop criterion** is any boolean per unit and tick in
  output groups. `std_stop_crit` returns the verdict of the unit, and the
  conjunction is in the model.
- **Ghosts.** The stamp of a packet (`st`), `tf_met`, and in `CriterionChain` the `tick`
  of a packet and `reported`. No guard of a handler depends on them except
  through the timing assumption.
- **Packet and callback.** The handler of a STOP or SYNC packet does nothing but
  schedule the callback that advances the tick, at the highest priority among
  scheduled callbacks; the two are one action, and the packet is "in flight" until the
  callback runs. The last T, which gets no packet, has an explicit `advance` flag.
- **Queued packets** stay in `net`, taken in any order. That a core's queue is a FIFO is
  what `PacketQueue` is about; the fabric delivers packets of different senders in any
  order, and of one sender too when they take different routes.
- **Symmetric deliveries take turns** (`InTurn`). Network stop and recovery packets and the total of
  the link delta sum touch only the receiving core, so different cores handle their
  copies in a fixed order among themselves; their order relative to
  everything else stays open.

### The timing assumption

No core checks the tick of a packet. The code relies on a STOP or SYNC packet (and the
callback it schedules) to overtake the data of the next tick, which has to go through
W, S and I, and on the network stop packets to be all there before the first products
of the next epoch are out. `Timely`, a set of kinds of core, states this: a core of these
kinds does not handle a packet of a tick that it has not begun (`InTime`, by the order `LaterTick`
of the ticks of a stage; `EpochStarted`). The one exception is in the code itself, and in the model: deltas that
reach a W core before it has switched to BACKPROP wait in its queue.

The assumption only holds *early* packets back. A *late* packet, whose receiver has moved on,
is handled and counted in whatever tick and phase the receiver is, as the code does: what it is
mixed into is then wrong (`SumsExact`, `LdsExact` and the like) or never gets its count. That
there are no late packets, because the counts wait for everything before a tick ends, is not
assumed: it is what `TickQuiet` and `StageEndsClean` check and `FlowInvariant` and
`MachineInvariant` prove. With Doug's momentum and a last FORWARD phase of a single tick the code does have
them: the last tick of the epoch does not wait for the link delta sums (TODO at `process_s.c:292`).
No property promises anything of that case; `LongPhases` excludes it.

The run `Untimely` assumes it of threshold cores only: sums may then be wrong or never
complete, as in the machine, and the run is about what still holds, the lockstep of W and T
cores. Without the assumption on T cores not even this holds from the second FORWARD tick on:
`t_fsgn_packet` does not count and `tf_thrds_pend` keeps its last bit until `tick_init`, so
a last T that has not yet run its `tf_advance_tick` takes the sync generation of the next
tick for that of this one and decides twice.

### Recovery

The timer of the last T fires every `SPINN_TIMER_TICK_PERIOD` microseconds. When the epoch,
example and tick are those of the last firing it multicasts a recovery packet, and restarts
its own tick; after `SPINN_DLRV_MAX_CNT` such firings it multicasts an abort instead
(`Timeout`). `WRestart`, `SRestart` and `TRestart` are what `*_dlrv_packet` and the
`tick_init` they schedule do in each kind of core; I cores have nothing the protocol reads
(what they do keep is in `UnitPipelines`).

- *When the timer fires.* The period is meant to be much longer than a tick, so that a last T
  that has not moved means a machine in which nothing is left to happen. A `Patient` timer
  fires only then. One that is not may fire at any moment after a move, as a slow machine
  would have it.
- *The timer callback* has priority 0 and may preempt another callback of the last T. The model
  takes it between two handlers, which a patient timer makes the only case: it fires when
  none is left to run.
- *What is lost.* A lost packet is one that never arrives, and every other packet can
  overtake it. So it is enough to lose packets when nothing else is left in the
  fabric (`Lose`): any set of packets inside a tick can be lost this way. The packets that end
  a tick, stop a network or restart a tick are not lost: the code has no recovery for the
  first two (see the hazards at `process_s.c:345`, `comms_s.c:433`).
- *Restart handlers are short*, the computations they trigger long: all cores have restarted
  before anything else happens (`Urgent`).
- `restarts`, a ghost, is the bag of ticks restarted. A BACKPROP restart adds the link deltas of a
  tick again to what the first attempt has added, and `GradientWhole` bounds how often.

### Pipelines

`UnitPipelines` has the two computations of a tick and phase for every unit (`if_process` then
`tf_process`, `tb_process` then `ib_process`), in any order of units, each with an INTEGRATOR or not
(`enabled`). An integrator's value is the sequence of ticks it has integrated; its
value to recover from likewise. An output is the tick it was computed in and the point
of the pipeline it was taken at: `out_logistic_back` needs the one from before the integrator, and
`restore_outputs`, `out_integr_back` and a restart all write the same variable. A tick
can be restarted at any point of the FORWARD phase, and in BACKPROP once the T core has
computed its deltas, which it does without waiting for a packet of this tick.

### Sum trees

`SumTree` has one action per iteration of the two loops of `SumVertexTree`, the limit on links
being a constant, and then one round of packets: nets (errors are treated alike), link
delta sums, or sync generation packets. Weight cores send one packet per unit for the
first two, one for the third. A packet carries the bag of what it sums up. `network` is
the number of subgroups, `subgroups` the host's tally of them, which a second
`generate_machine_graph` adds to; properties are about graphs whose tally is right.

### Abstractions to keep in mind

In `PDP2` a sum tree is a single vertex (true of networks of at most `MAX_S_CORE_LINKS`
subgroups); every subgroup has as many units; every event of an example has the same limits.

## 3. The runs

All instances of `PDP2` have two groups with a subgroup each: the Bias group that every
network has, and an output group (`OutputOnly`). That makes four W cores and ten cores,
with all roles: a first root and another root, a last T and one that reports to it, an
output group and one that is not. Two subgroups in a group are in `Chain`.

| Run | Bounds | Shows |
|---|---|---|
| `Train` | 2 units, 2 epochs, 1 example, phases of 1 tick | `TypeOK` `SumsExact` `TickQuiet` `StageEndsClean` `GradientExact` `BarrierSpec`. Two epochs, so that what one leaves is used by the next; rows and columns of a weight core |
| `Ticks` | Doug's momentum, 2 examples, a phase of 3 ticks and then one of 2 (`LongPhases` holds), 1 unit | `LdsExact` `TickQuiet` `DeltasCurrent` `OutputsCurrent` `UserEventFree` `GradientExact`, over an example boundary; odd and even numbers of buffer swaps; a tick that waits for the link delta sums, and ticks that need not |
| `Criteria` | no training, 2 units, 2 events, up to 3 ticks, `MinTicks = 2` | `SumsExact` `TickQuiet` `DecisionSound`: every combination of verdicts, before and after `min_ticks`, and the forced stop |
| `Untimely` | no training, up to 2 ticks, timing assumption on T cores only | `CountedTogether` |
| `Queue` | ring of 4, two packets, gated by the phase | `TypeOK` `OneThread` `NoLostWakeup` `FifoSpec` `Served`. The queue of the other cores, which has no gate, behaves as this one does after a first change to BACKPROP and before the next |
| `Chain` | 5 subgroups in 3 groups, 3 ticks, fair | `Lockstep` `ScoreboardSound` `DecisionComplete` `TicksEnd` |
| `Recover` | one tick per phase, up to 2 packets lost, at once or one in each attempt, `DLRV_MAX_CNT = 2`, patient timer, fair | `SumsExact` `OutputsCurrent` `DeltasCurrent` `GradientWhole` `Recovers`. With two firings without progress the stage is aborted, so that both ends of `Recovers` happen |
| `Pipelines` | 2 units, 2 examples, phases of up to 3 ticks, 2 restarts | `TypeOK` `IntegratorExact` `IntegratedOnce` `DerivativeOfTick`. Three ticks, so that a stale value shows; two restarts, of one tick or of two |
| `Tree` | 2 links per vertex, 2 to 6 subgroups, 2 units, up to 1 other root | `TypeOK` `TreeFits` `ExpectedExact` `TotalExact` `TotalSent`. Trees of one to five vertices, with vertices fed by weight cores only, by sum cores only, and by both |
| `RestartPhase` | as `Recover`, nothing lost, timer not patient | `RestartIfStuck` is violated |
| `RestartStale` | as `Pipelines`, up to 2 ticks | `RestartUnnoticed` is violated |
| `RestartDougs` | as `Recover`, with Doug's momentum and up to 2 ticks, one packet lost | `LdsAwaited` is violated |

Bounds of the model are `NumEpochs`, `NumExamples`, `NumEvents`, `GlobalMaxTicks` (all
parameters of a stage in the code, too), `NumTicks` in `CriterionChain` (its runs simply
stop there), `PQ_LEN`, `MaxLost` and `DLRV_MAX_CNT` in `Recovery` (the code's is 3), `MaxRestarts`
in `UnitPipelines`, `MaxSubgroups`, `MaxRoots` and `MaxCalls` in `SumTree`. `Ticks` has one state
constraint, `LongThenShort` in `MCPDP2`: the last T stops the first example after three ticks and
the second after two, so that histories and buffers hold what a longer phase has left behind. (With
both lengths in both examples there are 1,206,244 states; TLC finds no violation in them either, in more
than twice the time.) Phases of a single tick, without Doug's momentum, are in `Train` and `Recover`. A tick depends on the
ticks before it only through what `tick_init` and the phase changes leave in place, so that two
of each (ticks, examples, epochs) reach every transition between positions. Deadlock is
checked in every run except `Untimely`, where the machine really can get stuck: an S core that
takes a packet for one of another tick never gets its count. Stages, chains and rounds that end
stutter (`Terminated`), an overflow halts a queue (`Halted`).

Every property of a passing run has a *mutant*, a definition changed as a likely bug
would change it, under which the run fails. Mutants stand next to the definitions they
change, marked `mutant:`, and are used by nothing else.

### Fairness

`CriterionChain`, `Recovery` and `SumTree` assume weak fairness of their next-state relation: the
machine as a whole goes on while it can. Scheduled callbacks are run, packets delivered, and
the timer fires, without further conditions in the code, and every packet and callback is
used up once, so nothing stronger is needed. In `Recovery` a packet may be lost at most `MaxLost`
times, so that fairness of all steps together does not hide a fabric that loses everything.
`PacketQueue` assumes weak fairness of the core's own steps only (dispatch, the loop of the
thread, `w_switch_to_bp` once begun); packets need not come and the phase need not change.

### What the violated properties show

1. *A restart that cannot end* (`RestartDougs`). In a sum core `tick_init` adds the thread that
   waits for link delta sums when it finds `tick == SPINN_SB_END_TICK + 1` (`init_s.c:238`):
   it is called before the tick is counted down, "about to move on to the last tick". A
   restart calls it in the middle of a tick. When a packet of the tick before the last of an epoch
   is lost, its restart waits for sums nobody sends in this tick; restarting it again
   changes nothing, and the stage is aborted. Without lost packets the property holds.
2. *Restart of a tick that is not stuck* (`RestartPhase`). `timeout` is to act if there has been
   no progress (`threshold.c:273`). It compares epoch, example and tick, and the BACKPROP phase
   goes down through the numbers of the FORWARD phase: a firing in each, in the tick of the
   same number, restarts the tick, and its link deltas are added twice.
3. *Integrators and lost packets* (`RestartStale`). A restarted tick integrates onto the stored
   value (`process_t.c:669`), which is stored when a unit is first computed (`677`), in a
   tick that is not a restart. A unit first computed in the restarted tick, because it was its
   packet that was lost, integrates onto the value of two ticks before; in the first tick of a
   stage, onto memory nobody has written. `IntegratorExact` states what holds: everything for the units that
   had been computed.

Three places where the code says itself that something is missing are hazards, not runs: the
link delta sum is not waited for by the weight cores (TODO at `comms_w.c:267`), nor its parts by the
last tick when the FORWARD phase has one tick only (TODO at `process_s.c:292`; they are then late, see
*The timing assumption*), and T cores outside
output groups report FALSE in the first tick of a stage (`init_t.c:725`; the exception in
`DecisionSound`).

## 4. The proofs

`tlapm` proves every theorem of the eight proof modules, for every value of the constants that
satisfies the assumptions on constants: `QueueAssumption`, `ChainAssumption`, `PipelineAssumption`,
`TreeAssumption`, and for the machine `GraphAssumption` and `StageAssumption`. TLC evaluates them in the runs.
TLC has also checked every invariant, on an instance, before it was proved.

### The whole machine

The theorems about `PDP2` hold for any sequence of groups and subgroups, any output groups with a
last one, any number of units, epochs, examples, events and ticks, training or not, under two
hypotheses:

- `AllTimely`: the timing assumption, for all four kinds of core. (`CountedTogether` needs it of T
  cores only; this stronger form is checked in `Untimely`, and proved under `AllTimely`.)
- `LongPhases`: with Doug's momentum, FORWARD phases have at least two ticks (`MinTicks > 1`, `MaxTicks > 1`
  and `GlobalMaxTicks > 2`). The code needs it: `sf_advance_event` (`process_s.c:292`, a TODO) goes to BACKPROP
  without asking whether its first tick is the last of an epoch, and then that tick ends with parts of the
link delta sum under way, to be counted in a later one.

The argument has three layers.

1. **`TickFlowProofs`: what a tick is, in any graph.** A tick sends one packet over each link of a graph; a link
   depends on other links into its source. If the graph is *closed* (`FlowAssumption`: a set of
   handled packets that has those the last T waits for, and with each packet those it depends on, is the
   whole tick), then `FlowInvariant` holds: packets are handled by cores in their tick, the cores are in
   one tick or in two successive ones, and when the last T ends a tick nothing of it is left. `FlowLockstep`:
   `TickFlow` implements `TickBarrier`.
2. **`PDP2StepProofs`, `PDP2Proofs`: the machine is such a flow.** `MachineGraph` proves that the links the host makes
   (weight, sum, input, threshold cores, the trees of sync generation and the criterion chain) are closed, for
   every network, FORWARD and BACKPROP. `FlowAndMachine` is the inductive invariant: that of the flow, and
   `MachineInv`, which says of every core that its scoreboards are the numbers of packets of this tick it has
   handled (`ThreadsOK` and the like), that a callback is pending exactly between the last packet and what it sends,
   and how the rendezvous at the end of an epoch stands to the network stop packets under way. The scoreboards
   compare with `==`; that they hit their targets once is known because the targets are numbers of links
   (`CountsT` and its siblings), and each link brings one packet. One step per action is a step of
   `TickFlow` or a stutter (`StepFlow`). It follows: `MachineFlow` and `MachineBarrier`
   (refinements), `TypeCorrect`, `TickEndsQuiet`, `StageLeavesNothing`, `UserEventNeverWaits`, `CountedLockstep`.
3. **`PDP2DataProofs`, and for sums the end of `PDP2Proofs`: what is in the packets.** On top of
   the second layer each kind of core has an invariant relating its data to the set of packets
   it has handled (`Flow!Handled`): a sum is the bag of one product per
   link handled (`SumsInv`); a W core has the outputs of the tick before in one buffer, those that came in the other and
   in the history (`OutputsInv`); a T core has errors, outputs and history likewise (`DeltasInv`);
   link deltas are the products of the ticks BACKPROP has come through and, of this one, of the deltas that
   came, while the history tells the ticks of this example from those left by a longer one before
   (`LinkDeltasInv`). Each is inductive together with `FlowAndMachine`. It follows: `SumsAreExact`, `LinkDeltaSumsExact`,
   `OutputsAreCurrent`, `DeltasAreCurrent`, and the action property `GradientIsExact`.

   For the stop criteria the invariant is `CriteriaInv`: a T core holds the verdict on the outputs it has computed, the
   conjunction of the verdicts it has heard, and, once it has reported, both together; a criterion packet holds what
   its sender holds. The packet was sent some steps ago, so this needs that a core that has reported finds nothing more
   in the tick: it has handled all that comes into it, and leaves only when the last T has decided (`VerdictStays`).
   When the last T decides, all others have reported, group heads to it and every other core to its
   head; through these two levels its conjunction is that of the whole machine (`WholeVerdict`), and `DecisionIsSound`
   follows. An advance clears what was found (`CriteriaFresh`), so that no verdict of the tick before counts.

TLC has checked `MachineInv` and `FlowSpec` on the instance of `Train` with one unit and one epoch (18,928 states),
`SumsInv` with Doug's momentum and phases of two ticks (257,524), `OutputsInv`, `DeltasInv` and `LinkDeltasInv` on two epochs of
two examples with phases of one or two ticks (1,025,558), the last one also without training (105,056),
`CriteriaInv` on the instance of `Criteria` (683,192) and on two epochs with training (59,526).

### The other components

**PacketQueueProofs**, for any ring of at least two slots, gated or not.
`TypeCorrect`, `ThreadUnique` and `WakeupNotLost` come from the inductive invariant
`ThreadInv`: that packets are not lost in sleep depends on the flag being set exactly while a
thread is on its way (`OneThread`), and this on `w_switch_to_bp` testing the flag with
interrupts disabled. `FifoImplemented` is the refinement: the sequence read from `head` to
`tail` grows at its end by an enqueue (`EnqueueAppends`), loses its head by a dequeue
(`DequeueRemoves`) and never holds more than `PQ_LEN - 1`, around the wrap as well.

**CriterionChainProofs**, for any finite set of subgroups, any groups, any last output group.
`ChildrenCount` proves that the count the host writes into a core (`crit_expected`) is the
number of criterion links that end in it. The invariant `IInv` adds to types and
`Lockstep` what a core has in flight and what it has counted: a child's report is either not
sent, on its way, or counted, exactly one of the three (`NetOK`, `CoreOK`), and a core that
has reported has all children counted. Then `ScoreboardsSound` follows (nothing can be
over-counted), and `DecisionsComplete`: when the last T finds its other threads done, all
of its children have reported, and theirs too, so that the conjunction it holds is over
every subgroup. Lockstep alone is not inductive: that no stop packet is on its way when the
next decision is taken is known only because every core has reported in the new tick.

**UnitPipelinesProofs**, for any number of units, ticks, examples and restarts. `IntegratorExact` is
not inductive; `ExactInv` adds what the value to recover from is for a unit computed in this
tick (`SavedExact`), that in a tick not restarted no unit has been computed but those that are
done (`AttemptOK`), that the BACKPROP integrators wait empty (`FreshOK`), and that the two
cores work on a unit in order (`OrderOK`), which is why all have been computed when a tick ends.
Chains of ticks are functions of the tick, so that a tick's chain is the last one's with one
tick appended (`UpAppends`, `DownAppends`). `IntegratedOnce` holds without the exception for
late units, because a stale value lags behind, and never runs ahead (`PastInv`: ticks are in order
and past). `DerivativesCurrent` rests on what FORWARD ticks leave in the two histories
(`ForwardKept`) until BACKPROP reads it (`BackpropKept`).

**SumTreeProofs**, for any limit on links of at least two, any number of subgroups, units, roots
and calls. Links are handed out in one order, so the invariant counts them: the links
taken so far are those of the sum cores made and of the subgroups mapped (`CountInv`), and a
vertex's share of each kind is what falls into its interval (`LinkInv`). `Capacity` shows that
`num_vrt` is enough; `SumLinks` and `ExpectedPackets` that the cases of `lds_expected` are the shares of sum
and weight cores. The arithmetic with a variable divisor is in a few lemmas (`DivMod`,
`NextMultiple`), each within reach of the solver.

`TotalsExact` is about the round of packets through a finished tree. What the vertices hold all together is a
recursion over the tree, which the prover has no induction for; the invariant (`TreeInv`: `ShapeInv`, `RoundInv`)
says only what is true at one vertex or one link. The products of a weight core fly or are held where it is
mapped; of two vertices that hold the same product the lower one has passed it on; a vertex waits for as
many links as its target is above what has arrived. If the root is complete and a product is not in its sum, take the
least vertex that holds it and has not passed it on: it is not the root, so the vertex above would still wait for it, and
so would all above, up to the root. The converse direction, `NoTotalMissing`, is the safety half of
`TotalSent`: when nothing is in flight any more, every total has been sent (take the greatest vertex that is not
complete: nothing it waits for is missing). TLC has checked `ShapeInv` and `RoundInv` on the instance of `Tree` (61,572 states).

### What stays model-checked

- The properties of `Recovery`. Packets of a tick are then sent again, so that `TickFlow`, with one packet per link, no
  longer describes a tick.
- Every liveness property, `Served`, `TicksEnd`, `Recovers`, `TotalSent`: liveness is beyond the prover.

## 5. Not modelled

- Arithmetic: clamps, error and activation functions, weight updates, saturation, rounding, fixed
  point. Its hazards (`comms_s.c:220`, `process_s.c:74`, `process_t.c:693`) are about magnitudes, which
  values by origin do not have.
- `max_stop_crit`, which compares magnitudes of outputs and targets over the units of a group.
- Packets of a first attempt that arrive in the second, lost recovery, stop and network stop
  packets: the code relies on the timer period for the first and has no recovery for the others.
- Pause and resume of the tool chain between stages; a second machine graph beyond the tally.
- Recording and test results; parsing of Lens files; placement, keys and data specification;
  examples and integration tests.

## 6. Plan

Done, in this order: `Fabric`, `Stage`, the four cores, `PDP2` (the protocol is what the rest
depends on), `TickBarrier`, `PacketQueue` with its proofs, `CriterionChain` with its proofs, `Recovery`,
`UnitPipelines` and `SumTree` with their proofs, `TickFlow` and `PDP2Flow` with the proofs about the whole machine.

What could be added: network stop packets over several epochs without the assumption that they
come in time; backprop sync generation through sum trees of several vertices (the forward one is in
`SumTree`, round `fsgn`); the machine composed with such trees; a flow whose ticks can be restarted, to
prove about `Recovery` what is proved about `PDP2`.

## 7. Running

    tlc -workers 2 -config Train.cfg MCPDP2.tla
    tlapm CriterionChainProofs.tla

The runs of `PDP2` and `Recovery` take between half a minute and three minutes with two workers, all others
less than half a minute. The proofs about the whole machine take about fifteen to twenty-five minutes per module,
the others a few minutes together.
