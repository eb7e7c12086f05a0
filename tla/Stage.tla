------------------------------- MODULE Stage -------------------------------
(***************************************************************************)
(* The configuration of one stage (stage_conf_t, network_conf_t and the    *)
(* example set), shared by the four kinds of core, and the part of their   *)
(* state they all keep: where they are in the stage.                       *)
(*                                                                         *)
(* A STOP or SYNC packet makes its handler schedule the callback that      *)
(* advances the tick, at the highest priority of the scheduled callbacks.  *)
(* The handler does nothing else, so packet and callback are one step      *)
(* here: a packet waits in net until the callback it schedules is run.     *)
(***************************************************************************)
EXTENDS Fabric, Bags

CONSTANTS
  Training,         \* xcfg.training
  Dougs,            \* xcfg.update_function = SPINN_DOUGSMOMENTUM_UPDATE
  NumEpochs,        \* xcfg.num_epochs
  NumExamples,      \* xcfg.num_examples
  NumEvents,        \* events of an example (every example has as many)
  GlobalMaxTicks,   \* ncfg.global_max_ticks
  MaxTicks,         \* an event stops by force at this event tick
  MinTicks          \* ... and by criterion not before this one

ASSUME StageAssumption ==
  /\ Training \in BOOLEAN
  /\ Dougs \in BOOLEAN
  /\ NumEpochs \in Nat \ {0}
  /\ NumExamples \in Nat \ {0}
  /\ NumEvents \in Nat \ {0}
  /\ GlobalMaxTicks \in Nat \ {0, 1}
  /\ MaxTicks \in Nat
  /\ MinTicks \in Nat

F == "F"
B == "B"
INIT_TICK == 1
END_TICK == 1

Tick == INIT_TICK .. GlobalMaxTicks - 1
Stamps == (0 .. NumEpochs) \X (0 .. NumExamples - 1) \X {F, B} \X Tick

\* outputs before the first tick, and entries of a history not yet written
Zero == <<0>>
Initial == <<1>>

(***************************************************************************)
(* State every core starts a stage with (var_init).                        *)
(***************************************************************************)
Start == [phase |-> F, tick |-> INIT_TICK, evt |-> 0,
          example_cnt |-> 0, epoch |-> 0,
          net_stop |-> FALSE, net_stop_rdy |-> FALSE, done |-> FALSE]

\* the state of a kind of core at the start of a stage: Start and fields of its own
Starting(own) ==
  [f \in DOMAIN Start \cup DOMAIN own |-> IF f \in DOMAIN own THEN own[f] ELSE Start[f]]

\* the core's FORWARD phase of this example ends with this event
EndOfForward(r) == r.evt + 1 >= NumEvents \/ r.tick = GlobalMaxTicks - 1

\* mutant: one example too many
EndOfEpoch_late(r) == r.example_cnt >= NumExamples

\* the epoch ends with this example
EndOfEpoch(r) == r.example_cnt + 1 >= NumExamples

\* Doug's momentum sums the link deltas in the last tick of an epoch
LastTickOfEpoch(r) == r.example_cnt = NumExamples - 1 /\ r.tick = END_TICK

(***************************************************************************)
(* End-of-epoch rendezvous of S, I and T cores: the core's own advance and *)
(* the network stop packet come in either order; the second one acts.  To  *)
(* schedule stage_done, the callback that ends the stage, is to be done.   *)
(***************************************************************************)
Rendezvous(r) ==
  IF r.net_stop_rdy THEN [r EXCEPT !.net_stop_rdy = FALSE, !.done = r.net_stop]
                    ELSE [r EXCEPT !.net_stop_rdy = TRUE]

\* i_net_stop_packet, s_net_stop_packet, t_net_stop_packet
NetStop(r, nsd) == Rendezvous([r EXCEPT !.net_stop = nsd])

\* i_advance_example, s_advance_example, and a T core's but the last one
AdvanceExample(r) ==
  IF EndOfEpoch(r)
    THEN Rendezvous([r EXCEPT !.evt = 0, !.epoch = @ + 1, !.example_cnt = 0])
    ELSE [r EXCEPT !.evt = 0, !.example_cnt = @ + 1]
=============================================================================
