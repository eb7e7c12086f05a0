----------------------------- MODULE BoundedFifo -----------------------------
(***************************************************************************)
(* What the packet queue of a core promises: packets are processed one at  *)
(* a time, each once, in the order they came, until one comes that there   *)
(* is no room for, which stops the core.                                   *)
(***************************************************************************)
EXTENDS Integers, Sequences

CONSTANTS Packet, Room

VARIABLES buf,       \* packets that wait
          current,   \* the packet being processed, a sequence of none or one
          failed     \* the core was stopped by an overflow

Init == buf = <<>> /\ current = <<>> /\ failed = FALSE

Arrive(p) ==
  /\ ~failed /\ Len(buf) < Room
  /\ buf' = Append(buf, p)
  /\ UNCHANGED <<current, failed>>

Overflow ==
  /\ ~failed /\ Len(buf) = Room
  /\ failed' = TRUE
  /\ UNCHANGED <<buf, current>>

Serve ==
  /\ ~failed /\ current = <<>> /\ buf # <<>>
  /\ current' = <<Head(buf)>>
  /\ buf' = Tail(buf)
  /\ UNCHANGED failed

Complete ==
  /\ ~failed /\ current # <<>>
  /\ current' = <<>>
  /\ UNCHANGED <<buf, failed>>

Next == (\E p \in Packet : Arrive(p)) \/ Overflow \/ Serve \/ Complete

Spec == Init /\ [][Next]_<<buf, current, failed>>
=============================================================================
