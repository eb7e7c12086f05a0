----------------------------- MODULE PacketQueue -----------------------------
(***************************************************************************)
(* The data packet queue of a core: a ring buffer filled by the packet     *)
(* interrupt (a FIQ, atomic with respect to everything else on the core)   *)
(* and emptied by a thread, a callback that is scheduled when a packet     *)
(* comes in and the thread is not active already.                          *)
(*                                                                         *)
(* Sum, input and threshold cores have the same code (Gated = FALSE).  The *)
(* thread of a weight core (Gated = TRUE) is scheduled in BACKPROP only;   *)
(* packets that come before wait, and w_switch_to_bp schedules it.         *)
(*                                                                         *)
(* Callbacks do not preempt each other (those of priority 0 do, but do not *)
(* touch the queue).  An action is what a core does with interrupts        *)
(* disabled, or between two places where one may come in.                  *)
(* spin1_schedule_callback is external: it adds an instance of the thread. *)
(***************************************************************************)
EXTENDS Integers, Sequences

CONSTANTS
  Packet,     \* key and payload
  PQ_LEN,     \* SPINN_SUM_PQ_LEN, SPINN_INPUT_PQ_LEN, ...
  Gated

ASSUME QueueAssumption == PQ_LEN \in Nat /\ PQ_LEN >= 2 /\ Gated \in BOOLEAN

VARIABLES
  queue, head, tail,   \* the ring buffer; mem_init does not clear it
  active,              \* s_active, i_active, tf_active, wb_active
  phase,               \* of a weight core
  scheduled,           \* instances of the thread waiting to be run
  running,             \* an instance is running ...
  current,             \* ... the packet it has dequeued, none or one
  switch,              \* where w_switch_to_bp is
  failed               \* stopped: stage_done (SPINN_QUEUE_FULL), rt_error

ring == <<queue, head, tail>>
thread == <<scheduled, running, current>>
vars == <<ring, active, phase, thread, switch, failed>>

Index == 0 .. PQ_LEN - 1

Init ==
  /\ queue \in [Index -> Packet] /\ head = 0 /\ tail = 0
  /\ active = FALSE
  /\ phase = IF Gated THEN "F" ELSE "B"
  /\ scheduled = 0 /\ running = FALSE /\ current = <<>>
  /\ switch = "out"
  /\ failed = FALSE

\* mutant: the index does not wrap
After_noWrap(i) == i + 1
After(i) == (i + 1) % PQ_LEN

(***************************************************************************)
(* The packet interrupt.                                                   *)
(***************************************************************************)
\* mutant: the slot that tells a full queue from an empty one is used, too
Full_never == FALSE
Full == After(tail) = head

\* s_receiveDataPacket, and its kin
ReceiveDataPacket(p) ==
  /\ ~failed /\ ~Full
  /\ queue' = [queue EXCEPT ![tail] = p]
  /\ tail' = After(tail)
  /\ IF ~active /\ phase = "B"
       THEN active' = TRUE /\ scheduled' = scheduled + 1
       ELSE UNCHANGED <<active, scheduled>>
  /\ UNCHANGED <<head, phase, running, current, switch, failed>>

QueueFull ==
  /\ ~failed /\ Full
  /\ failed' = TRUE
  /\ UNCHANGED <<ring, active, phase, thread, switch>>

(***************************************************************************)
(* The thread, s_processQueue and its kin.                                 *)
(***************************************************************************)
\* the core runs it when no other callback is running
Dispatch ==
  /\ ~failed /\ ~running /\ switch = "out" /\ scheduled > 0
  /\ scheduled' = scheduled - 1
  /\ running' = TRUE
  /\ UNCHANGED <<ring, active, phase, current, switch, failed>>

\* interrupts disabled: the loop condition and the queue access
Dequeue ==
  /\ ~failed /\ running /\ current = <<>> /\ head # tail
  /\ current' = <<queue[head]>>
  /\ head' = After(head)
  /\ UNCHANGED <<queue, tail, active, phase, scheduled, running, switch, failed>>

\* interrupts enabled: sf_process and the others
Process ==
  /\ ~failed /\ current # <<>>
  /\ current' = <<>>
  /\ UNCHANGED <<ring, active, phase, scheduled, running, switch, failed>>

\* mutant: packets may come in between the loop condition and the flag
Sleep_late ==
  /\ ~failed /\ running /\ current = <<>>
  /\ active' = FALSE /\ running' = FALSE
  /\ UNCHANGED <<ring, phase, scheduled, current, switch, failed>>

\* interrupts disabled: the loop condition fails, and the flag is cleared
Sleep ==
  /\ ~failed /\ running /\ current = <<>> /\ head = tail
  /\ active' = FALSE /\ running' = FALSE
  /\ UNCHANGED <<ring, phase, scheduled, current, switch, failed>>

(***************************************************************************)
(* Phase changes of a weight core, in the callback that advances the tick. *)
(***************************************************************************)
\* w_switch_to_bp, up to where it disables interrupts
SwitchToBP ==
  /\ Gated /\ ~failed /\ ~running /\ switch = "out" /\ phase = "F"
  /\ phase' = "B" /\ switch' = "check"
  /\ UNCHANGED <<ring, active, thread, failed>>

\* mutants: packets that came early are forgotten; a thread that the packet
\* interrupt has scheduled in the meantime is scheduled again
CheckQueue_skip ==
  /\ ~failed /\ switch = "check"
  /\ switch' = "out"
  /\ UNCHANGED <<ring, active, phase, thread, failed>>
CheckQueue_again ==
  /\ ~failed /\ switch = "check"
  /\ IF tail # head THEN active' = TRUE /\ switch' = "schedule"
                    ELSE UNCHANGED active /\ switch' = "out"
  /\ UNCHANGED <<ring, phase, thread, failed>>

\* ... interrupts disabled
CheckQueue ==
  /\ ~failed /\ switch = "check"
  /\ IF ~active /\ tail # head
       THEN active' = TRUE /\ switch' = "schedule"
       ELSE UNCHANGED active /\ switch' = "out"
  /\ UNCHANGED <<ring, phase, thread, failed>>

\* ... interrupts enabled again
ScheduleThread ==
  /\ ~failed /\ switch = "schedule"
  /\ scheduled' = scheduled + 1 /\ switch' = "out"
  /\ UNCHANGED <<ring, active, phase, running, current, failed>>

\* w_switch_to_fw
SwitchToFW ==
  /\ Gated /\ ~failed /\ ~running /\ switch = "out" /\ phase = "B"
  /\ phase' = "F"
  /\ UNCHANGED <<ring, active, thread, switch, failed>>

\* the core stays in the error state
Halted == failed /\ UNCHANGED vars

Next ==
  \/ \E p \in Packet : ReceiveDataPacket(p)
  \/ QueueFull
  \/ Dispatch \/ Dequeue \/ Process \/ Sleep
  \/ SwitchToBP \/ CheckQueue \/ ScheduleThread \/ SwitchToFW
  \/ Halted

Spec == Init /\ [][Next]_vars

\* The core runs what is scheduled and goes on with what it runs; that
\* packets come in, and that the phase changes, is not taken for granted.
FairSpec ==
  /\ Spec
  /\ WF_vars(Dispatch) /\ WF_vars(Dequeue) /\ WF_vars(Process) /\ WF_vars(Sleep)
  /\ WF_vars(CheckQueue) /\ WF_vars(ScheduleThread)

(***************************************************************************)
(* Properties.                                                             *)
(***************************************************************************)
\* The indices stay within the buffer, and flags and counters in their range.
TypeOK ==
  /\ queue \in [Index -> Packet] /\ head \in Index /\ tail \in Index
  /\ active \in BOOLEAN /\ phase \in {"F", "B"}
  /\ scheduled \in 0 .. 1 /\ running \in BOOLEAN
  /\ current = <<>> \/ \E p \in Packet : current = <<p>>
  /\ switch \in {"out", "check", "schedule"}
  /\ failed \in BOOLEAN

\* The flag is set exactly while there is one instance of the thread,
\* scheduled, running, or about to be scheduled by w_switch_to_bp.  Two of
\* them would take turns and could swap packets.
OneThread ==
  /\ active => \/ scheduled = 1 /\ ~running /\ switch # "schedule"
               \/ scheduled = 0 /\ running /\ switch = "out"
               \/ scheduled = 0 /\ ~running /\ switch = "schedule"
  /\ ~active => scheduled = 0 /\ ~running /\ switch # "schedule"

\* No wakeup is lost: if packets wait and the thread is not active, the core
\* is a weight core that is in FORWARD, or on its way to BACKPROP and about
\* to look at the queue.
NoLostWakeup == head # tail /\ ~active => phase = "F" \/ switch = "check"

\* The ring buffer implements a bounded FIFO with room for all but one slot.
Count == IF tail >= head THEN tail - head ELSE tail - head + PQ_LEN
Slot(i) == IF head + i - 1 < PQ_LEN THEN head + i - 1 ELSE head + i - 1 - PQ_LEN
Waiting == [i \in 1 .. Count |-> queue[Slot(i)]]

Fifo == INSTANCE BoundedFifo WITH Room <- PQ_LEN - 1, buf <- Waiting
FifoSpec == Fifo!Spec

\* Every packet is processed in the end, unless the core is stopped, or goes
\* back to FORWARD.
Served ==
  \A p \in Packet :
    (phase = "B" /\ \E i \in 1 .. Count : Waiting[i] = p)
      ~> (current = <<p>> \/ phase = "F" \/ failed)
=============================================================================
