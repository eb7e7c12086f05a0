-------------------------- MODULE PacketQueueProofs --------------------------
(***************************************************************************)
(* PacketQueue is correct for every set of packets, every length of the    *)
(* ring buffer, and both kinds of thread.                                  *)
(***************************************************************************)
EXTENDS PacketQueue, SequenceTheorems, TLAPS

\* The step of an index around the ring buffer.
LEMMA AfterLemma ==
  ASSUME NEW i \in Index
  PROVE  /\ After(i) = IF i + 1 = PQ_LEN THEN 0 ELSE i + 1
         /\ After(i) \in Index
<1>1. CASE i + 1 = PQ_LEN
  BY <1>1, QueueAssumption, SMT DEF Index, After
<1>2. CASE i + 1 # PQ_LEN
  BY <1>2, QueueAssumption, SMT DEF Index, After
<1> QED BY <1>1, <1>2

(***************************************************************************)
(* The thread and its flag.  The two facts need each other: that scheduled *)
(* is at most one follows from the flag, and the flag is read only where   *)
(* the thread is.                                                          *)
(***************************************************************************)
\* No packet is being processed but by a running instance of the thread.
CurrentOK == current # <<>> => running

ThreadInv == TypeOK /\ OneThread /\ NoLostWakeup /\ CurrentOK

LEMMA ThreadInit == Init => ThreadInv
<1> SUFFICES ASSUME Init PROVE ThreadInv
  OBVIOUS
<1>1. 0 \in Index
  BY QueueAssumption DEF Index
<1> QED BY <1>1 DEF Init, ThreadInv, TypeOK, OneThread, NoLostWakeup, CurrentOK

LEMMA ThreadStep == ThreadInv /\ [Next]_vars => ThreadInv'
<1> SUFFICES ASSUME ThreadInv, [Next]_vars PROVE ThreadInv'
  OBVIOUS
<1> USE DEF ThreadInv, TypeOK, OneThread, NoLostWakeup, CurrentOK
<1>1. ASSUME NEW p \in Packet, ReceiveDataPacket(p) PROVE ThreadInv'
  <2>1. /\ queue' \in [Index -> Packet] /\ tail' \in Index
        /\ UNCHANGED <<head, phase, running, current, switch, failed>>
    BY <1>1, AfterLemma DEF ReceiveDataPacket
  <2>2. CASE ~active /\ phase = "B"
    <3>1. active' = TRUE /\ scheduled' = 1
      BY <1>1, <2>2 DEF ReceiveDataPacket
    <3> QED BY <2>1, <2>2, <3>1
  <2>3. CASE active \/ phase # "B"
    <3>1. UNCHANGED <<active, scheduled>>
      BY <1>1, <2>3 DEF ReceiveDataPacket
    <3> QED BY <2>1, <2>3, <3>1
  <2> QED BY <2>2, <2>3
<1>2. CASE QueueFull
  BY <1>2 DEF QueueFull, ring, thread
<1>3. CASE Dispatch
  BY <1>3 DEF Dispatch, ring
<1>4. CASE Dequeue
  BY <1>4, AfterLemma DEF Dequeue
<1>5. CASE Process
  BY <1>5 DEF Process, ring
<1>6. CASE Sleep
  BY <1>6 DEF Sleep, ring
<1>7. CASE SwitchToBP
  BY <1>7 DEF SwitchToBP, ring, thread
<1>8. CASE CheckQueue
  BY <1>8 DEF CheckQueue, ring, thread
<1>9. CASE ScheduleThread
  BY <1>9 DEF ScheduleThread, ring
<1>10. CASE SwitchToFW
  BY <1>10 DEF SwitchToFW, ring, thread
<1>11. CASE UNCHANGED vars
  BY <1>11 DEF vars, ring, thread
<1> QED BY <1>1, <1>2, <1>3, <1>4, <1>5, <1>6, <1>7, <1>8, <1>9, <1>10, <1>11
        DEF Next, Halted

LEMMA ThreadInvariant == Spec => []ThreadInv
  BY ThreadInit, ThreadStep, PTL DEF Spec

\* The indices never leave the buffer (the % of each enqueue and dequeue).
THEOREM TypeCorrect == Spec => []TypeOK
<1>1. ThreadInv => TypeOK
  BY DEF ThreadInv
<1> QED BY <1>1, ThreadInvariant, PTL

\* There is exactly one instance of the thread while the flag is set, and
\* none while it is not: the packet interrupt, the thread and w_switch_to_bp
\* agree on who schedules it.
THEOREM ThreadUnique == Spec => []OneThread
<1>1. ThreadInv => OneThread
  BY DEF ThreadInv
<1> QED BY <1>1, ThreadInvariant, PTL

\* Packets never wait for a thread that nobody is going to schedule, even
\* when one comes in while the thread looks for the last time, or while
\* w_switch_to_bp is between the phase and the queue.
THEOREM WakeupNotLost == Spec => []NoLostWakeup
<1>1. ThreadInv => NoLostWakeup
  BY DEF ThreadInv
<1> QED BY <1>1, ThreadInvariant, PTL

(***************************************************************************)
(* The ring buffer is a FIFO: what an enqueue and a dequeue do to the      *)
(* sequence of packets that wait.                                          *)
(***************************************************************************)
RingOK == queue \in [Index -> Packet] /\ head \in Index /\ tail \in Index

LEMMA CountLemma ==
  ASSUME RingOK
  PROVE  /\ Count \in 0 .. PQ_LEN - 1
         /\ Count = 0 <=> head = tail
         /\ Count = PQ_LEN - 1 <=> Full
         /\ \A i \in 1 .. PQ_LEN : Slot(i) \in Index
         /\ Slot(1) = head
         /\ Slot(Count + 1) = tail
         /\ \A i \in 1 .. Count : Slot(i) # tail
<1>1. head \in 0 .. PQ_LEN - 1 /\ tail \in 0 .. PQ_LEN - 1 /\ PQ_LEN \in Nat
  BY QueueAssumption DEF RingOK, Index
<1>2. Full <=> head = IF tail + 1 = PQ_LEN THEN 0 ELSE tail + 1
  BY AfterLemma DEF RingOK, Full
<1> QED BY <1>1, <1>2, QueueAssumption DEF Count, Slot, Index

WaitingOK ==
  /\ Waiting \in Seq(Packet)
  /\ Len(Waiting) = Count
  /\ \A i \in 1 .. Count : Waiting[i] = queue[Slot(i)]

LEMMA WaitingLemma == RingOK => WaitingOK
<1> SUFFICES ASSUME RingOK PROVE WaitingOK
  OBVIOUS
<1>1. Count \in Nat /\ Waiting \in [1 .. Count -> Packet]
  BY CountLemma, QueueAssumption DEF RingOK, Waiting
<1>2. Waiting \in Seq(Packet)
  BY <1>1, SeqDef
<1>3. Len(Waiting) = Count
  BY <1>1, <1>2, LenProperties
<1> QED BY <1>2, <1>3 DEF Waiting, WaitingOK

\* An enqueue appends, whatever the slot held before.
LEMMA EnqueueAppends ==
  ASSUME ThreadInv, NEW p \in Packet, ReceiveDataPacket(p)
  PROVE  Waiting' = Append(Waiting, p)
<1>1. /\ RingOK /\ RingOK' /\ ~Full
      /\ queue' = [queue EXCEPT ![tail] = p] /\ head' = head /\ tail' = After(tail)
  BY AfterLemma DEF ThreadInv, TypeOK, RingOK, ReceiveDataPacket
<1>2. Count' = Count + 1
  <2>1. /\ head \in 0 .. PQ_LEN - 1 /\ tail \in 0 .. PQ_LEN - 1
        /\ PQ_LEN \in Nat
        /\ tail' = IF tail + 1 = PQ_LEN THEN 0 ELSE tail + 1
        /\ head' = head /\ head # tail'
    BY <1>1, AfterLemma, QueueAssumption DEF RingOK, Index, Full
  <2> QED BY <2>1 DEF Count
<1>3. \A i \in 1 .. Count' : Slot(i)' = Slot(i)
  BY <1>1 DEF Slot
<1>4. \A i \in 1 .. Count : queue'[Slot(i)] = queue[Slot(i)]
  BY <1>1, CountLemma, QueueAssumption DEF RingOK, Index
<1>5. queue'[Slot(Count + 1)] = p
  BY <1>1, CountLemma DEF RingOK
<1>6. /\ Waiting \in Seq(Packet) /\ Len(Waiting) = Count
      /\ \A i \in 1 .. Count : Waiting[i] = queue[Slot(i)]
  BY <1>1, WaitingLemma DEF WaitingOK
<1>7. Append(Waiting, p) \in Seq(Packet) /\ Len(Append(Waiting, p)) = Count + 1
      /\ \A i \in 1 .. Count : Append(Waiting, p)[i] = Waiting[i]
      /\ Append(Waiting, p)[Count + 1] = p
  BY <1>6, AppendProperties
<1>8. /\ Waiting' \in Seq(Packet)
      /\ Len(Waiting') = Count'
      /\ \A i \in 1 .. Count' : Waiting'[i] = queue'[Slot(i)']
  <2>1. WaitingOK'
    BY <1>1, WaitingLemma, PTL
  <2> QED BY <2>1 DEF WaitingOK
<1>9. \A i \in 1 .. Count + 1 : Waiting'[i] = Append(Waiting, p)[i]
  <2> SUFFICES ASSUME NEW i \in 1 .. Count + 1
               PROVE  Waiting'[i] = Append(Waiting, p)[i]
    OBVIOUS
  <2>1. CASE i = Count + 1
    BY <2>1, <1>2, <1>3, <1>5, <1>7, <1>8
  <2>2. CASE i \in 1 .. Count
    <3>1. Waiting'[i] = queue'[Slot(i)]
      BY <2>2, <1>2, <1>3, <1>8
    <3> QED BY <2>2, <3>1, <1>4, <1>6, <1>7
  <2>3. i = Count + 1 \/ i \in 1 .. Count
    <3>1. Count \in Nat
      BY <1>1, CountLemma, QueueAssumption
    <3> QED BY <3>1
  <2> QED BY <2>1, <2>2, <2>3
<1> QED BY <1>2, <1>7, <1>8, <1>9, SeqEqual

\* A dequeue takes the packet that has waited longest.
LEMMA DequeueRemoves ==
  ASSUME ThreadInv, Dequeue
  PROVE  /\ Waiting # <<>>
         /\ current' = <<Head(Waiting)>>
         /\ Waiting' = Tail(Waiting)
<1>1. /\ RingOK /\ RingOK' /\ head # tail
      /\ queue' = queue /\ head' = After(head) /\ tail' = tail
      /\ current' = <<queue[head]>>
  BY AfterLemma DEF ThreadInv, TypeOK, RingOK, Dequeue
<1>2. /\ head \in 0 .. PQ_LEN - 1 /\ tail \in 0 .. PQ_LEN - 1
      /\ PQ_LEN \in Nat
      /\ head' = IF head + 1 = PQ_LEN THEN 0 ELSE head + 1
      /\ tail' = tail /\ head # tail
  BY <1>1, AfterLemma, QueueAssumption DEF RingOK, Index
<1>3. Count \in 1 .. PQ_LEN - 1 /\ Count' = Count - 1
  BY <1>2 DEF Count
<1>4. \A i \in 1 .. Count - 1 : Slot(i)' = Slot(i + 1)
  BY <1>2, <1>3 DEF Slot
<1>5. /\ Waiting \in Seq(Packet) /\ Len(Waiting) = Count
      /\ \A i \in 1 .. Count : Waiting[i] = queue[Slot(i)]
  BY <1>1, WaitingLemma DEF WaitingOK
<1>6. Waiting # <<>> /\ Head(Waiting) = queue[head]
  BY <1>1, <1>3, <1>5, CountLemma, EmptySeq
<1>7. /\ Tail(Waiting) \in Seq(Packet) /\ Len(Tail(Waiting)) = Count - 1
      /\ \A i \in 1 .. Count - 1 : Tail(Waiting)[i] = Waiting[i + 1]
  BY <1>5, <1>6, HeadTailProperties
<1>8. /\ Waiting' \in Seq(Packet)
      /\ Len(Waiting') = Count'
      /\ \A i \in 1 .. Count' : Waiting'[i] = queue'[Slot(i)']
  <2>1. WaitingOK'
    BY <1>1, WaitingLemma, PTL
  <2> QED BY <2>1 DEF WaitingOK
<1>9. ASSUME NEW i \in 1 .. Count - 1
      PROVE  Waiting'[i] = Tail(Waiting)[i]
  <2>1. i + 1 \in 1 .. Count
    BY <1>3
  <2>2. Waiting'[i] = queue[Slot(i + 1)]
    BY <1>1, <1>3, <1>4, <1>8
  <2>3. Tail(Waiting)[i] = Waiting[i + 1]
    BY <1>7
  <2>4. Waiting[i + 1] = queue[Slot(i + 1)]
    BY <1>5, <2>1
  <2> QED BY <2>2, <2>3, <2>4
<1>10. Waiting' = Tail(Waiting)
  <2>1. Len(Waiting') = Len(Tail(Waiting))
    BY <1>3, <1>7, <1>8
  <2>2. \A i \in 1 .. Len(Waiting') : Waiting'[i] = Tail(Waiting)[i]
    BY <1>3, <1>8, <1>9
  <2> QED BY <1>7, <1>8, <2>1, <2>2, SeqEqual
<1> QED BY <1>1, <1>6, <1>10

(***************************************************************************)
(* The refinement: an enqueue is an Arrive, a dequeue a Serve, the end of  *)
(* the processing a Complete, a full queue an Overflow, and everything     *)
(* else a stuttering step.                                                 *)
(***************************************************************************)
LEMMA FifoInit == Init => Fifo!Init
<1> SUFFICES ASSUME Init PROVE Fifo!Init
  OBVIOUS
<1>1. RingOK /\ head = tail
  BY QueueAssumption DEF Init, RingOK, Index
<1>2. Waiting \in Seq(Packet) /\ Len(Waiting) = 0
  BY <1>1, CountLemma, WaitingLemma DEF WaitingOK
<1>3. Waiting = <<>>
  BY <1>2, EmptySeq
<1> QED BY <1>3 DEF Init, Fifo!Init

LEMMA FifoStep ==
  ThreadInv /\ [Next]_vars => [Fifo!Next]_<<Waiting, current, failed>>
<1> SUFFICES ASSUME ThreadInv, [Next]_vars
             PROVE  [Fifo!Next]_<<Waiting, current, failed>>
  OBVIOUS
<1>1. RingOK
  BY DEF ThreadInv, TypeOK, RingOK
<1>2. Len(Waiting) = Count /\ Count \in 0 .. PQ_LEN - 1
      /\ (Count = PQ_LEN - 1 <=> Full)
  BY <1>1, CountLemma, WaitingLemma DEF WaitingOK
<1>3. ASSUME UNCHANGED ring
      PROVE  UNCHANGED Waiting
  BY <1>3 DEF ring, Waiting, Count, Slot
<1>4. ASSUME NEW p \in Packet, ReceiveDataPacket(p)
      PROVE  Fifo!Arrive(p)
  <2>1. Waiting' = Append(Waiting, p)
    BY <1>4, EnqueueAppends
  <2>2. ~failed /\ ~Full /\ UNCHANGED <<current, failed>>
    BY <1>4 DEF ReceiveDataPacket
  <2>3. Len(Waiting) < PQ_LEN - 1
    BY <1>2, <2>2, QueueAssumption
  <2> QED BY <2>1, <2>2, <2>3 DEF Fifo!Arrive
<1>5. ASSUME QueueFull
      PROVE  Fifo!Overflow
  BY <1>2, <1>3, <1>5 DEF QueueFull, thread, Fifo!Overflow
<1>6. ASSUME Dequeue
      PROVE  Fifo!Serve
  <2>1. Waiting # <<>> /\ current' = <<Head(Waiting)>> /\ Waiting' = Tail(Waiting)
    BY <1>6, DequeueRemoves
  <2> QED BY <1>6, <2>1 DEF Dequeue, Fifo!Serve
<1>7. ASSUME Process
      PROVE  Fifo!Complete
  BY <1>3, <1>7 DEF Process, Fifo!Complete
<1>8. ASSUME UNCHANGED <<ring, current, failed>>
      PROVE  UNCHANGED <<Waiting, current, failed>>
  BY <1>3, <1>8
<1>9. CASE Dispatch \/ Sleep \/ SwitchToBP \/ CheckQueue \/ ScheduleThread \/ SwitchToFW
  BY <1>8, <1>9
     DEF Dispatch, Sleep, SwitchToBP, CheckQueue, ScheduleThread, SwitchToFW, thread
<1>10. CASE UNCHANGED vars
  BY <1>8, <1>10 DEF vars, thread
<1> QED BY <1>4, <1>5, <1>6, <1>7, <1>9, <1>10 DEF Next, Halted, Fifo!Next

\* Packets are processed once each and in the order they came in, until the
\* queue overflows, whatever the interrupt, the thread and the phase changes
\* do in between.
THEOREM FifoImplemented == Spec => FifoSpec
<1>1. ThreadInv /\ [Next]_vars => [Fifo!Next]_<<Waiting, current, failed>>
  BY FifoStep
<1> QED BY <1>1, FifoInit, ThreadInvariant, PTL DEF Spec, FifoSpec, Fifo!Spec
=============================================================================
