------------------------------ MODULE TickFlow ------------------------------
(***************************************************************************)
(* How a tick ends, in a machine of any shape.  In a tick one packet goes  *)
(* over each link of a graph (of this tick), from a core to a core.  A     *)
(* link's packet is sent when those it depends on have been handled; the   *)
(* last T ends the tick when it has handled all it waits for.  Then every  *)
(* core is behind until it handles the stop or sync packet (the last T:    *)
(* until it runs its own callback).                                        *)
(*                                                                         *)
(* If the graph is closed (FlowAssumption), the last T can only end a tick *)
(* in which every packet has been sent and handled, by cores in this tick. *)
(*                                                                         *)
(* A link is a tuple <<kind, source, destination, unit>>, a place a tuple  *)
(* <<epoch, example, phase, tick, event>>.                                 *)
(***************************************************************************)
EXTENDS Integers

CONSTANTS
  Cores, LastT,
  Links,        \* the links of a tick, by place
  Deps,         \* the links a link depends on, if they are of the tick
  Final,        \* what the last T waits for, by place
  Training, NumEpochs, NumExamples, NumEvents, NumTicks

VARIABLES
  place,        \* where each core is
  behind,       \* the cores that have not yet left the tick that was ended
  stop,         \* the last decision on the event
  sent, got,    \* links whose packet has been sent, and handled, in this tick
  notices,      \* cores a network stop packet is on its way to
  over,         \* the last T has ended the stage
  fin           \* the cores that have ended the stage

packets == <<sent, got>>
stage == <<notices, over, fin>>
vars == <<place, behind, stop, packets, stage>>

Phases == {"F", "B"}
Places == (0 .. NumEpochs) \X (0 .. NumExamples - 1) \X Phases
            \X (1 .. NumTicks) \X (0 .. NumEvents)

First == <<0, 0, "F", 1, 0>>

NextExample(p) ==
  IF p[2] + 1 = NumExamples THEN <<p[1] + 1, 0, "F", 1, 0>>
                            ELSE <<p[1], p[2] + 1, "F", 1, 0>>

EndOfForward(p) == p[5] + 1 >= NumEvents \/ p[4] = NumTicks

NextPlace(p, b) ==
  IF p[3] = "B"
    THEN IF p[4] = 1 THEN NextExample(p) ELSE <<p[1], p[2], "B", p[4] - 1, p[5]>>
  ELSE IF ~b THEN <<p[1], p[2], "F", p[4] + 1, p[5]>>
  ELSE IF ~EndOfForward(p) THEN <<p[1], p[2], "F", p[4] + 1, p[5] + 1>>
  ELSE IF Training THEN <<p[1], p[2], "B", p[4], p[5] + 1>>
  ELSE NextExample(p)

\* a place in the first tick of an epoch but the first one
EpochOver(p) == p[1] > 0 /\ p[2] = 0 /\ p[3] = "F" /\ p[4] = 1

\* the tick that is computed, or the next one to be
cur == IF LastT \in behind THEN NextPlace(place[LastT], stop) ELSE place[LastT]

\* P: the places of the stage
FlowAssumption(P) ==
  /\ LastT \in Cores
  /\ \A p \in P :
       /\ \A l \in Links[p] : l[2] \in Cores /\ l[3] \in Cores
       \* closed: what the last T waits for depends on every link
       /\ \A G \in SUBSET Links[p] :
            (Final[p] \subseteq G /\ \A l \in G : Deps[l] \cap Links[p] \subseteq G)
              => G = Links[p]
       \* every core has a part in the tick
       /\ \A c \in Cores : \E l \in Links[p] : l[2] = c \/ l[3] = c
  /\ Training \in BOOLEAN
  /\ NumEpochs \in Nat \ {0} /\ NumExamples \in Nat \ {0}
  /\ NumEvents \in Nat \ {0} /\ NumTicks \in Nat \ {0}

Init ==
  /\ place = [c \in Cores |-> First]
  /\ behind = {} /\ stop = FALSE
  /\ sent = {} /\ got = {}
  /\ notices = {} /\ over = FALSE /\ fin = {}

\* any number of packets become due: none is sent twice
Sends ==
  /\ notices = {} /\ ~over
  /\ sent \subseteq sent'
  /\ \A l \in sent' \ sent :
       /\ l \in Links[cur] /\ l[2] \notin behind /\ Deps[l] \cap Links[cur] \subseteq got'
       /\ EpochOver(cur) => LastT \notin behind
  /\ UNCHANGED <<place, behind, stop, stage>>

\* a callback of its own accord
Start == Sends /\ UNCHANGED got

Handle(l) ==
  /\ l \in sent \ got /\ l[3] \notin behind
  /\ got' = got \cup {l}
  /\ Sends

\* The last T ends the tick.  In FORWARD it decides whether to stop the event.
Decide(l) ==
  /\ l \in sent \ got /\ l[3] = LastT /\ LastT \notin behind
  /\ Final[cur] \subseteq got \cup {l}
  /\ IF cur[3] = "F" THEN /\ stop' \in BOOLEAN
                          /\ cur[4] = NumTicks => stop'
                     ELSE stop' = stop
  /\ behind' = Cores
  /\ sent' = {} /\ got' = {}
  /\ UNCHANGED <<place, stage>>

\* the stop or sync packet; the network stop packet may have come first
Advance(c) ==
  /\ c \in behind \ {LastT}
  /\ place' = [place EXCEPT ![c] = NextPlace(@, stop)]
  /\ behind' = behind \ {c}
  /\ fin' = IF over /\ c \notin notices THEN fin \cup {c} ELSE fin
  /\ UNCHANGED <<stop, packets, notices, over>>

AdvanceLast ==
  /\ LastT \in behind
  /\ place' = [place EXCEPT ![LastT] = cur]
  /\ behind' = behind \ {LastT}
  /\ IF EpochOver(cur)
       THEN /\ notices' = Cores \ {LastT}
            /\ over' \in BOOLEAN
            /\ cur[1] = NumEpochs => over'
            /\ fin' = IF over' THEN {LastT} ELSE {}
       ELSE UNCHANGED stage
  /\ UNCHANGED <<stop, packets>>

Notice(c) ==
  /\ c \in notices
  /\ notices' = notices \ {c}
  /\ fin' = IF over /\ c \notin behind THEN fin \cup {c} ELSE fin
  /\ UNCHANGED <<place, behind, stop, packets, over>>

Next ==
  \/ Start \/ AdvanceLast
  \/ \E l \in sent : Handle(l) \/ Decide(l)
  \/ \E c \in Cores : Advance(c) \/ Notice(c)

Spec == Init /\ [][Next]_vars

(***************************************************************************)
(* The invariant.                                                          *)
(***************************************************************************)
TypeOK ==
  /\ place \in [Cores -> Places]
  /\ behind \subseteq Cores
  /\ stop \in BOOLEAN /\ over \in BOOLEAN
  /\ notices \subseteq Cores \ {LastT} /\ fin \subseteq Cores

\* a core that is not behind is in the current tick; the others are all in
\* the tick before
PlaceOK ==
  /\ \A c \in Cores \ behind : place[c] = cur
  /\ \A c \in behind : NextPlace(place[c], stop) = cur
  /\ \A c, d \in behind : place[c] = place[d]

MayLeave(p, b) ==
  /\ p \in Places /\ b \in BOOLEAN
  /\ p[1] < NumEpochs
  /\ p[3] = "F" => p[5] < NumEvents
  /\ p[3] = "F" /\ p[4] = NumTicks => b

RangeOK ==
  /\ cur \in Places
  /\ \A c \in behind : MayLeave(place[c], stop)
  /\ cur[3] = "F" => cur[5] < NumEvents
  /\ cur[1] < NumEpochs \/ over \/ (LastT \in behind /\ EpochOver(cur))

\* what has been sent is of this tick, with all it depends on, and has been
\* sent and handled by cores that are in it
FlowOK ==
  /\ got \subseteq sent /\ sent \subseteq Links[cur]
  /\ \A l \in sent : l[2] \notin behind /\ Deps[l] \cap Links[cur] \subseteq got
  /\ \A l \in got : l[3] \notin behind

\* nothing is computed until the end of an epoch is known to all, and
\* nothing any more when the stage is over
StageOK ==
  /\ (notices # {} \/ over) => sent = {} /\ EpochOver(cur) /\ LastT \notin behind
  /\ EpochOver(cur) /\ LastT \in behind => sent = {}
  /\ fin = IF over THEN {c \in Cores : c \notin behind /\ c \notin notices} ELSE {}

FlowInv == TypeOK /\ PlaceOK /\ RangeOK /\ FlowOK /\ StageOK

\* what c has handled of the tick it is in: all of it, if it is behind
Handled(c) == {l \in Links[place[c]] : l[3] = c /\ (c \in behind \/ l \in got)}

(***************************************************************************)
(* Lockstep.                                                               *)
(***************************************************************************)
Stamp(p) == <<p[1], p[2], p[3], p[4]>>

Barrier == INSTANCE TickBarrier WITH
             Procs <- Cores,
             pos   <- [c \in Cores |-> Stamp(place[c])]
=============================================================================
