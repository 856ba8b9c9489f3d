-------------------------- MODULE RoomEvents_timeline --------------------------
(***************************************************************************)
(* What the write path of a room keeps true of its timeline, for any events, *)
(* state keys, tasks and limits.  Each part shows that one inductive       *)
(* invariant of RoomEvents is kept by every step: what the step does to its *)
(* own task, and that it leaves the others theirs, because it changes nothing *)
(* they rely on or holds the mutex that they would need.  The steps that   *)
(* write what the invariant is about have a case each; the others follow from *)
(* the way a task takes (Flow).                                            *)
(***************************************************************************)
EXTENDS RoomEvents_steps

-----------------------------------------------------------------------------
(* The room state to be set is derived from the present one *)

\* A task that ended has no state to set.
LEMMA EndedBased ==
    ASSUME ControlTypeOK, ControlTypeOK', NEW t \in Task, Ends(t)
    PROVE  Based(t)'
BY ZenonT(40), EndedKeeps DEF Ends, Based, Appending, Writing, Inserting

\* A step that does not touch the room state, or holds state_mutex, leaves the others theirs.
LEMMA OthersBased ==
    ASSUME ControlInv, NEW t \in Task, Undisturbed(t), Based(t)', \A u \in Task : Based(u),
           room_state' = room_state \/ HoldsState(t)
    PROVE  \A u \in Task : Based(u)'
<1> SUFFICES ASSUME NEW u \in Task, u # t PROVE Based(u)'
  OBVIOUS
<1>1. pc'[u] = pc[u] /\ task'[u] = task[u] /\ Based(u) /\ TaskInv(u) /\ TaskInv(t)
  BY Known DEF Undisturbed
<1>2. CASE room_state' = room_state
  BY Zenon, <1>1, <1>2 DEF Based
<1>3. CASE HoldsState(t)
  <2>1. ~HoldsState(u)
    BY Zenon, <1>1, <1>3 DEF TaskInv
  <2> QED
    BY Zenon, <1>1, <2>1 DEF Based, HoldsState, LocalPc
<1> QED
  BY <1>2, <1>3

\* Every step of a task keeps Based: the state it derives is from the room state it has read.
LEMMA StepBased ==
    ASSUME ControlInv, NEW t \in Task, Step(t), \A u \in Task : Based(u)
    PROVE  \A u \in Task : Based(u)'
<1>0. /\ Based(t) /\ TaskInv(t) /\ ControlTypeOK
      /\ ControlTypeOK' /\ Undisturbed(t) /\ Flow(t)
  BY Known, StepEffect
<1>1. CASE set_room_state(t)
  <2>1. Based(t)' /\ HoldsState(t)
    BY Zenon, <1>1, set_room_state_effect DEF Based, LocalPc, Appending, Writing, Inserting, HoldsState
  <2> QED
    BY <1>0, <2>1, OthersBased
<1>2. CASE force_state(t)
  <2>1. Based(t)'
    BY ZenonT(20), <1>0, <1>2, force_state_effect, EndedBased DEF Based, Appending, Writing, Inserting,
       TaskInv, LocalPc
  <2>2. HoldsState(t)
    BY <1>2 DEF force_state, At, HoldsState
  <2> QED
    BY ZenonT(20), <1>0, <2>1, <2>2, OthersBased
<1>3. CASE ~set_room_state(t) /\ ~force_state(t)
  <2>1. room_state' = room_state
    BY <1>3, Writers
  <2>2. CASE Ends(t)
    BY <1>0, <2>1, <2>2, EndedBased, OthersBased
  <2>3. CASE ~Ends(t)
    <3>1. Based(t)'
      BY ZenonT(40), <1>0, <2>1, <2>3 DEF Based, TaskInv, LocalPc, Appending, Writing, Inserting, Flow,
         Moves, Finds, Changes, Field
    <3> QED
      BY SMTT(30), <1>0, <2>1, <3>1, OthersBased
  <2> QED
    BY <2>2, <2>3
<1> QED
  BY <1>1, <1>2, <1>3

\* Every step keeps it.
LEMMA NextBased ==
    ASSUME ControlInv, \A t \in Task : Based(t), [Next]_vars
    PROVE  \A t \in Task : Based(t)'
<1>1. CASE Restart
  BY <1>1, RestartControl DEF Based, Idle
<1>2. ASSUME NEW t \in Task, Request(t) PROVE \A u \in Task : Based(u)'
  <2>1. room_state' = room_state /\ Based(t)'
    BY Zenon, <1>2, RequestEffect DEF Based, db, Appending, Writing, Inserting
  <2> QED
    BY Zenon, <1>2, <2>1, RequestEffect, OthersBased
<1>3. CASE UNCHANGED vars
  BY Zenon, <1>3 DEF vars, db, Based
<1> QED
  BY <1>1, <1>2, <1>3, StepBased DEF Next

\* It holds at first.
LEMMA InitBased == Init => \A t \in Task : Based(t)
BY DEF Init, Based, Idle

\* The steps that set the room state.
LEMMA StateSetters ==
    ASSUME ControlInv, [Next]_vars, room_state' # room_state
    PROVE  \E t \in Task : pc[t] \in {"set_room_state", "force_state"} /\ room_state' = task[t].new
                           /\ (pc[t] = "set_room_state" => task[t].op = "local")
<1>1. ~Restart /\ \A t \in Task : ~Request(t)
  BY Zenon, RestartControl, RequestEffect DEF db
<1>2. PICK t \in Task : Step(t)
  BY <1>1 DEF Next, vars, db
<1>3. set_room_state(t) \/ force_state(t)
  BY ZenonT(20), <1>2, Writers
<1>4. CASE set_room_state(t)
  BY Zenon, <1>4, Known DEF set_room_state, At, TaskInv, LocalPc
<1>5. CASE force_state(t)
  BY Zenon, <1>5 DEF force_state, At
<1> QED
  BY Zenon, <1>3, <1>4, <1>5

\* No room state is lost: each is replaced by one that was derived from it, while both were read
\* and written under the state mutex (append_to_state and set_room_state, resolve_state and
\* force_state), for any number of requests, whatever fails and wherever the process stops.
THEOREM NoRoomStateLost == Spec => NoLostStateUpdate
<1> DEFINE I == ControlInv /\ \A t \in Task : Based(t)
<1>1. Init => I
  BY InitControl, InitBased
<1>2. I /\ [Next]_vars => I'
  BY NextControl, NextBased
<1>3. I /\ [Next]_vars =>
        [room_state' # room_state =>
           \E t \in Task : /\ pc[t] \in {"set_room_state", "force_state"}
                           /\ task[t].base = room_state
                           /\ room_state' = task[t].new]_vars
  <2> SUFFICES ASSUME I, [Next]_vars, room_state' # room_state
               PROVE  \E t \in Task : /\ pc[t] \in {"set_room_state", "force_state"}
                                      /\ task[t].base = room_state /\ room_state' = task[t].new
    OBVIOUS
  <2> QED
    BY Zenon, StateSetters DEF Based
<1> QED
  BY <1>1, <1>2, <1>3, PTL DEF Spec, NoLostStateUpdate

-----------------------------------------------------------------------------
(* The counts *)

\* A task that ended has no count.
LEMMA EndedWithin ==
    ASSUME ControlTypeOK, ControlTypeOK', NEW t \in Task, Ends(t)
    PROVE  Within(t)'
BY Zenon, EndedKeeps DEF Ends, Within, Inserting

\* The counts of the others stay below the counter, and different from those in the timeline.
LEMMA OthersWithin ==
    ASSUME ControlInv, NEW t \in Task, Undisturbed(t), Within(t)', \A u \in Task : Within(u),
           \/ UNCHANGED <<count, pduid_pdu>>
           \/ mutex_insert = NoTask
           \/ pc[t] \in Inserting
    PROVE  \A u \in Task : Within(u)'
<1> SUFFICES ASSUME NEW u \in Task, u # t PROVE Within(u)'
  OBVIOUS
<1>1. pc'[u] = pc[u] /\ task'[u] = task[u] /\ Within(u) /\ TaskInv(u) /\ TaskInv(t)
  BY Zenon, Known DEF Undisturbed
<1>2. CASE UNCHANGED <<count, pduid_pdu>>
  BY Zenon, <1>1, <1>2 DEF Within
<1>3. CASE mutex_insert = NoTask \/ pc[t] \in Inserting
  <2>1. pc[u] \notin Inserting
    BY ZenonT(20), <1>1, <1>3, RoomEventsAssumption DEF TaskInv
  <2> QED
    BY ZenonT(20), <1>1, <2>1 DEF Within, Inserting
<1> QED
  BY <1>2, <1>3

\* Every step of a task keeps CountInv: a count is taken under mutex_insert.
LEMMA StepCount ==
    ASSUME ControlInv, NEW t \in Task, Step(t), CountInv
    PROVE  CountInv'
<1>0. Within(t) /\ ControlTypeOK /\ ControlTypeOK' /\ Undisturbed(t) /\ Flow(t)
  BY Zenon, Known, StepEffect DEF CountInv
<1>1. CASE insert_count(t)
  <2>1. pduid_pdu' = pduid_pdu
    BY <1>1 DEF insert_count
  <2>2. /\ count \in Nat /\ count' \in Nat /\ count' > count
        /\ \A p \in pduid_pdu : p[1] \in Int
    BY Zenon, <1>1, insert_count_effect, Known DEF TypeOK
  <2>3. \A p \in pduid_pdu : p[1] < count' /\ 0 - count' < p[1]
    BY <2>2 DEF CountInv
  <2>4. Within(t)'
    BY Zenon, <1>1, <2>1, <2>3, insert_count_effect DEF Within, Changes, Field
  <2>5. \A u \in Task : Within(u)'
    BY Zenon, <1>1, <2>4, insert_count_effect, OthersWithin DEF CountInv
  <2> QED
    BY <2>1, <2>2, <2>3, <2>5 DEF CountInv
<1>2. CASE append_pdu_put(t)
  <2>1. pduid_pdu' = pduid_pdu \cup {<<task[t].n, task[t].cur>>} /\ count' = count
    BY ZenonT(20), <1>2 DEF append_pdu_put
  <2>2. count \in Nat /\ count > 0 /\ task[t].n = IF task[t].op = "backfill" THEN 0 - count ELSE count
    BY Zenon, <1>0, <1>2, append_pdu_put_effect, Known DEF TypeOK, CountInv, Within, Inserting
  <2>3. task[t].n # 0 /\ task[t].n <= count /\ 0 - count <= task[t].n
    BY SMTT(30), <2>2
  <2>4. Within(t)'
    BY ZenonT(20), <1>0, <1>2, <2>1, append_pdu_put_effect DEF Within, Inserting
  <2>5. \A u \in Task : Within(u)'
    BY Zenon, <1>2, <2>4, append_pdu_put_effect, OthersWithin DEF CountInv, Inserting
  <2> QED
    BY <2>1, <2>2, <2>3, <2>5 DEF CountInv
<1>3. CASE ~insert_count(t) /\ ~append_pdu_put(t)
  <2>1. UNCHANGED <<count, pduid_pdu>>
    BY Zenon, <1>3, Writers
  <2>2. Within(t)'
    <3>1. CASE Ends(t)
      BY Zenon, <1>0, <3>1, EndedWithin
    <3>2. CASE ~Ends(t)
      BY Zenon, <1>0, <1>3, <2>1, <3>2 DEF Within, Inserting, Flow, Moves, Finds, Changes, Field
    <3> QED
      BY <3>1, <3>2
  <2> QED
    BY Zenon, <1>0, <2>1, <2>2, OthersWithin DEF CountInv
<1> QED
  BY ZenonT(20), <1>1, <1>2, <1>3

\* Every step keeps it.
LEMMA NextCount ==
    ASSUME ControlInv, CountInv, [Next]_vars
    PROVE  CountInv'
<1>1. CASE Restart
  BY ZenonT(30), <1>1, RestartControl DEF CountInv, Within, Idle, Inserting, Restart, db
<1>2. ASSUME NEW t \in Task, Request(t) PROVE CountInv'
  <2>1. UNCHANGED <<count, pduid_pdu>> /\ Within(t)'
    BY Zenon, <1>2, RequestEffect DEF Within, db, Inserting
  <2> QED
    BY ZenonT(20), <1>2, <2>1, RequestEffect, OthersWithin DEF CountInv
<1>3. CASE UNCHANGED vars
  BY Zenon, <1>3 DEF vars, db, CountInv, Within
<1> QED
  BY Zenon, <1>1, <1>2, <1>3, StepCount DEF Next

\* It holds at first.
LEMMA InitCount == Init => CountInv
<1> SUFFICES ASSUME Init PROVE CountInv
  OBVIOUS
<1>1. count = 1 /\ pduid_pdu = {<<1, Root>>} /\ \A t \in Task : pc[t] = "idle"
  BY Zenon DEF Init
<1> QED
  BY <1>1 DEF CountInv, Within, Inserting

\* The steps that put a row into the timeline.
LEMMA RowWriters ==
    ASSUME ControlInv, [Next]_vars, pduid_pdu' # pduid_pdu
    PROVE  \E t \in Task : append_pdu_put(t)
<1>1. ~Restart /\ \A t \in Task : ~Request(t)
  BY Zenon, RequestEffect DEF db, Restart
<1>2. PICK t \in Task : Step(t)
  BY Zenon, <1>1 DEF Next, vars, db
<1>3. append_pdu_put(t)
  BY Zenon, <1>2, Writers
<1> QED
  BY <1>3

\* A position a client has read past never gets a new event: append_pdu adds its row after all
\* others and prepend_backfill_pdu before all others, for any number of concurrent inserts and
\* whatever a crash left behind, because the count is taken and the row put under mutex_insert.
THEOREM TimelineGrowsAtTheEnds == Spec => GrowsAtTheEnds
<1> DEFINE I == ControlInv /\ CountInv
<1>1. Init => I
  BY InitControl, InitCount
<1>2. I /\ [Next]_vars => I'
  BY NextControl, NextCount
<1>3. I /\ [Next]_vars =>
        [\A p \in pduid_pdu' \ pduid_pdu :
           \/ p[1] > 0 /\ \A q \in pduid_pdu : q[1] < p[1]
           \/ p[1] < 0 /\ \A q \in pduid_pdu : q[1] > p[1]]_vars
  <2> SUFFICES ASSUME I, [Next]_vars, NEW p \in pduid_pdu', p \notin pduid_pdu
               PROVE  \/ p[1] > 0 /\ \A q \in pduid_pdu : q[1] < p[1]
                      \/ p[1] < 0 /\ \A q \in pduid_pdu : q[1] > p[1]
    BY Zenon
  <2>1. PICK t \in Task : append_pdu_put(t)
    BY Zenon, RowWriters
  <2>2. p = <<task[t].n, task[t].cur>> /\ pc[t] = "put_pdu"
    BY Zenon, <2>1 DEF append_pdu_put, At
  <2>3. /\ count \in Nat /\ count > 0 /\ (p[1] = count \/ p[1] = 0 - count)
        /\ \A q \in pduid_pdu : q[1] \in Int /\ q[1] < count /\ 0 - count < q[1]
    BY ZenonT(20), <2>2, Known DEF CountInv, Within, Inserting, TypeOK
  <2> QED
    BY <2>3
<1> QED
  BY <1>1, <1>2, <1>3, PTL DEF Spec, GrowsAtTheEnds

-----------------------------------------------------------------------------
(* An appended event has its state *)

\* A task that ended has no event to append.
LEMMA EndedStored ==
    ASSUME ControlTypeOK, ControlTypeOK', NEW t \in Task, Ends(t)
    PROVE  Stored(t)'
BY Zenon, EndedKeeps DEF Ends, Stored, Appending

\* The states stored for events are never taken away from the others.
LEMMA OthersStored ==
    ASSUME ControlInv, NEW t \in Task, Undisturbed(t), Stored(t)', StoredInv, pduid_pdu' = pduid_pdu,
           \A e \in Event : event_state[e] # NoState => event_state'[e] # NoState
    PROVE  StoredInv'
<1>1. ASSUME NEW u \in Task, u # t PROVE Stored(u)'
  <2>1. pc'[u] = pc[u] /\ task'[u] = task[u] /\ Stored(u)
    BY Zenon, <1>1 DEF Undisturbed, StoredInv
  <2>2. pc[u] \in Appending \cup {"insert_lock", "put_pdu"} => task[u].cur \in Event
    BY Zenon, CurIsEvent DEF Appending
  <2> QED
    BY Zenon, <2>1, <2>2 DEF Stored
<1>2. \A p \in pduid_pdu : p[2] \in Event
  BY Zenon, Known DEF TypeOK
<1> QED
  BY Zenon, <1>1, <1>2 DEF StoredInv, PduHasState

\* Every step of a task keeps StoredInv: the state is stored before the row is put.
LEMMA StepStored ==
    ASSUME ControlInv, NEW t \in Task, Step(t), CountInv, StoredInv
    PROVE  StoredInv'
<1>0. Stored(t) /\ TaskInv(t) /\ ControlTypeOK /\ ControlTypeOK' /\ Undisturbed(t) /\ Flow(t)
  BY ZenonT(20), Known, StepEffect DEF StoredInv
<1>1. CASE append_to_state(t)
  <2>1. pduid_pdu' = pduid_pdu /\ event_state' = [event_state EXCEPT ![task[t].cur] = room_state]
    BY ZenonT(20), <1>1 DEF append_to_state
  <2>2. /\ task[t].cur \in Event /\ room_state # NoState /\ task'[t].cur = task[t].cur
        /\ event_state \in [Event -> RoomState \cup {NoState}]
    BY SMTT(30), <1>1, append_to_state_effect, CurIsEvent, Known, RoomEventsAssumption DEF TypeOK,
       Changes, Field
  <2>3. Stored(t)' /\ \A e \in Event : event_state[e] # NoState => event_state'[e] # NoState
    BY ZenonT(30), <2>1, <2>2 DEF Stored
  <2> QED
    BY ZenonT(20), <1>1, <2>1, <2>3, append_to_state_effect, OthersStored
<1>2. CASE set_event_state(t)
  <2>1. pduid_pdu' = pduid_pdu /\ event_state' = [event_state EXCEPT ![task[t].cur] = task[t].at]
    BY Zenon, <1>2 DEF set_event_state
  <2>2. /\ task[t].cur \in Event /\ task[t].at # NoState /\ task'[t].cur = task[t].cur
        /\ event_state \in [Event -> RoomState \cup {NoState}]
    BY ZenonT(40), <1>2, set_event_state_effect, CurIsEvent, Known DEF TypeOK, TaskInv, Upgrading, Changes,
       Field
  <2>3. Stored(t)' /\ \A e \in Event : event_state[e] # NoState => event_state'[e] # NoState
    BY Zenon, <2>1, <2>2 DEF Stored
  <2> QED
    BY Zenon, <1>2, <2>1, <2>3, set_event_state_effect, OthersStored
<1>3. CASE append_pdu_put(t)
  <2>1. pduid_pdu' = pduid_pdu \cup {<<task[t].n, task[t].cur>>} /\ event_state' = event_state
    BY Zenon, <1>3 DEF append_pdu_put
  <2>2. /\ pc[t] = "put_pdu" /\ Stored(t) /\ count \in Nat /\ count > 0
        /\ task[t].n = IF task[t].op = "backfill" THEN 0 - count ELSE count
    BY ZenonT(30), <1>0, <1>3, append_pdu_put_effect, Known DEF TypeOK, CountInv, Within, Inserting
  <2>3. task[t].n > 0 => event_state[task[t].cur] # NoState
    BY SMTT(30), <2>2 DEF Stored
  <2>4. \A u \in Task : Stored(u)'
    BY ZenonT(40), <1>3, <2>1, append_pdu_put_effect DEF Undisturbed, Stored, StoredInv, Appending
  <2> QED
    BY <2>1, <2>3, <2>4 DEF StoredInv, PduHasState
<1>4. CASE ~append_to_state(t) /\ ~set_event_state(t) /\ ~append_pdu_put(t)
  <2>1. UNCHANGED <<pduid_pdu, event_state>>
    BY Zenon, <1>4, Writers
  <2>2. CASE Ends(t)
    BY Zenon, <1>0, <2>1, <2>2, EndedStored, OthersStored
  <2>3. CASE ~Ends(t)
    <3>1. Stored(t)'
      BY ZenonT(40), <1>0, <1>4, <2>1, <2>3 DEF Stored, TaskInv, Appending, Writing, Inserting, Flow,
         Moves, Finds, Changes, Field
    <3> QED
      BY Zenon, <1>0, <2>1, <3>1, OthersStored
  <2> QED
    BY Zenon, <2>2, <2>3
<1> QED
  BY Zenon, <1>1, <1>2, <1>3, <1>4

\* Every step keeps it.
LEMMA NextStored ==
    ASSUME ControlInv, CountInv, StoredInv, [Next]_vars
    PROVE  StoredInv'
<1>1. CASE Restart
  BY ZenonT(30), <1>1 DEF StoredInv, PduHasState, Stored, Idle, Appending, Restart, db
<1>2. ASSUME NEW t \in Task, Request(t) PROVE StoredInv'
  <2>1. UNCHANGED <<pduid_pdu, event_state>> /\ Stored(t)'
    BY Zenon, <1>2, RequestEffect DEF Stored, db, Appending
  <2> QED
    BY ZenonT(20), <1>2, <2>1, RequestEffect, OthersStored
<1>3. CASE UNCHANGED vars
  BY Zenon, <1>3 DEF vars, db, StoredInv, PduHasState, Stored
<1> QED
  BY Zenon, <1>1, <1>2, <1>3, StepStored DEF Next

\* It holds at first.
LEMMA InitStored == Init => StoredInv
<1> SUFFICES ASSUME Init PROVE StoredInv
  BY ZenonT(20)
<1>1. /\ pduid_pdu = {<<1, Root>>} /\ \A t \in Task : pc[t] = "idle"
      /\ event_state[Root] = EmptyState
  BY Zenon DEF Init, Event
<1>2. EmptyState # NoState
  BY Zenon, RoomEventsAssumption DEF EmptyState, RoomState
<1> QED
  BY <1>1, <1>2 DEF StoredInv, PduHasState, Stored, Appending

\* "so we don't have a moment in time with the pdu without it's state": build_and_append_pdu and
\* append_incoming_pdu store the state of an event before its row, so no crash between the writes
\* and no other request separates them.
THEOREM TimelineHasState == Spec => []PduHasState
<1> DEFINE I == ControlInv /\ CountInv /\ StoredInv
<1>1. Init => I
  BY InitControl, InitCount, InitStored
<1>2. I /\ [Next]_vars => I'
  BY Zenon, NextControl, NextCount, NextStored
<1>3. I => PduHasState
  BY Zenon DEF StoredInv
<1> QED
  BY <1>1, <1>2, <1>3, PTL DEF Spec

-----------------------------------------------------------------------------
(* The index of the timeline *)

\* A task that ended has no row to index.
LEMMA EndedIndexed ==
    ASSUME ControlTypeOK, ControlTypeOK', NEW t \in Task, Ends(t)
    PROVE  Indexed(t)'
BY Zenon, EndedKeeps DEF Ends, Indexed

\* Rows are never taken away, so the others still have theirs.
LEMMA OthersIndexed ==
    ASSUME ControlInv, NEW t \in Task, Undisturbed(t), Indexed(t)', IndexInv,
           pduid_pdu \subseteq pduid_pdu',
           \A e \in Event : InTimeline(e) => InTimeline(e)'
    PROVE  \A u \in Task : Indexed(u)'
<1> SUFFICES ASSUME NEW u \in Task, u # t PROVE Indexed(u)'
  BY Zenon
<1>1. pc'[u] = pc[u] /\ task'[u] = task[u] /\ Indexed(u)
  BY Zenon DEF Undisturbed, IndexInv
<1>2. pc[u] \in {"remove_outlier", "appended", "set_room_state"} => task[u].cur \in Event
  BY Zenon, CurIsEvent
<1>3. pc[u] \in {"remove_outlier", "appended", "set_room_state"} => InTimeline(task[u].cur)'
  BY Zenon, <1>1, <1>2 DEF Indexed
<1> QED
  BY Zenon, <1>1, <1>3 DEF Indexed, InTimeline

\* A step that leaves the timeline alone keeps IndexInv if it keeps its own task's part.
LEMMA SameIndexed ==
    ASSUME ControlInv, NEW t \in Task, Undisturbed(t), Indexed(t)', IndexInv,
           UNCHANGED <<pduid_pdu, eventid_pduid>>
    PROVE  IndexInv'
<1>1. \A u \in Task : Indexed(u)'
  BY Zenon, OthersIndexed DEF InTimeline
<1> QED
  BY Zenon, <1>1 DEF IndexInv, InTimeline

\* Every step of a task keeps IndexInv: the row is put before the index.
LEMMA StepIndex ==
    ASSUME ControlInv, NEW t \in Task, Step(t), CountInv, IndexInv
    PROVE  IndexInv'
<1>0. Indexed(t) /\ ControlTypeOK /\ ControlTypeOK' /\ Undisturbed(t) /\ Flow(t)
  BY Zenon, Known, StepEffect DEF IndexInv
<1>1. CASE append_pdu_put(t)
  <2>1. pduid_pdu' = pduid_pdu \cup {<<task[t].n, task[t].cur>>} /\ eventid_pduid' = eventid_pduid
    BY Zenon, <1>1 DEF append_pdu_put
  <2>2. Indexed(t)'
    BY ZenonT(20), <1>1, <2>1, append_pdu_put_effect DEF Indexed
  <2>3. \A u \in Task : Indexed(u)'
    BY Zenon, <1>1, <2>1, <2>2, append_pdu_put_effect, OthersIndexed DEF InTimeline
  <2> QED
    BY Zenon, <2>1, <2>3 DEF IndexInv, InTimeline
<1>2. CASE append_pdu_insert_id(t)
  <2>1. /\ pduid_pdu' = pduid_pdu
        /\ eventid_pduid' = [eventid_pduid EXCEPT ![task[t].cur] = task[t].n]
    BY ZenonT(20), <1>2 DEF append_pdu_insert_id
  <2>2. /\ pc[t] = "put_pduid" /\ count \in Nat /\ count > 0
        /\ task[t].n = IF task[t].op = "backfill" THEN 0 - count ELSE count
    BY ZenonT(20), <1>2, append_pdu_insert_id_effect, Known DEF TypeOK, CountInv, Within, Inserting
  <2>3. /\ task[t].n # 0 /\ <<task[t].n, task[t].cur>> \in pduid_pdu
        /\ task[t].cur \in Event /\ eventid_pduid \in [Event -> Int]
    BY SMTT(30), <1>0, <2>2, CurIsEvent, Known DEF Indexed, TypeOK
  <2>4. \A e \in Event : eventid_pduid'[e] = IF e = task[t].cur THEN task[t].n ELSE eventid_pduid[e]
    BY Zenon, <2>1, <2>3
  <2>5. InTimeline(task[t].cur)' /\ Indexed(t)'
    <3>1. task'[t] = task[t] /\ pc'[t] = "remove_outlier"
      BY Zenon, <1>2, append_pdu_insert_id_effect
    <3> QED
      BY ZenonT(20), <2>3, <2>4, <3>1 DEF Indexed, InTimeline
  <2>6. \A e \in Event : InTimeline(e) => InTimeline(e)'
    BY ZenonT(20), <2>3, <2>4 DEF InTimeline
  <2>7. \A u \in Task : Indexed(u)'
    BY Zenon, <1>2, <2>1, <2>5, <2>6, append_pdu_insert_id_effect, OthersIndexed
  <2> QED
    BY Zenon, <2>1, <2>3, <2>4, <2>7 DEF IndexInv, InTimeline
<1>3. CASE ~append_pdu_put(t) /\ ~append_pdu_insert_id(t)
  <2>1. UNCHANGED <<pduid_pdu, eventid_pduid>>
    BY Zenon, <1>3, Writers
  <2>2. CASE Ends(t)
    BY Zenon, <1>0, <2>1, <2>2, EndedIndexed, SameIndexed
  <2>3. CASE ~Ends(t)
    <3>1. Indexed(t)'
      BY Zenon, <1>0, <1>3, <2>1, <2>3 DEF Indexed, InTimeline, Flow, Moves, Finds, Changes, Field
    <3> QED
      BY Zenon, <1>0, <2>1, <3>1, SameIndexed
  <2> QED
    BY <2>2, <2>3
<1> QED
  BY ZenonT(20), <1>1, <1>2, <1>3

\* Every step keeps it.
LEMMA NextIndex ==
    ASSUME ControlInv, CountInv, IndexInv, [Next]_vars
    PROVE  IndexInv'
<1>1. CASE Restart
  BY Zenon, <1>1 DEF IndexInv, Indexed, InTimeline, Restart, db
<1>2. ASSUME NEW t \in Task, Request(t) PROVE IndexInv'
  <2>1. UNCHANGED <<pduid_pdu, eventid_pduid>> /\ Indexed(t)'
    BY Zenon, <1>2, RequestEffect DEF Indexed, db
  <2> QED
    BY ZenonT(20), <1>2, <2>1, RequestEffect, SameIndexed
<1>3. CASE UNCHANGED vars
  BY Zenon, <1>3 DEF vars, db, IndexInv, Indexed, InTimeline
<1> QED
  BY <1>1, <1>2, <1>3, StepIndex DEF Next

\* It holds at first.
LEMMA InitIndex == Init => IndexInv
<1> SUFFICES ASSUME Init PROVE IndexInv
  OBVIOUS
<1>1. /\ pduid_pdu = {<<1, Root>>} /\ \A t \in Task : pc[t] = "idle"
      /\ \A e \in Event : eventid_pduid[e] = IF e = Root THEN 1 ELSE 0
  BY Zenon DEF Init
<1> QED
  BY Zenon, <1>1 DEF IndexInv, Indexed, InTimeline

\* An event that can be read stays readable: its index is written before its outlier is removed.
LEMMA StaysReadable ==
    ASSUME ControlInv, CountInv, IndexInv, [Next]_vars
    PROVE  \A e \in Event : PduExists(e) => PduExists(e)'
<1>1. CASE UNCHANGED <<pduid_pdu, eventid_pduid>> /\ outliers \subseteq outliers'
  BY Zenon, <1>1 DEF PduExists, InTimeline
<1>2. ASSUME NEW t \in Task, append_pdu_put(t) PROVE \A e \in Event : PduExists(e) => PduExists(e)'
  BY Zenon, <1>2 DEF PduExists, InTimeline, append_pdu_put
<1>3. ASSUME NEW t \in Task, append_pdu_insert_id(t) PROVE \A e \in Event : PduExists(e) => PduExists(e)'
  <2>1. /\ outliers' = outliers /\ pduid_pdu' = pduid_pdu
        /\ eventid_pduid' = [eventid_pduid EXCEPT ![task[t].cur] = task[t].n]
    BY Zenon, <1>3 DEF append_pdu_insert_id
  <2>2. IndexInv'
    BY Zenon, NextIndex
  <2>3. \A e \in Event : InTimeline(e) => InTimeline(e)'
    <3>1. pc[t] = "put_pduid" /\ Within(t) /\ count > 0 /\ count \in Nat /\ eventid_pduid \in [Event -> Int]
      BY Zenon, <1>3, append_pdu_insert_id_effect, Known DEF TypeOK, CountInv
    <3>2. task[t].n # 0
      BY <3>1 DEF Within, Inserting
    <3> QED
      BY ZenonT(20), <2>1, <3>1, <3>2 DEF InTimeline
  <2> QED
    BY Zenon, <2>1, <2>2, <2>3 DEF PduExists, IndexInv
<1>4. ASSUME NEW t \in Task, append_pdu_remove_outlier(t)
      PROVE  \A e \in Event : PduExists(e) => PduExists(e)'
  <2>1. InTimeline(task[t].cur)
    BY ZenonT(30), <1>4, append_pdu_remove_outlier_effect DEF IndexInv, Indexed
  <2> QED
    BY Zenon, <1>4, <2>1 DEF PduExists, IndexInv, InTimeline, append_pdu_remove_outlier
<1>5. ASSUME NEW t \in Task, Step(t),
             ~append_pdu_put(t), ~append_pdu_insert_id(t), ~append_pdu_remove_outlier(t)
      PROVE  UNCHANGED <<pduid_pdu, eventid_pduid>> /\ outliers \subseteq outliers'
  BY ZenonT(20), <1>5, Writers
<1>6. ASSUME NEW t \in Task, Request(t) PROVE UNCHANGED <<pduid_pdu, eventid_pduid, outliers>>
  BY Zenon, <1>6, RequestEffect DEF db
<1>7. Restart \/ UNCHANGED vars => UNCHANGED <<pduid_pdu, eventid_pduid, outliers>>
  BY Zenon DEF Restart, vars, db
<1> QED
  BY Zenon, <1>1, <1>2, <1>3, <1>4, <1>5, <1>6, <1>7 DEF Next

-----------------------------------------------------------------------------
(* The leaves *)

\* A task that ended has no leaves to set.
LEMMA EndedSettles ==
    ASSUME ControlTypeOK, ControlTypeOK', NEW t \in Task, Ends(t)
    PROVE  Settles(t)'
BY ZenonT(20), EndedKeeps DEF Ends, Settles, Appending

\* A task keeps its promise to insert the leaf it set, or has inserted it.
Keeps(t) == Settling(t) => task'[t].cur = task[t].cur /\ (InTimeline(task[t].cur)' \/ Settling(t)')

\* A task whose event is a leaf before it is in the timeline holds state_mutex.
LEMMA SettlingHolds ==
    ASSUME ControlInv, NEW t \in Task, Settling(t)
    PROVE  state_mutex = t /\ task[t].cur \in Event
BY ZenonT(20), Known, CurIsEvent DEF Settling, TaskInv, HoldsState, Appending, Inserting, Writing

\* A step that leaves the leaves alone, or holds state_mutex, leaves the others theirs.
LEMMA OthersSettle ==
    ASSUME ControlInv, NEW t \in Task, Undisturbed(t), Settles(t)', Keeps(t), LeavesInv,
           \A e \in Event : InTimeline(e) => InTimeline(e)',
           \A l \in leaves' \ leaves : InTimeline(l)' \/ (Settling(t)' /\ l = task'[t].cur)
    PROVE  LeavesInv'
<1>1. ASSUME NEW u \in Task, u # t PROVE Settles(u)' /\ (Settling(u) => Settling(u)' /\ task'[u].cur = task[u].cur)
  <2>1. pc'[u] = pc[u] /\ task'[u] = task[u] /\ Settles(u) /\ task[u].ext \subseteq Event
    BY ZenonT(30), <1>1, Known DEF Undisturbed, LeavesInv, TaskState
  <2>2. Settles(u)'
    BY ZenonT(30), <2>1 DEF Settles
  <2> QED
    BY Zenon, <2>1, <2>2 DEF Settling
<1>2. leaves \subseteq Event
  BY ZenonT(20), Known DEF TypeOK
<1>3. ASSUME NEW l \in leaves PROVE InTimeline(l)' \/ \E u \in Task : Settling(u)' /\ l = task'[u].cur
  <2>1. CASE InTimeline(l)
    BY ZenonT(20), <1>2, <2>1
  <2>2. CASE \E u \in Task : Settling(u) /\ l = task[u].cur
    <3>1. PICK u \in Task : Settling(u) /\ l = task[u].cur
      BY Zenon, <2>2
    <3>2. CASE u = t
      BY Zenon, <3>1, <3>2 DEF Keeps
    <3> QED
      BY Zenon, <1>1, <3>1, <3>2
  <2> QED
    BY Zenon, <2>1, <2>2 DEF LeavesInv
<1> QED
  BY ZenonT(20), <1>1, <1>3 DEF LeavesInv

\* Every step of a task keeps LeavesInv: a leaf is in the timeline, or its task is about to put it.
LEMMA StepLeaves ==
    ASSUME ControlInv, CountInv, LeavesInv, NEW t \in Task, Step(t)
    PROVE  LeavesInv'
<1>0. Settles(t) /\ ControlTypeOK /\ ControlTypeOK' /\ Undisturbed(t) /\ Flow(t)
  BY ZenonT(20), Known, StepEffect DEF LeavesInv
<1>1. CASE append_to_state(t)
  <2>1. UNCHANGED <<leaves, eventid_pduid>>
    BY Zenon, <1>1 DEF append_to_state
  <2>2. ~task[t].soft /\ Keeps(t)
    BY ZenonT(30), <1>1, append_to_state_effect, Known DEF TaskInv, LocalPc, Keeps, Settling
  <2>3. ~task'[t].soft /\ task'[t].ext = {task'[t].cur} /\ pc'[t] = "mark_referenced"
    BY SMTT(20), <1>1, <2>2, append_to_state_effect DEF Changes, Field
  <2>4. Settles(t)'
    BY Zenon, <2>3 DEF Settles
  <2> QED
    BY Zenon, <1>1, <2>1, <2>2, <2>4, append_to_state_effect, OthersSettle DEF InTimeline
<1>2. CASE set_forward_extremities_remove(t)
  <2>1. leaves' = {} /\ eventid_pduid' = eventid_pduid
    BY Zenon, <1>2 DEF set_forward_extremities_remove
  <2>2. Keeps(t)
    BY ZenonT(20), <1>2, set_forward_extremities_remove_effect DEF Keeps, Settling
  <2>3. Settles(t)'
    BY ZenonT(20), <1>0, <1>2, <2>1, set_forward_extremities_remove_effect DEF Settles, Appending, InTimeline
  <2> QED
    BY ZenonT(20), <1>2, <2>1, <2>2, <2>3, set_forward_extremities_remove_effect, OthersSettle DEF InTimeline
<1>3. CASE set_forward_extremities_put(t)
  <2>1. eventid_pduid' = eventid_pduid /\ task'[t] = task[t] /\ pc[t] = "put_leaves"
    BY ZenonT(20), <1>3, set_forward_extremities_put_effect DEF set_forward_extremities_put
  <2>2. task[t].op # "backfill" /\ \A l \in task[t].ext : InTimeline(l) \/ (~task[t].soft /\ l = task[t].cur)
    BY ZenonT(20), <1>0, <2>1, Known DEF TaskInv, Writing, Inserting, Settles, Appending
  <2>3. Keeps(t)
    BY ZenonT(20), <1>3, <2>1, set_forward_extremities_put_effect DEF Keeps, Settling
  <2>4. Settles(t)'
    BY ZenonT(20), <1>0, <1>3, <2>1, set_forward_extremities_put_effect DEF Settles, Appending, InTimeline
  <2>5. \A l \in leaves' \ leaves : InTimeline(l)' \/ (Settling(t)' /\ l = task'[t].cur)
    <3>1. CASE leaves' = leaves
      BY Zenon, <3>1
    <3>2. CASE pc'[t] = "put_leaves" /\ \E l \in task[t].ext : leaves' = leaves \cup {l}
      BY <2>1, <2>2, <3>2 DEF Settling, InTimeline
    <3> QED
      BY Zenon, <1>3, <3>1, <3>2, set_forward_extremities_put_effect
  <2> QED
    BY ZenonT(20), <1>3, <2>1, <2>3, <2>4, <2>5, set_forward_extremities_put_effect, OthersSettle DEF InTimeline
<1>4. CASE append_pdu_insert_id(t)
  <2>1. leaves' = leaves /\ eventid_pduid' = [eventid_pduid EXCEPT ![task[t].cur] = task[t].n]
    BY ZenonT(20), <1>4 DEF append_pdu_insert_id
  <2>2. /\ pc[t] = "put_pduid" /\ Within(t) /\ count > 0 /\ count \in Nat
        /\ eventid_pduid \in [Event -> Int] /\ task[t].cur \in Event
        /\ task'[t] = task[t] /\ pc'[t] = "remove_outlier"
    BY ZenonT(20), <1>4, append_pdu_insert_id_effect, Known, CurIsEvent DEF TypeOK, CountInv
  <2>3. task[t].n # 0
    BY <2>2 DEF Within, Inserting
  <2>4. InTimeline(task[t].cur)' /\ \A e \in Event : InTimeline(e) => InTimeline(e)'
    BY ZenonT(20), <2>1, <2>2, <2>3 DEF InTimeline
  <2>5. Keeps(t)
    BY Zenon, <2>2, <2>4 DEF Keeps
  <2>6. Settles(t)'
    BY ZenonT(20), <2>2 DEF Settles, Appending
  <2> QED
    BY Zenon, <1>4, <2>1, <2>4, <2>5, <2>6, append_pdu_insert_id_effect, OthersSettle
<1>5. CASE lock_state(t)
  <2>1. UNCHANGED <<leaves, eventid_pduid>>
    BY Zenon, <1>5 DEF lock_state, db
  <2>2. state_mutex = NoTask /\ task'[t].ext \subseteq leaves /\ Keeps(t)
        /\ pc'[t] \in {"set_event_state", "resolve"}
    BY ZenonT(20), <1>5, lock_state_effect DEF Extremities, Keeps, Settling
  <2>3. \A l \in leaves : InTimeline(l)
    BY ZenonT(20), <2>2, SettlingHolds, RoomEventsAssumption DEF LeavesInv
  <2>4. Settles(t)'
    BY ZenonT(20), <2>1, <2>2, <2>3 DEF Settles, Appending, InTimeline
  <2> QED
    BY Zenon, <1>5, <2>1, <2>2, <2>4, lock_state_effect, OthersSettle DEF InTimeline
<1>6. CASE set_event_state(t)
  <2>1. UNCHANGED <<leaves, eventid_pduid>>
    BY ZenonT(20), <1>6 DEF set_event_state
  <2>2. /\ task'[t].cur = task[t].cur /\ task'[t].soft = task[t].soft
        /\ pc[t] = "set_event_state" /\ pc'[t] = "mark_referenced"
    BY ZenonT(20), <1>6, set_event_state_effect DEF Changes, Field
  <2>3. \A l \in task[t].ext : InTimeline(l)'
    BY Zenon, <1>0, <2>1, <2>2 DEF Settles, InTimeline
  <2>4. ASSUME task'[t].ext = task[t].ext
        PROVE  \A l \in task'[t].ext : InTimeline(l)' \/ (~task'[t].soft /\ l = task'[t].cur)
    BY Zenon, <2>3, <2>4
  <2>5. ASSUME ~task[t].soft, task'[t].ext = task[t].ext \cup {task[t].cur}
        PROVE  \A l \in task'[t].ext : InTimeline(l)' \/ (~task'[t].soft /\ l = task'[t].cur)
    BY Zenon, <2>2, <2>3, <2>5
  <2>6. \A l \in task'[t].ext : InTimeline(l)' \/ (~task'[t].soft /\ l = task'[t].cur)
    BY Zenon, <1>6, <2>4, <2>5, set_event_state_effect
  <2>7. Settles(t)' /\ Keeps(t)
    BY ZenonT(20), <2>2, <2>6 DEF Keeps, Settling, Settles
  <2> QED
    BY Zenon, <1>6, <2>1, <2>7, set_event_state_effect, OthersSettle DEF InTimeline
<1>7. CASE /\ ~append_to_state(t) /\ ~set_forward_extremities_remove(t) /\ ~set_forward_extremities_put(t)
           /\ ~append_pdu_insert_id(t) /\ ~lock_state(t) /\ ~set_event_state(t)
  <2>1. UNCHANGED <<leaves, eventid_pduid>>
    BY Zenon, <1>7, Writers
  <2>2. Keeps(t) /\ Settles(t)'
    <3>1. CASE Ends(t) /\ pc[t] \in Ending
      BY Zenon, <1>0, <3>1, EndedSettles DEF Keeps, Settling, Ending
    <3>2. CASE ~(Ends(t) /\ pc[t] \in Ending)
      <4>1. Keeps(t)
        <5>1. SUFFICES ASSUME Settling(t) PROVE task'[t].cur = task[t].cur /\ Settling(t)'
          BY Zenon DEF Keeps
        <5>2. /\ pc'[t] \in {"put_pdu", "put_pduid"} /\ task'[t].op = task[t].op
              /\ task'[t].soft = task[t].soft /\ task'[t].cur = task[t].cur
          BY Zenon, <1>0, <1>7, <3>2, <5>1 DEF Settling, Flow, Moves, Finds, Changes, Field
        <5>3. ~task'[t].soft /\ task'[t].op # "backfill"
          BY Zenon, <5>1, <5>2 DEF Settling
        <5> QED
          BY ZenonT(20), <5>2, <5>3 DEF Settling
      <4>2. Settles(t)'
        BY Zenon, <1>0, <1>7, <2>1, <3>2 DEF Settles, Appending, InTimeline, Flow, Moves, Finds,
           Changes, Field
      <4> QED
        BY ZenonT(20), <4>1, <4>2
    <3> QED
      BY ZenonT(30), <1>0, <3>1, <3>2 DEF Flow, Moves, Finds
  <2> QED
    BY ZenonT(20), <1>0, <2>1, <2>2, OthersSettle DEF InTimeline
<1> QED
  BY ZenonT(20), <1>1, <1>2, <1>3, <1>4, <1>5, <1>6, <1>7

\* Every step keeps it, as long as the process does not stop.
LEMMA NextLeaves ==
    ASSUME ControlInv, CountInv, LeavesInv, [Next]_vars, ~Restart
    PROVE  LeavesInv'
<1>2. ASSUME NEW t \in Task, Request(t) PROVE LeavesInv'
  <2>1. UNCHANGED <<leaves, eventid_pduid>> /\ Settles(t)' /\ Keeps(t)
    BY ZenonT(30), <1>2, RequestEffect DEF Settles, db, Appending, Keeps, Settling
  <2> QED
    BY ZenonT(30), <1>2, <2>1, RequestEffect, OthersSettle DEF InTimeline
<1>3. CASE UNCHANGED vars
  BY ZenonT(40), <1>3 DEF vars, db, LeavesInv, Settles, Settling, InTimeline
<1> QED
  BY Zenon, <1>2, <1>3, StepLeaves DEF Next

\* It holds at first.
LEMMA InitLeaves == Init => LeavesInv
<1> SUFFICES ASSUME Init PROVE LeavesInv
  OBVIOUS
<1>1. leaves = {Root} /\ eventid_pduid[Root] = 1 /\ \A t \in Task : pc[t] = "idle"
  BY Zenon DEF Init, Event
<1> QED
  BY SMTT(20), <1>1 DEF LeavesInv, Settles, InTimeline, Appending

\* Without a crash, the leaves that the next local event will refer to are events of the timeline
\* whenever the state mutex is free: every task that replaces them holds it until the new leaf is
\* inserted, and computes the other ones while it holds it (lock_state).
THEOREM LeavesAreInTheTimeline ==
    ASSUME MaxCrashes = 0
    PROVE  Spec => []LeavesExist
<1> DEFINE I == ControlInv /\ CountInv /\ LeavesInv
<1>1. Init => I
  BY ZenonT(20), InitControl, InitCount, InitLeaves
<1>2. I => ~Restart
  BY SMTT(20) DEF ControlInv, TypeOK, Restart
<1>3. I /\ [Next]_vars => I'
  BY Zenon, <1>2, NextControl, NextCount, NextLeaves
<1>4. I => LeavesExist
  BY Zenon, SettlingHolds, RoomEventsAssumption DEF LeavesInv, LeavesExist
<1> QED
  BY <1>1, <1>3, <1>4, PTL DEF Spec

=============================================================================
