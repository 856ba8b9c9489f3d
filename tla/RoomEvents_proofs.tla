--------------------------- MODULE RoomEvents_proofs ---------------------------
(***************************************************************************)
(* What rests on the counts and the index of the timeline: the state of the *)
(* room can be read, no event is appended twice, and a local event refers to *)
(* the leaves it replaces.                                                 *)
(***************************************************************************)
EXTENDS RoomEvents_timeline

-----------------------------------------------------------------------------
(* The state can be read *)

\* The events of the state after an event are the event and those of the state before.
LEMMA AfterEvents ==
    ASSUME NEW s \in RoomState, NEW e \in Event
    PROVE  /\ EventsOf(s) \subseteq Event
           /\ EventsOf(StateAfter(s, e)) \subseteq EventsOf(s) \cup {e}
<1>1. EventsOf(s) \subseteq Event
  BY DEF EventsOf, RoomState
<1>2. \A k \in Key : StateAfter(s, e)[k] \in {s[k], e}
  BY DEF StateAfter, RoomState
<1> QED
  BY ZenonT(40), <1>1, <1>2 DEF EventsOf

\* The events of a resolved state are those of the states it is made from.
LEMMA ResolvedEvents ==
    ASSUME NEW s, NEW u, NEW r \in Resolutions({s, u})
    PROVE  EventsOf(r) \subseteq EventsOf(s) \cup EventsOf(u)
<1>1. \A k \in Key : r[k] = s[k] \/ r[k] = u[k]
  BY DEF Resolutions
<1> QED
  BY <1>1 DEF EventsOf

\* The steps that store the state of an event.
LEMMA StateWriters ==
    ASSUME ControlInv, [Next]_vars, event_state' # event_state
    PROVE  \E t \in Task : \/ pc[t] = "append_to_state"
                                /\ event_state' = [event_state EXCEPT ![task[t].cur] = room_state]
                           \/ pc[t] = "set_event_state"
                                /\ event_state' = [event_state EXCEPT ![task[t].cur] = task[t].at]
<1>1. ~Restart /\ \A t \in Task : ~Request(t)
  BY Zenon, RequestEffect DEF db, Restart
<1>2. PICK t \in Task : Step(t)
  BY Zenon, <1>1 DEF Next, vars, db
<1>3. append_to_state(t) \/ set_event_state(t)
  BY Zenon, <1>2, Writers
<1> QED
  BY Zenon, <1>3 DEF append_to_state, set_event_state, At

\* The states a step reads or writes have events that can be read.
LEMMA StatesReadable ==
    ASSUME ControlInv, CountInv, IndexInv, ReadableInv, \A t \in Task : Based(t), [Next]_vars
    PROVE  StateEventsExist'
<1>1. /\ \A e \in Event : PduExists(e) => PduExists(e)'
      /\ TypeOK /\ StateEventsExist
  BY StaysReadable DEF ControlInv, ReadableInv
<1>2. \A s \in RoomState : EventsOf(s) \subseteq Event
  BY DEF EventsOf, RoomState
<1>3. \A e \in EventsOf(room_state') : PduExists(e)'
  <2>1. CASE room_state' = room_state
    BY Zenon, <1>1, <1>2, <2>1 DEF StateEventsExist, TypeOK
  <2>2. CASE room_state' # room_state
    <3>1. PICK t \in Task : /\ pc[t] \in {"set_room_state", "force_state"} /\ room_state' = task[t].new
                            /\ (pc[t] = "set_room_state" => task[t].op = "local")
      BY Zenon, <2>2, StateSetters
    <3>2. CASE pc[t] = "set_room_state"
      <4>1. task[t].new = StateAfter(room_state, task[t].cur) /\ task[t].cur \in Event
        BY Zenon, <3>1, <3>2, CurIsEvent DEF Based
      <4>2. PduExists(task[t].cur)
        BY Zenon, <3>2, <4>1 DEF IndexInv, Indexed, PduExists
      <4>3. EventsOf(room_state') \subseteq EventsOf(room_state) \cup {task[t].cur}
        BY Zenon, <1>1, <3>1, <4>1, AfterEvents DEF TypeOK
      <4> QED
        BY Zenon, <1>1, <1>2, <4>1, <4>2, <4>3 DEF StateEventsExist, TypeOK
    <3>3. CASE pc[t] = "force_state"
      <4>1. task[t].new \in RoomState /\ \A f \in EventsOf(task[t].new) : PduExists(f)
        BY Zenon, <3>3, Known DEF ReadableInv, Readable, TaskInv, TaskState
      <4> QED
        BY Zenon, <1>1, <1>2, <3>1, <4>1
    <3> QED
      BY Zenon, <3>1, <3>2, <3>3
  <2> QED
    BY <2>1, <2>2
<1>4. ASSUME NEW e \in Event, event_state'[e] # NoState, NEW f \in EventsOf(event_state'[e])
      PROVE  PduExists(f)'
  <2>1. CASE event_state'[e] = event_state[e]
    BY Zenon, <1>1, <1>2, <1>4, <2>1 DEF StateEventsExist, TypeOK
  <2>2. CASE event_state'[e] # event_state[e]
    <3>1. PICK t \in Task :
             \/ pc[t] = "append_to_state" /\ event_state' = [event_state EXCEPT ![task[t].cur] = room_state]
             \/ pc[t] = "set_event_state" /\ event_state' = [event_state EXCEPT ![task[t].cur] = task[t].at]
      BY Zenon, <2>2, StateWriters
    <3>2. \/ event_state'[e] = room_state
          \/ pc[t] = "set_event_state" /\ event_state'[e] = task[t].at
      BY Zenon, <1>1, <2>2, <3>1 DEF TypeOK
    <3>3. event_state'[e] \in RoomState /\ \A g \in EventsOf(event_state'[e]) : PduExists(g)
      BY ZenonT(20), <1>1, <1>4, <3>2, Known DEF StateEventsExist, ReadableInv, Readable, TypeOK, TaskState
    <3> QED
      BY Zenon, <1>1, <1>2, <1>4, <3>3
  <2> QED
    BY Zenon, <2>1, <2>2
<1> QED
  BY Zenon, <1>3, <1>4 DEF StateEventsExist

\* The types of what a task works on.
LEMMA ReadableTypes ==
    ASSUME ControlInv, NEW t \in Task
    PROVE  /\ pc[t] = "fetch_prev" => task[t].target \in Event
           /\ task[t].todo \subseteq Event
           /\ pc[t] \in {"upgrade"} \cup Upgrading => task[t].cur \in Event
           /\ task[t].at # NoState => EventsOf(task[t].at) \subseteq Event
           /\ pc[t] = "force_state" => EventsOf(task[t].new) \subseteq Event
<1>1. \A s \in RoomState : EventsOf(s) \subseteq Event
  BY DEF EventsOf, RoomState
<1>2. task[t] \in TaskState /\ TaskInv(t)
  BY Known
<1> QED
  BY Zenon, <1>1, <1>2, CurIsEvent, TargetIsEvent DEF TaskState, TaskInv, Upgrading

\* An event that can be read stays so.
LEMMA KeptReadable ==
    ASSUME ControlInv, NEW t \in Task, Readable(t), pc'[t] = pc[t], task'[t] = task[t],
           \A e \in Event : PduExists(e) => PduExists(e)'
    PROVE  Readable(t)'
BY Zenon, ReadableTypes DEF Readable

\* A task that ended works on nothing.
LEMMA EndedReadable ==
    ASSUME ControlInv, ControlTypeOK', NEW t \in Task, Readable(t), Ends(t),
           \A e \in Event : PduExists(e) => PduExists(e)'
    PROVE  Readable(t)'
<1>1. /\ pc'[t] \in {"idle", "next_prev"} /\ task'[t].at = NoState
      /\ task'[t].todo = {} \/ task'[t].todo = task[t].todo
  BY Zenon, Known, EndedKeeps DEF Ends
<1>2. \A f \in task[t].todo : PduExists(f)'
  BY Zenon, ReadableTypes DEF Readable
<1> QED
  BY Zenon, <1>1, <1>2 DEF Readable, Upgrading

\* Every step of a task keeps what the task works on readable.
LEMMA OwnReadable ==
    ASSUME ControlInv, NEW t \in Task, Step(t), ReadableInv,
           \A e \in Event : PduExists(e) => PduExists(e)'
    PROVE  Readable(t)'
<1>0. ControlTypeOK' /\ Flow(t) /\ Readable(t) /\ task[t] \in TaskState /\ StateEventsExist /\ TypeOK
  BY Zenon, Known, StepEffect DEF ReadableInv
<1>t. /\ \A f \in task[t].todo : PduExists(f)'
      /\ task[t].at # NoState => \A f \in EventsOf(task[t].at) : PduExists(f)'
      /\ pc[t] \in {"upgrade"} \cup Upgrading => PduExists(task[t].cur) /\ task[t].cur \in Event
      /\ pc[t] = "fetch_prev" => PduExists(task[t].target) /\ task[t].target \in Event
      /\ pc[t] = "force_state" => \A f \in EventsOf(task[t].new) : PduExists(f)'
  BY Zenon, <1>0, ReadableTypes DEF Readable
<1>1. CASE fetch_prev(t)
  <2>1. PICK F \in SUBSET Remote : outliers' = outliers \cup F /\ task'[t].todo = F \cup {task[t].target}
    BY Zenon, <1>1, fetch_prev_effect
  <2>2. \A f \in F : PduExists(f)'
    BY Zenon, <2>1 DEF PduExists
  <2>3. PduExists(task[t].target)'
    BY SMTT(30), <1>1, <1>t, fetch_prev_effect DEF Changes, Field
  <2> QED
    BY ZenonT(40), <1>1, <1>t, <2>1, <2>2, <2>3, fetch_prev_effect DEF Readable, Upgrading, Changes, Field
<1>2. CASE handle_prev_pdu(t)
  <2>1. PICK p \in task[t].todo :
           \/ /\ pc'[t] = "upgrade" /\ Changes(t, {"todo", "cur"})
              /\ task'[t].todo = task[t].todo \ {p} /\ task'[t].cur = p
           \/ /\ pc'[t] = "next_prev"
              /\ Changes(t, {"todo"}) /\ task'[t].todo = task[t].todo \ {p}
    BY Zenon, <1>2, handle_prev_pdu_effect
  <2> QED
    BY Zenon, <1>t, <2>1 DEF Readable, Upgrading, Changes, Field
<1>3. CASE handle_outlier_pdu(t)
  <2>1. CASE outliers' = outliers \cup {task[t].target} /\ task'[t] = task[t] /\ pc'[t] \in {"insert_lock", "fetch_prev"}
    <3>1. PduExists(task[t].target)'
      BY Zenon, <2>1 DEF PduExists
    <3> QED
      BY Zenon, <1>t, <2>1, <3>1 DEF Readable, Upgrading
  <2> QED
    BY ZenonT(20), <1>0, <1>3, <2>1, handle_outlier_pdu_effect, EndedReadable
<1>4. CASE state_at_incoming_event(t)
  <2>1. CASE /\ pc[t] = "state_at" /\ pc'[t] = "soft_fail"
             /\ \E s \in RoomState :
                   /\ outliers' = outliers \cup {f \in EventsOf(s) : ~PduExists(f)}
                   /\ Changes(t, {"at"}) /\ task'[t].at = s
    <3>1. PICK s \in RoomState :
             /\ outliers' = outliers \cup {f \in EventsOf(s) : ~PduExists(f)}
             /\ Changes(t, {"at"}) /\ task'[t].at = s
      BY Zenon, <2>1
    <3>2. EventsOf(s) \subseteq Event
      BY Zenon DEF EventsOf, RoomState
    <3>3. \A f \in EventsOf(s) : PduExists(f) => PduExists(f)'
      BY Zenon, <3>2
    <3>4. \A f \in EventsOf(s) : ~PduExists(f) => PduExists(f)'
      BY Zenon, <3>1 DEF PduExists
    <3>5. PduExists(task[t].cur)' /\ task'[t].cur = task[t].cur /\ task'[t].todo = task[t].todo
      BY ZenonT(20), <1>t, <2>1, <3>1 DEF Upgrading, Changes, Field
    <3> QED
      BY ZenonT(20), <1>t, <2>1, <3>1, <3>3, <3>4, <3>5 DEF Readable
  <2> QED
    BY ZenonT(20), <1>0, <1>4, <2>1, state_at_incoming_event_effect, EndedReadable
<1>5. CASE resolve_state(t)
  <2>1. CASE /\ pc[t] = "resolve" /\ pc'[t] = "force_state"
             /\ \E s \in Resolutions({room_state, StateAfter(task[t].at, task[t].cur)}) :
                   Changes(t, {"new", "base"}) /\ task'[t].new = s
    <3>1. PICK s \in Resolutions({room_state, StateAfter(task[t].at, task[t].cur)}) :
             Changes(t, {"new", "base"}) /\ task'[t].new = s
      BY ZenonT(20), <2>1
    <3>2. task[t].at \in RoomState /\ task[t].cur \in Event /\ PduExists(task[t].cur)
      BY ZenonT(20), <1>t, <2>1, Known DEF TaskInv, TaskState, Upgrading
    <3>3. EventsOf(s) \subseteq EventsOf(room_state) \cup EventsOf(task[t].at) \cup {task[t].cur}
      BY <3>2, ResolvedEvents, AfterEvents
    <3>4. \A f \in EventsOf(room_state) : PduExists(f)'
      <4>0. room_state \in RoomState
        BY Zenon, <1>0 DEF TypeOK
      <4>1. EventsOf(room_state) \subseteq Event
        BY Zenon, <4>0 DEF EventsOf, RoomState
      <4> QED
        BY Zenon, <1>0, <4>1 DEF StateEventsExist
    <3>5. \A f \in EventsOf(task[t].at) : PduExists(f)'
      BY ZenonT(20), <1>t, <2>1, Known DEF TaskInv, Upgrading
    <3>6. PduExists(task[t].cur)' /\ task'[t].cur = task[t].cur /\ task'[t].todo = task[t].todo
          /\ task'[t].at = task[t].at
      BY Zenon, <3>1, <3>2 DEF Changes, Field
    <3>7. \A f \in EventsOf(task'[t].new) : PduExists(f)'
      BY Zenon, <3>1, <3>2, <3>3, <3>4, <3>5
    <3> QED
      BY ZenonT(20), <1>t, <2>1, <3>5, <3>6, <3>7 DEF Readable
  <2> QED
    BY ZenonT(20), <1>0, <1>5, <2>1, resolve_state_effect, EndedReadable
<1>6. CASE Ends(t)
  BY Zenon, <1>0, <1>6, EndedReadable
<1>7. CASE /\ ~fetch_prev(t) /\ ~handle_prev_pdu(t) /\ ~handle_outlier_pdu(t)
           /\ ~state_at_incoming_event(t) /\ ~resolve_state(t) /\ ~Ends(t)
  BY ZenonT(40), <1>0, <1>t, <1>7 DEF Readable, Upgrading, Flow, Moves, Finds, Changes, Field
<1> QED
  BY Zenon, <1>1, <1>2, <1>3, <1>4, <1>5, <1>6, <1>7

\* Every step keeps ReadableInv.
LEMMA NextReadable ==
    ASSUME ControlInv, CountInv, IndexInv, ReadableInv, \A t \in Task : Based(t), [Next]_vars
    PROVE  ReadableInv'
<1>1. \A e \in Event : PduExists(e) => PduExists(e)'
  BY Zenon, StaysReadable
<1>2. StateEventsExist'
  BY Zenon, StatesReadable
<1>3. CASE Restart
  <2>1. \A t \in Task : Readable(t)'
    BY <1>3, RestartControl DEF Readable, Idle, Upgrading
  <2> QED
    BY Zenon, <1>2, <2>1 DEF ReadableInv
<1>4. ASSUME NEW t \in Task, Undisturbed(t), Readable(t)' PROVE ReadableInv'
  <2>1. \A u \in Task : Readable(u)'
    BY Zenon, <1>1, <1>4, KeptReadable DEF Undisturbed, ReadableInv
  <2> QED
    BY Zenon, <1>2, <2>1 DEF ReadableInv
<1>5. ASSUME NEW t \in Task, Request(t) PROVE Undisturbed(t) /\ Readable(t)'
  BY Zenon, <1>5, RequestEffect DEF Readable, Upgrading
<1>6. ASSUME NEW t \in Task, Step(t) PROVE Undisturbed(t) /\ Readable(t)'
  BY Zenon, <1>1, <1>6, OwnReadable, StepEffect
<1>7. CASE UNCHANGED vars
  BY Zenon, <1>1, <1>2, <1>7, KeptReadable DEF ReadableInv, vars
<1> QED
  BY Zenon, <1>3, <1>4, <1>5, <1>6, <1>7 DEF Next

\* It holds at first.
LEMMA InitReadable == Init => ReadableInv
<1> SUFFICES ASSUME Init PROVE ReadableInv
  OBVIOUS
<1>1. EventsOf(EmptyState) = {} 
  BY Zenon DEF EventsOf, EmptyState
<1>2. room_state = EmptyState /\ \A e \in Event : event_state[e] # NoState => event_state[e] = EmptyState
  BY Zenon DEF Init
<1>3. \A t \in Task : pc[t] = "idle" /\ task[t].todo = {} /\ task[t].at = NoState
  BY Zenon DEF Init, Idle
<1> QED
  BY Zenon, <1>1, <1>2, <1>3 DEF ReadableInv, StateEventsExist, Readable, Upgrading

\* "so that we never have a moment in time where events in the current room state do not exist":
\* whatever is resolved, fetched, forked or cut off by a crash, every event of the room state and
\* of a state stored for an event can be read.
THEOREM StateEventsAreReadable == Spec => []StateEventsExist
<1> DEFINE I == ControlInv /\ CountInv /\ IndexInv /\ ReadableInv /\ \A t \in Task : Based(t)
<1>1. Init => I
  BY Zenon, InitControl, InitCount, InitIndex, InitReadable, InitBased
<1>2. I /\ [Next]_vars => I'
  BY Zenon, NextControl, NextCount, NextIndex, NextReadable, NextBased
<1>3. I => StateEventsExist
  BY Zenon DEF ReadableInv
<1> QED
  BY <1>1, <1>2, <1>3, PTL DEF Spec

-----------------------------------------------------------------------------
(* No event twice *)

\* A task keeps mutex_federation until its request is answered.
LEMMA FederationKept ==
    ASSUME ControlInv, NEW t \in Task, Step(t)
    PROVE  mutex_federation' = mutex_federation \/ (pc'[t] = "idle" /\ task'[t] = Idle)
<1>1. Finish(t) => pc'[t] = "idle" /\ task'[t] = Idle
  BY Zenon, Known DEF Finish, Goto, ControlTypeOK
<1>2. ReturnUpgrade(t) => mutex_federation' = mutex_federation \/ (pc'[t] = "idle" /\ task'[t] = Idle)
  BY Zenon, <1>1 DEF ReturnUpgrade
<1>3. Finish(t) \/ ReturnUpgrade(t) \/ mutex_federation' = mutex_federation
  BY ZenonT(40) DEF Step, locks,
     create_hash_and_sign_event, append_to_state, mark_as_referenced,
     set_forward_extremities_remove, set_forward_extremities_put, insert_count, append_pdu_put,
     append_pdu_insert_id, append_pdu_remove_outlier, append_pdu_rest, set_room_state,
     send_pdu_servers, handle_incoming_pdu, handle_outlier_pdu, fetch_prev, handle_prev_pdu,
     upgrade_outlier_to_timeline_pdu, state_at_incoming_event, soft_fail_check, lock_state,
     resolve_state, force_state, set_event_state, mark_event_soft_failed
<1> QED
  BY Zenon, <1>1, <1>2, <1>3

\* No two tasks are about to insert the same event.
LEMMA OneInserts ==
    ASSUME ControlInv, OnceInv, NEW t \in Task, NEW u \in Task, t # u,
           pc[t] \notin {"idle", "next_prev"}, pc[u] \notin {"idle", "next_prev"},
           task[t].cur = task[u].cur
    PROVE  task[t].op = "local" /\ task[u].op = "local" /\ (HoldsState(t) => ~HoldsState(u))
<1>1. TaskInv(t) /\ TaskInv(u) /\ Only(t) /\ Only(u) /\ task[t] \in TaskState /\ task[u] \in TaskState
  BY ZenonT(20), Known DEF OnceInv
<1>2. HoldsState(t) => ~HoldsState(u)
  BY ZenonT(20), <1>1 DEF TaskInv
<1>3. task[t].op # "none" /\ task[u].op # "none"
  BY Zenon, <1>1 DEF TaskInv
<1>4. /\ task[t].op = "local" => task[t].cur \in Local
      /\ task[t].op # "local" => task[t].cur \in Remote /\ mutex_federation = t
      /\ task[u].op = "local" => task[u].cur \in Local
      /\ task[u].op # "local" => task[u].cur \in Remote /\ mutex_federation = u
  BY ZenonT(40), <1>1, <1>3 DEF TaskInv, Only, TaskState
<1> QED
  BY ZenonT(20), <1>2, <1>4, RoomEventsAssumption

\* An event that is not in the index has no row, for the task that holds mutex_federation.
LEMMA NotIndexedIsFresh ==
    ASSUME ControlInv, OnceInv, NEW t \in Task, task[t].op \in {"send", "join", "backfill"},
           pc[t] # "put_pduid", NEW e \in Remote, ~InTimeline(e)
    PROVE  Fresh(e)
<1>1. mutex_federation = t
  BY Zenon DEF OnceInv, Only
<1>2. ASSUME NEW u \in Task, pc[u] = "put_pduid", task[u].cur = e PROVE FALSE
  <2>1. task[u] \in TaskState /\ TaskInv(u) /\ Only(u) /\ u # t
    BY ZenonT(20), <1>2, Known DEF OnceInv
  <2>2. task[u].op \in {"send", "join", "backfill"}
    BY ZenonT(20), <1>2, <2>1, RoomEventsAssumption DEF TaskInv, TaskState
  <2> QED
    BY ZenonT(20), <1>1, <2>1, <2>2 DEF Only
<1> QED
  BY Zenon, <1>2 DEF OnceInv, Fresh

\* A step that puts no row of their events leaves the others theirs.
LEMMA OthersOnce ==
    ASSUME ControlInv, NEW t \in Task, Undisturbed(t), Only(t)', OnceInv, pduid_pdu' = pduid_pdu,
           created \subseteq created',
           \A e \in Event : InTimeline(e) => InTimeline(e)',
           pc[t] = "put_pduid" => InTimeline(task[t].cur)' /\ task'[t].cur = task[t].cur
    PROVE  OnceInv'
<1>1. ASSUME NEW u \in Task, u # t PROVE Only(u)'
  <2>1. pc'[u] = pc[u] /\ task'[u] = task[u] /\ Only(u) /\ (mutex_federation = u => mutex_federation' = u)
    BY Zenon, <1>1 DEF Undisturbed, OnceInv
  <2> QED
    BY Zenon, <2>1 DEF Only, Fresh
<1>2. ASSUME NEW p \in pduid_pdu
      PROVE  InTimeline(p[2])' \/ \E u \in Task : pc'[u] = "put_pduid" /\ p[2] = task'[u].cur
  <2>1. CASE InTimeline(p[2])
    BY Zenon, <2>1, Known DEF TypeOK
  <2>2. ASSUME NEW u \in Task, pc[u] = "put_pduid", p[2] = task[u].cur
        PROVE  InTimeline(p[2])' \/ \E v \in Task : pc'[v] = "put_pduid" /\ p[2] = task'[v].cur
    <3>1. CASE u = t
      BY ZenonT(20), <2>2, <3>1
    <3>2. CASE u # t
      BY ZenonT(20), <2>2, <3>2 DEF Undisturbed
    <3> QED
      BY Zenon, <3>1, <3>2
  <2> QED
    BY ZenonT(30), <2>1, <2>2 DEF OnceInv
<1>3. NoDuplicatePdus' /\ \A e \in Local \ created' : Fresh(e)'
  BY Zenon DEF OnceInv, NoDuplicatePdus, Fresh
<1> QED
  BY ZenonT(30), <1>1, <1>2, <1>3 DEF OnceInv

\* A task that ended is about to put nothing.
LEMMA EndedOnly ==
    ASSUME ControlTypeOK, ControlTypeOK', NEW t \in Task, Only(t), Ends(t), TaskInv(t)',
           mutex_federation' = mutex_federation \/ (pc'[t] = "idle" /\ task'[t] = Idle)
    PROVE  Only(t)'
<1>1. CASE pc'[t] = "idle" /\ task'[t] = Idle
  BY SMTT(30), <1>1 DEF Only, Idle, Appending, Upgrading
<1>2. CASE mutex_federation' = mutex_federation /\ pc'[t] = "next_prev"
  <2>1. task'[t].op = task[t].op /\ task'[t].op # "local"
    BY ZenonT(20), <1>2, EndedKeeps DEF Ends, TaskInv, LocalPc, Appending, Writing, Inserting
  <2> QED
    BY ZenonT(20), <1>2, <2>1 DEF Only, Appending, Upgrading
<1> QED
  BY ZenonT(20), <1>1, <1>2 DEF Ends, Ended

\* Every step of a task keeps OnceInv: the event it puts was fresh, and nobody else's.
LEMMA StepOnce ==
    ASSUME ControlInv, CountInv, OnceInv, NEW t \in Task, Step(t)
    PROVE  OnceInv'
<1>0. /\ Only(t) /\ TaskInv(t) /\ TaskInv(t)' /\ ControlTypeOK /\ ControlTypeOK' /\ Undisturbed(t) /\ Flow(t)
  BY ZenonT(30), Known, StepEffect DEF OnceInv
<1>f. mutex_federation' = mutex_federation \/ (pc'[t] = "idle" /\ task'[t] = Idle)
  BY ZenonT(20), FederationKept
<1>1. CASE Ends(t) /\ pc[t] \in Ending
  <2>1. UNCHANGED <<pduid_pdu, eventid_pduid, created>> /\ pc[t] # "put_pduid"
    BY Zenon, <1>1 DEF Ends, Ending
  <2>2. Only(t)'
    BY ZenonT(20), <1>0, <1>1, <1>f, EndedOnly
  <2> QED
    BY Zenon, <1>0, <2>1, <2>2, OthersOnce DEF InTimeline
<1>2. CASE append_pdu_put(t)
  <2>1. /\ UNCHANGED <<eventid_pduid, created, mutex_federation>>
        /\ pduid_pdu' = pduid_pdu \cup {<<task[t].n, task[t].cur>>}
    BY ZenonT(20), <1>2 DEF append_pdu_put, locks
  <2>2. /\ pc[t] = "put_pdu" /\ pc'[t] = "put_pduid" /\ task'[t] = task[t]
        /\ Fresh(task[t].cur) /\ TaskInv(t) /\ task[t] \in TaskState
    BY ZenonT(20), <1>0, <1>2, append_pdu_put_effect, Known DEF Only
  <2>3. NoDuplicatePdus'
    BY SMTT(30), <2>1, <2>2 DEF OnceInv, NoDuplicatePdus, Fresh
  <2>4. ASSUME NEW e \in Local \ created' PROVE Fresh(e)'
    <3>1. task[t].cur # e
      BY ZenonT(40), <1>0, <2>1, <2>2, RoomEventsAssumption DEF Only, TaskInv, TaskState
    <3> QED
      BY SMTT(30), <2>1, <3>1 DEF OnceInv, Fresh
  <2>5. ASSUME NEW p \in pduid_pdu'
        PROVE  InTimeline(p[2])' \/ \E u \in Task : pc'[u] = "put_pduid" /\ p[2] = task'[u].cur
    <3>1. CASE p = <<task[t].n, task[t].cur>>
      BY ZenonT(20), <2>2, <3>1
    <3>2. CASE p \in pduid_pdu
      <4>1. ASSUME NEW u \in Task, pc[u] = "put_pduid", p[2] = task[u].cur
            PROVE  pc'[u] = "put_pduid" /\ p[2] = task'[u].cur
        BY ZenonT(20), <1>2, <2>2, <4>1, append_pdu_put_effect DEF Undisturbed
      <4> QED
        BY ZenonT(20), <2>1, <3>2, <4>1 DEF OnceInv, InTimeline
    <3> QED
      BY ZenonT(20), <2>1, <3>1, <3>2
  <2>6. Only(t)'
    BY ZenonT(20), <1>0, <2>1, <2>2 DEF Only, Appending, Upgrading
  <2>7. ASSUME NEW u \in Task, u # t PROVE Only(u)'
    <3>1. pc'[u] = pc[u] /\ task'[u] = task[u] /\ Only(u) /\ TaskInv(u) /\ task[u] \in TaskState
      BY ZenonT(40), <1>2, <2>7, append_pdu_put_effect, Known DEF Undisturbed, OnceInv
    <3>2. ASSUME Fresh(task[u].cur),
                 \/ pc[u] \in {"create", "append_to_state", "insert_lock", "put_pdu"} \cup Appending \cup Upgrading
                 \/ pc[u] = "outlier" /\ task[u].op = "backfill"
          PROVE  Fresh(task[u].cur)'
      <4>1. task[u].cur # task[t].cur
        <5>1. SUFFICES ASSUME task[u].cur = task[t].cur PROVE FALSE
          BY Zenon
        <5>2. pc[u] \notin {"idle", "next_prev"}
          BY ZenonT(20), <3>2 DEF Appending, Upgrading
        <5>3. task[t].op = "local" /\ task[u].op = "local" /\ (HoldsState(t) => ~HoldsState(u))
          BY ZenonT(20), <2>2, <2>7, <5>1, <5>2, OneInserts
        <5>4. HoldsState(t)
          BY ZenonT(20), <2>2, <5>3 DEF HoldsState, Writing, Inserting
        <5>5. HoldsState(u)
          BY ZenonT(20), <3>1, <3>2, <5>3 DEF HoldsState, TaskInv, LocalPc, Appending, Writing, Inserting
        <5> QED
          BY Zenon, <5>3, <5>4, <5>5
      <4> QED
        BY SMTT(30), <2>1, <3>1, <3>2, <4>1 DEF Fresh
    <3> QED
      BY ZenonT(20), <2>1, <3>1, <3>2 DEF Only
  <2> QED
    BY ZenonT(20), <2>3, <2>4, <2>5, <2>6, <2>7 DEF OnceInv
<1>3. CASE append_pdu_insert_id(t)
  <2>1. /\ UNCHANGED <<pduid_pdu, created, mutex_federation>>
        /\ eventid_pduid' = [eventid_pduid EXCEPT ![task[t].cur] = task[t].n]
    BY ZenonT(20), <1>3 DEF append_pdu_insert_id, locks
  <2>2. /\ pc[t] = "put_pduid" /\ Within(t) /\ count > 0 /\ count \in Nat
        /\ eventid_pduid \in [Event -> Int] /\ task[t].cur \in Event
        /\ task'[t] = task[t] /\ pc'[t] = "remove_outlier"
    BY ZenonT(20), <1>3, append_pdu_insert_id_effect, Known, CurIsEvent DEF TypeOK, CountInv
  <2>3. task[t].n # 0
    BY <2>2 DEF Within, Inserting
  <2>4. InTimeline(task[t].cur)' /\ \A e \in Event : InTimeline(e) => InTimeline(e)'
    BY ZenonT(20), <2>1, <2>2, <2>3 DEF InTimeline
  <2>5. Only(t)'
    BY Zenon, <1>0, <2>1, <2>2 DEF Only, Appending, Upgrading
  <2> QED
    BY ZenonT(20), <1>3, <2>1, <2>2, <2>4, <2>5, append_pdu_insert_id_effect, OthersOnce
<1>4. CASE handle_prev_pdu(t)
  <2>1. UNCHANGED <<pduid_pdu, eventid_pduid, created>> /\ pc[t] = "next_prev"
    BY ZenonT(20), <1>4 DEF handle_prev_pdu, At, db
  <2>2. /\ task'[t].op = task[t].op /\ task[t].op # "local"
        /\ pc'[t] \in {"upgrade", "next_prev"} /\ mutex_federation' = mutex_federation
    BY ZenonT(40), <1>4, <1>f, <2>1, handle_prev_pdu_effect, Known DEF TaskInv, LocalPc, Appending,
       Writing, Inserting, Changes, Field
  <2>3. Only(t)'
    BY ZenonT(30), <1>0, <2>2 DEF Only, Appending, Upgrading
  <2> QED
    BY ZenonT(30), <1>4, <2>1, <2>3, handle_prev_pdu_effect, OthersOnce DEF InTimeline
<1>5. CASE \/ Moves(t, "known", "outlier") /\ ~InTimeline(task[t].target)
           \/ Moves(t, "upgrade", "state_at") /\ ~InTimeline(task[t].cur)
  <2>1. /\ pc[t] \in {"known", "upgrade"} /\ pc'[t] \in {"outlier", "state_at"} /\ task'[t] = task[t]
        /\ mutex_federation' = mutex_federation
    BY Zenon, <1>5, <1>f DEF Moves
  <2>2. UNCHANGED <<pduid_pdu, eventid_pduid, created>>
    BY ZenonT(30), <2>1, Writers DEF append_pdu_put, append_pdu_insert_id, At
  <2>3. /\ task[t].op \in {"send", "join", "backfill"} /\ task[t].cur \in Remote
        /\ pc[t] = "known" => task[t].cur = task[t].target
    BY ZenonT(30), <1>0, <2>1, Known DEF TaskInv, LocalPc, Appending, Writing, Inserting, TaskState, Only
  <2>4. ~InTimeline(task[t].cur)
    BY ZenonT(30), <1>5, <2>3 DEF Moves
  <2>5. Fresh(task[t].cur)
    BY ZenonT(30), <2>1, <2>3, <2>4, NotIndexedIsFresh
  <2>6. Only(t)'
    BY ZenonT(30), <1>0, <1>5, <2>1, <2>2, <2>3, <2>5 DEF Only, Fresh, Moves
  <2> QED
    BY ZenonT(30), <1>0, <2>1, <2>2, <2>6, OthersOnce DEF InTimeline
<1>6. CASE /\ ~(Ends(t) /\ pc[t] \in Ending) /\ ~append_pdu_put(t) /\ ~append_pdu_insert_id(t)
           /\ ~handle_prev_pdu(t) /\ pc[t] \notin {"known", "upgrade"}
  <2>1. UNCHANGED <<pduid_pdu, eventid_pduid, created>> /\ pc[t] # "put_pduid"
    BY ZenonT(30), <1>0, <1>6, Writers DEF Flow, Moves, Finds
  <2>2. mutex_federation' = mutex_federation
    BY ZenonT(30), <1>0, <1>6, <1>f DEF Flow, Moves, Finds
  <2>3. Only(t)'
    BY ZenonT(40), <1>0, <1>6, <2>1, <2>2 DEF Only, Fresh, Appending, Upgrading, Flow, Moves, Finds,
       Changes, Field
  <2> QED
    BY ZenonT(30), <1>0, <2>1, <2>3, OthersOnce DEF InTimeline
<1> QED
  BY ZenonT(30), <1>0, <1>1, <1>2, <1>3, <1>4, <1>5, <1>6 DEF Flow, Moves, Finds

\* Every step keeps it, as long as the process does not stop.
LEMMA NextOnce ==
    ASSUME ControlInv, CountInv, OnceInv, [Next]_vars, ~Restart, Unlocked = {}
    PROVE  OnceInv'
<1>1. ASSUME NEW t \in Task, Request(t), Only(t)' PROVE OnceInv'
  <2>1. UNCHANGED <<pduid_pdu, eventid_pduid>> /\ created \subseteq created' /\ pc[t] # "put_pduid"
    BY Zenon, <1>1, RequestEffect DEF db
  <2> QED
    BY ZenonT(20), <1>1, <2>1, RequestEffect, OthersOnce DEF InTimeline
<1>2. ASSUME NEW t \in Task, NEW e \in Local, send_message_event(t, e) PROVE Only(t)'
  <2>1. e \notin created /\ created' = created \cup {e} /\ pduid_pdu' = pduid_pdu
    BY Zenon, <1>2 DEF send_message_event, db
  <2>2. Fresh(e)
    BY ZenonT(20), <2>1 DEF OnceInv
  <2> QED
    BY ZenonT(40), <1>2, <2>1, <2>2, send_message_event_effect DEF Only, Fresh
<1>3. ASSUME NEW t \in Task, NEW e \in Remote, send_transaction_message(t, e) PROVE Only(t)'
  BY ZenonT(40), <1>3, send_transaction_message_effect DEF Only, Appending, Upgrading
<1>4. ASSUME NEW t \in Task, NEW e \in Remote, backfill_pdu(t, e) PROVE Only(t)'
  BY ZenonT(40), <1>4, backfill_pdu_effect DEF Only, Appending, Upgrading
<1>5. ASSUME NEW t \in Task, Request(t) PROVE Only(t)'
  BY ZenonT(20), <1>2, <1>3, <1>4, <1>5 DEF Request, join_room_by_id_helper_local
<1>6. CASE UNCHANGED vars
  BY ZenonT(40), <1>6 DEF vars, db, locks, OnceInv, NoDuplicatePdus, Fresh, Only, InTimeline
<1> QED
  BY ZenonT(20), <1>1, <1>5, <1>6, StepOnce DEF Next

\* It holds at first.
LEMMA InitOnce == Init => OnceInv
<1> SUFFICES ASSUME Init PROVE OnceInv
  BY ZenonT(20)
<1>1. /\ pduid_pdu = {<<1, Root>>} /\ eventid_pduid[Root] = 1
      /\ \A t \in Task : pc[t] = "idle" /\ task[t].op = "none"
  BY ZenonT(20) DEF Init, Event, Idle
<1>2. \A t \in Task : Only(t)
  BY ZenonT(20), <1>1 DEF Only, Appending, Upgrading
<1> QED
  BY <1>1, <1>2, RoomEventsAssumption DEF OnceInv, NoDuplicatePdus, Fresh, InTimeline

\* "Skip the PDU if we already have it as a timeline event": the check is made long before the row
\* is put, yet no event gets two rows, as long as the process does not stop and every caller of
\* handle_incoming_pdu holds mutex_federation.  The second assumption is needed: the run
\* room_join_duplicate shows the duplicate that a join without it makes.
THEOREM NoEventTwice ==
    ASSUME MaxCrashes = 0, Unlocked = {}
    PROVE  Spec => []NoDuplicatePdus
<1> DEFINE I == ControlInv /\ CountInv /\ OnceInv
<1>1. Init => I
  BY ZenonT(20), InitControl, InitCount, InitOnce
<1>2. I => ~Restart
  BY SMTT(20) DEF ControlInv, TypeOK, Restart
<1>3. I /\ [Next]_vars => I'
  BY ZenonT(20), <1>2, NextControl, NextCount, NextOnce
<1>4. I => NoDuplicatePdus
  BY Zenon DEF OnceInv
<1> QED
  BY <1>1, <1>3, <1>4, PTL DEF Spec

-----------------------------------------------------------------------------
(* A local event refers to the leaves it replaces *)

\* A task that ended refers to nothing.
LEMMA EndedRefers ==
    ASSUME ControlTypeOK, ControlTypeOK', NEW t \in Task, Ends(t)
    PROVE  RefersToLeaves(t)'
BY Zenon, EndedKeeps DEF Ends, RefersToLeaves

\* A step that leaves leaves and prev events alone, or holds state_mutex, leaves the others theirs.
LEMMA OthersRefer ==
    ASSUME ControlInv, NEW t \in Task, Undisturbed(t), RefersToLeaves(t)', RefersInv,
           UNCHANGED <<leaves, prev_events>> \/ HoldsState(t)
    PROVE  RefersInv'
<1>1. ASSUME NEW u \in Task, u # t PROVE RefersToLeaves(u)'
  <2>1. pc'[u] = pc[u] /\ task'[u] = task[u] /\ RefersToLeaves(u) /\ TaskInv(u) /\ TaskInv(t)
    BY ZenonT(20), <1>1, Known DEF Undisturbed, RefersInv
  <2>2. CASE UNCHANGED <<leaves, prev_events>>
    BY Zenon, <2>1, <2>2 DEF RefersToLeaves
  <2>3. CASE HoldsState(t)
    <3>1. ~HoldsState(u)
      BY ZenonT(30), <1>1, <2>1, <2>3 DEF TaskInv
    <3> QED
      BY ZenonT(30), <2>1, <3>1 DEF RefersToLeaves, HoldsState, LocalPc, Appending
  <2> QED
    BY ZenonT(20), <2>2, <2>3
<1> QED
  BY <1>1 DEF RefersInv

\* Every step of a task keeps RefersInv: the prev events are chosen under state_mutex.
LEMMA StepRefers ==
    ASSUME ControlInv, NEW t \in Task, Step(t), RefersInv
    PROVE  RefersInv'
<1>0. /\ RefersToLeaves(t) /\ TaskInv(t) /\ ControlTypeOK /\ ControlTypeOK'
      /\ Undisturbed(t) /\ Flow(t)
  BY ZenonT(30), Known, StepEffect DEF RefersInv
<1>1. CASE create_hash_and_sign_event(t)
  <2>1. leaves' = leaves /\ HoldsState(t) /\ task[t].cur \in Event
    BY ZenonT(30), <1>1, CurIsEvent DEF create_hash_and_sign_event, HoldsState, LocalPc, At
  <2>2. ASSUME NEW P \in Take(leaves, PrevLimit), prev_events' = [prev_events EXCEPT ![task[t].cur] = P],
               task'[t] = task[t]
        PROVE  RefersToLeaves(t)'
    <3>1. Cardinality(leaves) <= PrevLimit => P = leaves
      BY ZenonT(20), <2>2 DEF Take
    <3>2. prev_events'[task'[t].cur] = P
      BY Zenon, <2>1, <2>2, Known DEF TypeOK
    <3> QED
      BY Zenon, <2>1, <3>1, <3>2 DEF RefersToLeaves
  <2>3. RefersToLeaves(t)'
    BY ZenonT(30), <1>0, <1>1, <2>2, create_hash_and_sign_event_effect, EndedRefers
  <2> QED
    BY ZenonT(30), <1>0, <1>1, <2>1, <2>3, create_hash_and_sign_event_effect, OthersRefer
<1>2. CASE set_forward_extremities_remove(t)
  <2>1. leaves' = {} /\ HoldsState(t)
    BY Zenon, <1>2 DEF set_forward_extremities_remove, HoldsState, Appending, At
  <2>2. RefersToLeaves(t)'
    BY ZenonT(30), <1>2, <2>1, set_forward_extremities_remove_effect DEF RefersToLeaves
  <2> QED
    BY ZenonT(30), <1>2, <2>1, <2>2, set_forward_extremities_remove_effect, OthersRefer
<1>3. CASE set_forward_extremities_put(t)
  <2>1. HoldsState(t) /\ pc'[t] \in {"put_leaves", "mark_soft_failed", "insert_lock"}
    BY Zenon, <1>3, set_forward_extremities_put_effect DEF HoldsState, Appending
  <2>2. RefersToLeaves(t)'
    BY Zenon, <2>1 DEF RefersToLeaves
  <2> QED
    BY ZenonT(20), <1>3, <2>1, <2>2, set_forward_extremities_put_effect, OthersRefer
<1>4. CASE ~create_hash_and_sign_event(t) /\ ~set_forward_extremities_remove(t) /\ ~set_forward_extremities_put(t)
  <2>1. UNCHANGED <<leaves, prev_events>>
    BY Zenon, <1>4, Writers
  <2>2. CASE Ends(t)
    BY ZenonT(20), <1>0, <2>1, <2>2, EndedRefers, OthersRefer
  <2>3. CASE ~Ends(t)
    <3>1. RefersToLeaves(t)'
      BY ZenonT(40), <1>0, <1>4, <2>1, <2>3 DEF RefersToLeaves, TaskInv, LocalPc, Appending, Writing,
         Inserting, Flow, Moves, Finds, Changes, Field
    <3> QED
      BY ZenonT(20), <1>0, <2>1, <3>1, OthersRefer
  <2> QED
    BY Zenon, <2>2, <2>3
<1> QED
  BY Zenon, <1>1, <1>2, <1>3, <1>4

\* Every step keeps it.
LEMMA NextRefers ==
    ASSUME ControlInv, RefersInv, [Next]_vars
    PROVE  RefersInv'
<1>1. CASE Restart
  BY ZenonT(30), <1>1, RestartControl DEF RefersInv, RefersToLeaves, db
<1>2. ASSUME NEW t \in Task, Request(t) PROVE RefersInv'
  <2>1. UNCHANGED <<leaves, prev_events>> /\ RefersToLeaves(t)'
    BY ZenonT(20), <1>2, RequestEffect DEF RefersToLeaves, db
  <2> QED
    BY ZenonT(20), <1>2, <2>1, RequestEffect, OthersRefer DEF RefersInv
<1>3. CASE UNCHANGED vars
  BY Zenon, <1>3 DEF vars, db, RefersInv, RefersToLeaves
<1> QED
  BY Zenon, <1>1, <1>2, <1>3, StepRefers DEF Next

\* It holds at first.
LEMMA InitRefers == Init => RefersInv
<1> SUFFICES ASSUME Init PROVE RefersInv
  BY ZenonT(20)
<1>1. leaves = {Root} /\ \A t \in Task : pc[t] = "idle"
  BY Zenon DEF Init
<1> QED
  BY Zenon, <1>1 DEF RefersInv, RefersToLeaves

\* "Since this PDU references all pdu_leaves we can update the leaves of the room"
\* (build_and_append_pdu): for any limit on the prev events, what a local event replaces is what it
\* refers to, since the state mutex is held from the choice of the prev events to the update.
THEOREM LocalEventRefersToLeaves == Spec => LocalReferencesLeaves
<1> DEFINE I == ControlInv /\ RefersInv
<1>1. Init => I
  BY InitControl, InitRefers
<1>2. I /\ [Next]_vars => I'
  BY ZenonT(20), NextControl, NextRefers
<1>3. I => [\A t \in Task : At(t, "clear_leaves") /\ pc'[t] = "put_leaves"
                          /\ task[t].op = "local" /\ Cardinality(leaves) <= PrevLimit
            => leaves \subseteq prev_events[task[t].cur]]_vars
  BY Zenon DEF RefersInv, RefersToLeaves, At
<1> QED
  BY <1>1, <1>2, <1>3, PTL DEF Spec, LocalReferencesLeaves

=============================================================================
