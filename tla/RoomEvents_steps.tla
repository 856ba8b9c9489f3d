--------------------------- MODULE RoomEvents_steps ---------------------------
(***************************************************************************)
(* The control of RoomEvents: type correctness, and who is where with which *)
(* mutex, for any events, state keys, tasks and limits, crashes included.   *)
(***************************************************************************)
EXTENDS RoomEvents, TLAPS

\* The part of the state a task moves in.
ControlTypeOK ==
    /\ pc \in [Task -> PC]
    /\ task \in [Task -> TaskState]
    /\ state_mutex \in Task \cup {NoTask}
    /\ mutex_federation \in Task \cup {NoTask}
    /\ mutex_insert \in Task \cup {NoTask}

\* A step of t moves no other task and takes no mutex from it.
Undisturbed(t) ==
    \A u \in Task \ {t} :
       /\ pc'[u] = pc[u] /\ task'[u] = task[u]
       /\ state_mutex = u => state_mutex' = u
       /\ mutex_insert = u => mutex_insert' = u
       /\ mutex_federation = u => mutex_federation' = u

\* The request of t is answered, or the next prev event follows.
Ended(t) ==
    \/ pc'[t] = "idle" /\ task'[t] = Idle
    \/ /\ pc'[t] = "next_prev"
       /\ task'[t] = [Idle EXCEPT !.op = task[t].op, !.target = task[t].target, !.todo = task[t].todo]

\* A step of t changes no field of its task but those of F.
Field == {"op", "target", "cur", "todo", "at", "new", "base", "ext", "soft", "n"}
Changes(t, F) == \A f \in Field \ F : task'[t][f] = task[t][f]

\* A task with nothing to do has its type.
LEMMA IdleType == Idle \in TaskState
BY RoomEventsAssumption DEF Idle, TaskState

\* Finish ends the task and frees its mutexes.
LEMMA FinishEffect ==
    ASSUME ControlTypeOK, NEW t \in Task, Finish(t)
    PROVE  ControlTypeOK' /\ Undisturbed(t) /\ Ended(t) /\ pc'[t] = "idle"
BY IdleType DEF Finish, Goto, Free, ControlTypeOK, Undisturbed, Ended, PC

\* So does Return.
LEMMA ReturnEffect ==
    ASSUME ControlTypeOK, NEW t \in Task, ReturnUpgrade(t)
    PROVE  ControlTypeOK' /\ Undisturbed(t) /\ Ended(t)
<1>1. CASE task[t].cur = task[t].target
  BY <1>1, FinishEffect DEF ReturnUpgrade
<1>2. CASE task[t].cur # task[t].target
  <2> DEFINE r == [Idle EXCEPT !.op = task[t].op, !.target = task[t].target, !.todo = task[t].todo]
  <2>1. r \in TaskState
    BY Zenon, IdleType DEF TaskState, ControlTypeOK, Idle
  <2> QED
    BY <1>2, <2>1 DEF ReturnUpgrade, Goto, Free, ControlTypeOK, Undisturbed, Ended, PC
<1> QED
  BY <1>1, <1>2

\* What a task that has ended so remembers.
LEMMA EndedKeeps ==
    ASSUME ControlTypeOK, ControlTypeOK', NEW t \in Task, Ended(t)
    PROVE  /\ pc'[t] \in {"idle", "next_prev"}
           /\ task'[t].at = NoState /\ ~task'[t].soft
           /\ \/ task'[t].op = "none" /\ pc'[t] = "idle" /\ task'[t].todo = {}
              \/ /\ pc'[t] = "next_prev" /\ task'[t].op = task[t].op
                 /\ task'[t].target = task[t].target /\ task'[t].todo = task[t].todo
<1>1. CASE pc'[t] = "idle" /\ task'[t] = Idle
  BY <1>1 DEF Idle
<1>2. CASE /\ pc'[t] = "next_prev"
           /\ task'[t] = [Idle EXCEPT !.op = task[t].op, !.target = task[t].target, !.todo = task[t].todo]
  BY <1>2 DEF Idle
<1> QED
  BY <1>1, <1>2 DEF Ended

-----------------------------------------------------------------------------
(* Where a task is after a step of its own. Every step either ends what the *)
(* task was doing, and then it has written no more than outliers and soft    *)
(* failures, or it goes on as the lemma says.                                *)

Ends(t) ==
    /\ Ended(t)
    /\ UNCHANGED <<pduid_pdu, eventid_pduid, prev_events, event_state, room_state, leaves, count, created>>
    /\ outliers \subseteq outliers'

\* A task that ended has nothing left to keep.
LEMMA EndedTask ==
    ASSUME ControlInv, ControlTypeOK', NEW t \in Task, Ended(t),
           pc'[t] = "idle" \/ task[t].op \in {"send", "join"}
    PROVE  TaskInv(t)'
<1>1. TaskInv(t) /\ ControlTypeOK
  BY DEF ControlInv, TypeOK, ControlTypeOK
<1>2. /\ pc'[t] \in {"idle", "next_prev"} /\ ~task'[t].soft
      /\ \/ task'[t].op = "none" /\ pc'[t] = "idle"
         \/ /\ pc'[t] = "next_prev" /\ task'[t].op = task[t].op
            /\ task'[t].target = task[t].target /\ task'[t].todo = task[t].todo
  BY <1>1, EndedKeeps
<1> QED
  BY Zenon, <1>1, <1>2 DEF TaskInv, HoldsState, LocalPc, Appending, Upgrading, Inserting, Writing

\* What is known of a task before its step.
LEMMA Known ==
    ASSUME ControlInv, NEW t \in Task
    PROVE  TypeOK /\ ControlTypeOK /\ TaskInv(t) /\ task[t] \in TaskState /\ pc[t] \in PC
BY DEF ControlInv, TypeOK, ControlTypeOK

\* A task goes on without taking or dropping a mutex.
LEMMA GoesOn ==
    ASSUME ControlTypeOK, NEW t \in Task, NEW l \in PC, NEW r \in TaskState,
           Goto(t, l), task' = [task EXCEPT ![t] = r], UNCHANGED locks
    PROVE  ControlTypeOK' /\ Undisturbed(t) /\ pc'[t] = l /\ task'[t] = r
BY DEF Goto, locks, ControlTypeOK, Undisturbed

\* The same for a task that keeps its record.
LEMMA GoesOnSame ==
    ASSUME ControlTypeOK, NEW t \in Task, NEW l \in PC, Goto(t, l), UNCHANGED <<task, locks>>
    PROVE  ControlTypeOK' /\ Undisturbed(t) /\ pc'[t] = l /\ task'[t] = task[t]
BY DEF Goto, locks, ControlTypeOK, Undisturbed

\* The state after an event is a room state.
LEMMA AfterType ==
    ASSUME NEW s \in RoomState, NEW e \in Event
    PROVE  StateAfter(s, e) \in RoomState
BY RoomEventsAssumption DEF StateAfter, RoomState

\* The route of a local event takes its mutex and names the event.
LEMMA send_message_event_effect ==
    ASSUME ControlInv, NEW t \in Task, NEW e \in Local, send_message_event(t, e)
    PROVE  /\ ControlTypeOK' /\ Undisturbed(t) /\ TaskInv(t)'
           /\ pc[t] = "idle" /\ pc'[t] = "create" /\ state_mutex' = t
           /\ task'[t].op = "local" /\ task'[t].target = e /\ task'[t].cur = e
           /\ task'[t].todo = {} /\ task'[t].at = NoState
<1> DEFINE r == [Idle EXCEPT !.op = "local", !.target = e, !.cur = e]
<1>1. ControlTypeOK /\ pc[t] = "idle" /\ pc' = [pc EXCEPT ![t] = "create"] /\ task' = [task EXCEPT ![t] = r]
  BY Known DEF send_message_event, Start, At, Goto
<1>2. r \in TaskState /\ r.op = "local" /\ r.target = e /\ r.cur = e /\ r.todo = {} /\ r.soft = FALSE
      /\ r.at = NoState
  BY Zenon, IdleType DEF Idle, TaskState, Event
<1>3. ControlTypeOK' /\ Undisturbed(t) /\ pc'[t] = "create" /\ task'[t] = r
  BY <1>1, <1>2, RoomEventsAssumption DEF send_message_event, locks, PC, ControlTypeOK, Undisturbed
<1>4. state_mutex' = t
  BY DEF send_message_event, locks
<1>5. TaskInv(t)'
  BY <1>2, <1>3, <1>4 DEF TaskInv, HoldsState, LocalPc, Appending, Upgrading, Inserting, Writing
<1> QED
  BY Zenon, <1>1, <1>2, <1>3, <1>4, <1>5

\* The route of a transaction does so for an incoming one,
LEMMA send_transaction_message_effect ==
    ASSUME ControlInv, NEW t \in Task, NEW e \in Remote, send_transaction_message(t, e)
    PROVE  /\ ControlTypeOK' /\ Undisturbed(t) /\ TaskInv(t)'
           /\ pc[t] = "idle" /\ pc'[t] = "known" /\ mutex_federation' = t
           /\ task'[t].op = "send" /\ task'[t].target = e /\ task'[t].cur = e
           /\ task'[t].todo = {} /\ task'[t].at = NoState
<1> DEFINE r == [Idle EXCEPT !.op = "send", !.target = e, !.cur = e]
<1>1. ControlTypeOK /\ pc[t] = "idle" /\ pc' = [pc EXCEPT ![t] = "known"] /\ task' = [task EXCEPT ![t] = r]
  BY Known DEF send_transaction_message, Start, At, Goto
<1>2. r \in TaskState /\ r.op = "send" /\ r.target = e /\ r.cur = e /\ r.todo = {} /\ r.soft = FALSE
      /\ r.at = NoState
  BY Zenon, IdleType DEF Idle, TaskState, Event
<1>3. ControlTypeOK' /\ Undisturbed(t) /\ pc'[t] = "known" /\ task'[t] = r
  BY <1>1, <1>2, RoomEventsAssumption DEF send_transaction_message, locks, PC, ControlTypeOK,
     Undisturbed
<1>4. mutex_federation' = t
  BY DEF send_transaction_message, locks
<1>5. TaskInv(t)'
  BY <1>2, <1>3, <1>4 DEF TaskInv, HoldsState, LocalPc, Appending, Upgrading, Inserting, Writing
<1> QED
  BY Zenon, <1>1, <1>2, <1>3, <1>4, <1>5

\* and the join for the event of the join.
LEMMA join_room_by_id_helper_local_effect ==
    ASSUME ControlInv, NEW t \in Task, NEW e \in Remote, join_room_by_id_helper_local(t, e)
    PROVE  /\ ControlTypeOK' /\ Undisturbed(t) /\ TaskInv(t)'
           /\ pc[t] = "idle" /\ pc'[t] = "known" /\ UNCHANGED locks
           /\ task'[t].op = "join" /\ task'[t].target = e /\ task'[t].cur = e
           /\ task'[t].todo = {} /\ task'[t].at = NoState
<1> DEFINE r == [Idle EXCEPT !.op = "join", !.target = e, !.cur = e]
<1>1. ControlTypeOK /\ pc[t] = "idle" /\ pc' = [pc EXCEPT ![t] = "known"] /\ task' = [task EXCEPT ![t] = r]
  BY Known DEF join_room_by_id_helper_local, Start, At, Goto
<1>2. r \in TaskState /\ r.op = "join" /\ r.target = e /\ r.cur = e /\ r.todo = {} /\ r.soft = FALSE
      /\ r.at = NoState
  BY Zenon, IdleType DEF Idle, TaskState, Event
<1>3. ControlTypeOK' /\ Undisturbed(t) /\ pc'[t] = "known" /\ task'[t] = r
  BY <1>1, <1>2, RoomEventsAssumption DEF join_room_by_id_helper_local, locks, PC,
     ControlTypeOK, Undisturbed
<1>4. UNCHANGED locks
  BY DEF join_room_by_id_helper_local, locks
<1>5. TaskInv(t)'
  BY <1>2, <1>3, <1>4 DEF TaskInv, HoldsState, LocalPc, Appending, Upgrading, Inserting, Writing
<1> QED
  BY Zenon, <1>1, <1>2, <1>3, <1>4, <1>5

\* A backfilled event is looked up under mutex_federation.
LEMMA backfill_pdu_effect ==
    ASSUME ControlInv, NEW t \in Task, NEW e \in Remote, backfill_pdu(t, e)
    PROVE  /\ ControlTypeOK' /\ Undisturbed(t) /\ TaskInv(t)'
           /\ pc[t] = "idle" /\ pc'[t] = "known" /\ mutex_federation' = t
           /\ task'[t].op = "backfill" /\ task'[t].target = e /\ task'[t].cur = e
           /\ task'[t].todo = {} /\ task'[t].at = NoState
<1> DEFINE r == [Idle EXCEPT !.op = "backfill", !.target = e, !.cur = e]
<1>1. ControlTypeOK /\ pc[t] = "idle" /\ pc' = [pc EXCEPT ![t] = "known"] /\ task' = [task EXCEPT ![t] = r]
  BY Known DEF backfill_pdu, Start, At, Goto
<1>2. r \in TaskState /\ r.op = "backfill" /\ r.target = e /\ r.cur = e /\ r.todo = {} /\ r.soft = FALSE
      /\ r.at = NoState
  BY Zenon, IdleType DEF Idle, TaskState, Event
<1>3. ControlTypeOK' /\ Undisturbed(t) /\ pc'[t] = "known" /\ task'[t] = r
  BY <1>1, <1>2, RoomEventsAssumption DEF backfill_pdu, locks, PC, ControlTypeOK, Undisturbed
<1>4. mutex_federation' = t
  BY DEF backfill_pdu, locks
<1>5. TaskInv(t)'
  BY <1>2, <1>3, <1>4 DEF TaskInv, HoldsState, LocalPc, Appending, Upgrading, Inserting, Writing
<1> QED
  BY Zenon, <1>1, <1>2, <1>3, <1>4, <1>5

\* The step mark_as_referenced of a task.
LEMMA mark_as_referenced_effect ==
    ASSUME ControlInv, NEW t \in Task, mark_as_referenced(t)
    PROVE  /\ ControlTypeOK' /\ Undisturbed(t) /\ TaskInv(t)'
           /\ pc[t] = "mark_referenced" /\ pc'[t] = "clear_leaves" /\ task'[t] = task[t]
<1>1. pc[t] = "mark_referenced" /\ Goto(t, "clear_leaves") /\ UNCHANGED <<task, locks>>
  BY DEF mark_as_referenced, At
<1>2. ControlTypeOK' /\ Undisturbed(t) /\ pc'[t] = "clear_leaves" /\ task'[t] = task[t]
  BY <1>1, Known, GoesOnSame DEF PC
<1>3. TaskInv(t)'
  BY Zenon, <1>1, <1>2, Known DEF TaskInv, HoldsState, LocalPc, Appending, Upgrading, Inserting,
     Writing, locks
<1> QED
  BY <1>1, <1>2, <1>3

\* The step set_forward_extremities_remove of a task.
LEMMA set_forward_extremities_remove_effect ==
    ASSUME ControlInv, NEW t \in Task, set_forward_extremities_remove(t)
    PROVE  /\ ControlTypeOK' /\ Undisturbed(t) /\ TaskInv(t)'
           /\ pc[t] = "clear_leaves" /\ pc'[t] = "put_leaves" /\ task'[t] = task[t]
<1>1. pc[t] = "clear_leaves" /\ Goto(t, "put_leaves") /\ UNCHANGED <<task, locks>>
  BY DEF set_forward_extremities_remove, At
<1>2. ControlTypeOK' /\ Undisturbed(t) /\ pc'[t] = "put_leaves" /\ task'[t] = task[t]
  BY <1>1, Known, GoesOnSame DEF PC
<1>3. TaskInv(t)'
  BY Zenon, <1>1, <1>2, Known DEF TaskInv, HoldsState, LocalPc, Appending, Upgrading, Inserting,
     Writing, locks
<1> QED
  BY Zenon, <1>1, <1>2, <1>3

\* The step append_pdu_put of a task.
LEMMA append_pdu_put_effect ==
    ASSUME ControlInv, NEW t \in Task, append_pdu_put(t)
    PROVE  /\ ControlTypeOK' /\ Undisturbed(t) /\ TaskInv(t)'
           /\ pc[t] = "put_pdu" /\ pc'[t] = "put_pduid" /\ task'[t] = task[t]
<1>1. pc[t] = "put_pdu" /\ Goto(t, "put_pduid") /\ UNCHANGED <<task, locks>>
  BY DEF append_pdu_put, At
<1>2. ControlTypeOK' /\ Undisturbed(t) /\ pc'[t] = "put_pduid" /\ task'[t] = task[t]
  BY <1>1, Known, GoesOnSame DEF PC
<1>3. TaskInv(t)'
  BY Zenon, <1>1, <1>2, Known DEF TaskInv, HoldsState, LocalPc, Appending, Upgrading, Inserting,
     Writing, locks
<1> QED
  BY Zenon, <1>1, <1>2, <1>3

\* The step append_pdu_insert_id of a task.
LEMMA append_pdu_insert_id_effect ==
    ASSUME ControlInv, NEW t \in Task, append_pdu_insert_id(t)
    PROVE  /\ ControlTypeOK' /\ Undisturbed(t) /\ TaskInv(t)'
           /\ pc[t] = "put_pduid" /\ pc'[t] = "remove_outlier" /\ task'[t] = task[t]
<1>1. pc[t] = "put_pduid" /\ Goto(t, "remove_outlier") /\ UNCHANGED <<task, locks>>
  BY DEF append_pdu_insert_id, At
<1>2. ControlTypeOK' /\ Undisturbed(t) /\ pc'[t] = "remove_outlier" /\ task'[t] = task[t]
  BY <1>1, Known, GoesOnSame DEF PC
<1>3. TaskInv(t)'
  BY Zenon, <1>1, <1>2, Known DEF TaskInv, HoldsState, LocalPc, Appending, Upgrading, Inserting,
     Writing, locks
<1> QED
  BY <1>1, <1>2, <1>3

\* The step set_room_state of a task.
LEMMA set_room_state_effect ==
    ASSUME ControlInv, NEW t \in Task, set_room_state(t)
    PROVE  /\ ControlTypeOK' /\ Undisturbed(t) /\ TaskInv(t)'
           /\ pc[t] = "set_room_state" /\ pc'[t] = "send_pdu" /\ task'[t] = task[t]
<1>1. pc[t] = "set_room_state" /\ Goto(t, "send_pdu") /\ UNCHANGED <<task, locks>>
  BY DEF set_room_state, At
<1>2. ControlTypeOK' /\ Undisturbed(t) /\ pc'[t] = "send_pdu" /\ task'[t] = task[t]
  BY <1>1, Known, GoesOnSame DEF PC
<1>3. TaskInv(t)'
  BY Zenon, <1>1, <1>2, Known DEF TaskInv, HoldsState, LocalPc, Appending, Upgrading, Inserting,
     Writing, locks
<1> QED
  BY Zenon, <1>1, <1>2, <1>3

\* The step send_pdu_servers of a task.
LEMMA send_pdu_servers_effect ==
    ASSUME ControlInv, NEW t \in Task, send_pdu_servers(t)
    PROVE  ControlTypeOK' /\ Undisturbed(t) /\ TaskInv(t)' /\ Ends(t)
<1>1. Finish(t) /\ UNCHANGED <<db, created>>
  BY DEF send_pdu_servers
<1>2. ControlTypeOK' /\ Undisturbed(t) /\ Ended(t) /\ pc'[t] = "idle"
  BY Zenon, <1>1, Known, FinishEffect
<1> QED
  BY Zenon, <1>1, <1>2, EndedTask DEF Ends, db

\* The step mark_event_soft_failed of a task.
LEMMA mark_event_soft_failed_effect ==
    ASSUME ControlInv, NEW t \in Task, mark_event_soft_failed(t)
    PROVE  ControlTypeOK' /\ Undisturbed(t) /\ TaskInv(t)' /\ Ends(t)
<1>1. ReturnUpgrade(t) /\ pc[t] = "mark_soft_failed"
  BY DEF mark_event_soft_failed, At
<1>2. task[t].op \in {"send", "join"}
  BY Zenon, <1>1, Known DEF TaskInv, LocalPc, Appending, Inserting, Writing, TaskState
<1>3. ControlTypeOK' /\ Undisturbed(t) /\ Ended(t)
  BY <1>1, Known, ReturnEffect
<1> QED
  BY <1>2, <1>3, EndedTask DEF Ends, mark_event_soft_failed

\* The step create_hash_and_sign_event of a task.
LEMMA create_hash_and_sign_event_effect ==
    ASSUME ControlInv, NEW t \in Task, create_hash_and_sign_event(t)
    PROVE  /\ ControlTypeOK' /\ Undisturbed(t) /\ TaskInv(t)'
           /\ \/ Ends(t)
              \/ /\ pc[t] = "create" /\ pc'[t] = "append_to_state" /\ task'[t] = task[t]
                 /\ \E P \in Take(leaves, PrevLimit) :
                       prev_events' = [prev_events EXCEPT ![task[t].cur] = P]
<1>1. CASE Finish(t) /\ UNCHANGED prev_events
  <2>1. ControlTypeOK' /\ Undisturbed(t) /\ Ended(t) /\ pc'[t] = "idle"
    BY Zenon, <1>1, Known, FinishEffect
  <2> QED
    BY Zenon, <1>1, <2>1, EndedTask DEF Ends, create_hash_and_sign_event
<1>2. CASE Goto(t, "append_to_state") /\ UNCHANGED <<task, locks>>
  <2>1. pc[t] = "create"
    BY Zenon DEF create_hash_and_sign_event, At
  <2>2. ControlTypeOK' /\ Undisturbed(t) /\ pc'[t] = "append_to_state" /\ task'[t] = task[t]
    BY Zenon, <1>2, Known, GoesOnSame DEF PC
  <2>3. TaskInv(t)'
    BY Zenon, <1>2, <2>1, <2>2, Known DEF TaskInv, HoldsState, LocalPc, Appending, Upgrading,
       Inserting, Writing, locks
  <2>4. pc'[t] # "idle"
    BY Zenon, <2>2
  <2>5. ~Finish(t)
    BY Zenon, <2>4, Known, FinishEffect
  <2> QED
    BY Zenon, <2>1, <2>2, <2>3, <2>5 DEF create_hash_and_sign_event
<1> QED
  BY Zenon, <1>1, <1>2 DEF create_hash_and_sign_event

\* The step append_to_state of a task.
LEMMA append_to_state_effect ==
    ASSUME ControlInv, NEW t \in Task, append_to_state(t)
    PROVE  /\ ControlTypeOK' /\ Undisturbed(t) /\ TaskInv(t)'
           /\ pc[t] = "append_to_state" /\ pc'[t] = "mark_referenced"
           /\ Changes(t, {"base", "ext", "new"})
           /\ task'[t].base = room_state /\ task'[t].ext = {task[t].cur}
           /\ task'[t].new = StateAfter(room_state, task[t].cur)
<1> DEFINE e == task[t].cur
           r == [task[t] EXCEPT !.base = room_state, !.ext = {e}, !.new = StateAfter(room_state, e)]
<1>1. pc[t] = "append_to_state" /\ Goto(t, "mark_referenced") /\ UNCHANGED locks
  BY DEF append_to_state, At
<1>2. e \in Local /\ room_state \in RoomState
  BY Zenon, <1>1, Known DEF TaskInv, LocalPc, TypeOK
<1>3. StateAfter(room_state, e) \in RoomState
  BY <1>2, AfterType DEF Event
<1>4. r \in TaskState /\ r.op = task[t].op /\ r.cur = e /\ r.soft = task[t].soft /\ r.new \in RoomState
  BY ZenonT(40), <1>2, <1>3, Known DEF TaskState, Event
<1>5. task' = [task EXCEPT ![t] = r]
  BY ZenonT(40), Known DEF append_to_state, TypeOK, TaskState
<1>6. ControlTypeOK' /\ Undisturbed(t) /\ pc'[t] = "mark_referenced" /\ task'[t] = r
  BY Zenon, <1>1, <1>4, <1>5, Known, GoesOn DEF PC
<1>7. TaskInv(t)'
  BY <1>1, <1>4, <1>6, Known, RoomEventsAssumption
     DEF TaskInv, HoldsState, LocalPc, Appending, Upgrading, Inserting, Writing, locks
<1>8. /\ Changes(t, {"base", "ext", "new"}) /\ task'[t].base = room_state /\ task'[t].ext = {e}
      /\ task'[t].new = StateAfter(room_state, e)
  BY Zenon, <1>6, Known DEF Changes, Field, TaskState
<1> QED
  BY <1>1, <1>6, <1>7, <1>8

\* The step set_forward_extremities_put of a task.
LEMMA set_forward_extremities_put_effect ==
    ASSUME ControlInv, NEW t \in Task, set_forward_extremities_put(t)
    PROVE  /\ ControlTypeOK' /\ Undisturbed(t) /\ TaskInv(t)'
           /\ pc[t] = "put_leaves" /\ task'[t] = task[t]
           /\ \/ pc'[t] = "put_leaves" /\ \E l \in task[t].ext : leaves' = leaves \cup {l}
              \/ pc'[t] = "mark_soft_failed" /\ leaves' = leaves /\ task[t].soft
              \/ pc'[t] = "insert_lock" /\ leaves' = leaves /\ ~task[t].soft
<1>1. pc[t] = "put_leaves" /\ UNCHANGED <<task, locks>>
  BY Zenon DEF set_forward_extremities_put, At
<1>2. CASE UNCHANGED pc /\ \E l \in task[t].ext \ leaves : leaves' = leaves \cup {l}
  <2>1. ControlTypeOK' /\ Undisturbed(t) /\ pc'[t] = "put_leaves" /\ task'[t] = task[t] /\ TaskInv(t)'
    BY Zenon, <1>1, <1>2, Known DEF ControlTypeOK, Undisturbed, locks, TaskInv, HoldsState
  <2> QED
    BY Zenon, <1>1, <1>2, <2>1
<1>3. CASE /\ Goto(t, IF task[t].soft THEN "mark_soft_failed" ELSE "insert_lock")
           /\ UNCHANGED leaves
  <2> DEFINE l == IF task[t].soft THEN "mark_soft_failed" ELSE "insert_lock"
  <2>1. l \in PC /\ (task[t].soft => l = "mark_soft_failed") /\ (~task[t].soft => l = "insert_lock")
    BY DEF PC
  <2>2. ControlTypeOK' /\ Undisturbed(t) /\ pc'[t] = l /\ task'[t] = task[t]
    BY Zenon, <1>1, <1>3, <2>1, Known, GoesOnSame
  <2>3. CASE task[t].soft
    <3>1. pc'[t] = "mark_soft_failed" /\ task[t].op \in {"send", "join"} /\ UNCHANGED locks
      BY ZenonT(20), <1>1, <2>1, <2>2, <2>3, Known DEF TaskInv
    <3>2. TaskInv(t)'
      BY ZenonT(20), <1>1, <2>2, <3>1, Known DEF TaskInv, HoldsState, LocalPc, Appending, Upgrading,
         Inserting, Writing, locks
    <3> QED
      BY Zenon, <1>1, <1>3, <2>2, <2>3, <3>1, <3>2
  <2>4. CASE ~task[t].soft
    <3>1. pc'[t] = "insert_lock" /\ UNCHANGED locks
      BY <1>1, <2>1, <2>2, <2>4
    <3>2. TaskInv(t)'
      BY Zenon, <1>1, <2>2, <3>1, Known DEF TaskInv, HoldsState, LocalPc, Appending, Upgrading,
         Inserting, Writing, locks
    <3> QED
      BY ZenonT(20), <1>1, <1>3, <2>2, <2>4, <3>1, <3>2
  <2> QED
    BY Zenon, <2>3, <2>4
<1> QED
  BY Zenon, <1>2, <1>3 DEF set_forward_extremities_put

\* The step insert_count of a task.
LEMMA insert_count_effect ==
    ASSUME ControlInv, NEW t \in Task, insert_count(t)
    PROVE  /\ ControlTypeOK' /\ Undisturbed(t) /\ TaskInv(t)'
           /\ pc[t] = "insert_lock" /\ pc'[t] = "put_pdu"
           /\ mutex_insert = NoTask /\ count \in Nat /\ count' \in Nat /\ count' > count
           /\ Changes(t, {"n"})
           /\ task'[t].n = IF task[t].op = "backfill" THEN 0 - count' ELSE count'
<1>1. /\ pc[t] = "insert_lock" /\ pc' = [pc EXCEPT ![t] = "put_pdu"]
      /\ mutex_insert = NoTask /\ mutex_insert' = t /\ UNCHANGED <<state_mutex, mutex_federation>>
  BY DEF insert_count, At, Goto
<1>2. count \in Nat
  BY Known DEF TypeOK
<1>3. PICK n \in Int : /\ task' = [task EXCEPT ![t].n = n] /\ count' \in Nat /\ count' > count
                       /\ n = IF task[t].op = "backfill" THEN 0 - count' ELSE count'
  <2>1. CASE task[t].op # "backfill" /\ count' = count + 2 /\ task' = [task EXCEPT ![t].n = count + 2]
    <3>1. count' \in Int /\ count' \in Nat /\ count' > count /\ task' = [task EXCEPT ![t].n = count']
      BY <1>2, <2>1
    <3> QED
      BY Zenon, <2>1, <3>1
  <2>2. CASE task[t].op = "backfill" /\ count' = count + 1 /\ task' = [task EXCEPT ![t].n = 0 - (count + 1)]
    <3>1. 0 - count' \in Int /\ count' \in Nat /\ count' > count /\ task' = [task EXCEPT ![t].n = 0 - count']
      BY <1>2, <2>2
    <3> QED
      BY Zenon, <2>2, <3>1
  <2> QED
    BY <2>1, <2>2 DEF insert_count
<1> DEFINE r == [task[t] EXCEPT !.n = n]
<1>4. r \in TaskState /\ r.op = task[t].op /\ r.cur = task[t].cur /\ r.soft = task[t].soft
      /\ r.new = task[t].new /\ r.target = task[t].target /\ r.todo = task[t].todo
  BY Known DEF TaskState
<1>5. task' = [task EXCEPT ![t] = r]
  BY <1>3, Known DEF TypeOK, TaskState
<1>6. ControlTypeOK' /\ Undisturbed(t) /\ pc'[t] = "put_pdu" /\ task'[t] = r
  BY ZenonT(40), <1>1, <1>4, <1>5, Known, RoomEventsAssumption DEF ControlTypeOK, Undisturbed, PC
<1>7. TaskInv(t)'
  BY <1>1, <1>4, <1>6, Known DEF TaskInv, HoldsState, LocalPc, Appending, Upgrading, Inserting,
     Writing
<1>8. Changes(t, {"n"}) /\ task'[t].n = n
  BY <1>6, Known DEF Changes, Field, TaskState
<1> QED
  BY <1>1, <1>2, <1>3, <1>6, <1>7, <1>8

\* The step append_pdu_remove_outlier of a task.
LEMMA append_pdu_remove_outlier_effect ==
    ASSUME ControlInv, NEW t \in Task, append_pdu_remove_outlier(t)
    PROVE  /\ ControlTypeOK' /\ Undisturbed(t) /\ TaskInv(t)'
           /\ pc[t] = "remove_outlier" /\ pc'[t] = "appended" /\ task'[t] = task[t]
<1>1. /\ pc[t] = "remove_outlier" /\ pc' = [pc EXCEPT ![t] = "appended"]
      /\ mutex_insert' = NoTask /\ UNCHANGED <<state_mutex, mutex_federation, task>>
  BY Zenon DEF append_pdu_remove_outlier, At, Goto
<1>2. mutex_insert = t
  BY Zenon, <1>1, Known DEF TaskInv, Inserting
<1>3. ControlTypeOK' /\ Undisturbed(t) /\ pc'[t] = "appended" /\ task'[t] = task[t]
  BY Zenon, <1>1, <1>2, Known DEF ControlTypeOK, Undisturbed, PC
<1>4. TaskInv(t)'
  BY Zenon, <1>1, <1>3, Known DEF TaskInv, HoldsState, LocalPc, Appending, Upgrading, Inserting, Writing
<1> QED
  BY <1>1, <1>3, <1>4

\* The step append_pdu_rest of a task.
LEMMA append_pdu_rest_effect ==
    ASSUME ControlInv, NEW t \in Task, append_pdu_rest(t)
    PROVE  /\ ControlTypeOK' /\ Undisturbed(t) /\ TaskInv(t)'
           /\ \/ Ends(t)
              \/ /\ pc[t] = "appended" /\ pc'[t] = "set_room_state" /\ task'[t] = task[t]
                 /\ task[t].op = "local"
<1>1. pc[t] = "appended" /\ UNCHANGED <<db, created>>
  BY ZenonT(20) DEF append_pdu_rest, At
<1>2. CASE Finish(t)
  <2>1. ControlTypeOK' /\ Undisturbed(t) /\ Ended(t) /\ pc'[t] = "idle"
    BY ZenonT(20), <1>2, Known, FinishEffect
  <2> QED
    BY Zenon, <1>1, <2>1, EndedTask DEF Ends, db
<1>3. CASE task[t].op = "local" /\ Goto(t, "set_room_state") /\ UNCHANGED <<task, locks>>
  <2>1. ControlTypeOK' /\ Undisturbed(t) /\ pc'[t] = "set_room_state" /\ task'[t] = task[t]
    BY ZenonT(20), <1>3, Known, GoesOnSame DEF PC
  <2>2. TaskInv(t)'
    BY ZenonT(20), <1>1, <1>3, <2>1, Known DEF TaskInv, HoldsState, LocalPc, Appending, Upgrading,
       Inserting, Writing, locks
  <2> QED
    BY ZenonT(20), <1>1, <1>3, <2>1, <2>2
<1>4. CASE task[t].op \notin {"local", "backfill"} /\ ReturnUpgrade(t)
  <2>1. ControlTypeOK' /\ Undisturbed(t) /\ Ended(t)
    BY Zenon, <1>4, Known, ReturnEffect
  <2>2. task[t].op \in {"send", "join"}
    BY ZenonT(20), <1>1, <1>4, Known DEF TaskInv, TaskState
  <2> QED
    BY Zenon, <1>1, <2>1, <2>2, EndedTask DEF Ends, db
<1> QED
  BY <1>2, <1>3, <1>4 DEF append_pdu_rest

\* The step handle_incoming_pdu of a task.
LEMMA handle_incoming_pdu_effect ==
    ASSUME ControlInv, NEW t \in Task, handle_incoming_pdu(t)
    PROVE  /\ ControlTypeOK' /\ Undisturbed(t) /\ TaskInv(t)'
           /\ \/ Ends(t)
              \/ /\ pc[t] = "known" /\ pc'[t] = "outlier" /\ task'[t] = task[t]
                 /\ ~InTimeline(task[t].target)
<1>1. pc[t] = "known" /\ UNCHANGED <<db, created>>
  BY DEF handle_incoming_pdu, At
<1>2. CASE Finish(t)
  <2>1. ControlTypeOK' /\ Undisturbed(t) /\ Ended(t) /\ pc'[t] = "idle"
    BY <1>2, Known, FinishEffect
  <2> QED
    BY Zenon, <1>1, <2>1, EndedTask DEF Ends, db
<1>3. CASE ~InTimeline(task[t].target) /\ Goto(t, "outlier") /\ UNCHANGED <<task, locks>>
  <2>1. ControlTypeOK' /\ Undisturbed(t) /\ pc'[t] = "outlier" /\ task'[t] = task[t]
    BY ZenonT(20), <1>3, Known, GoesOnSame DEF PC
  <2>2. TaskInv(t)'
    BY Zenon, <1>1, <1>3, <2>1, Known DEF TaskInv, HoldsState, LocalPc, Appending, Upgrading,
       Inserting, Writing, locks
  <2> QED
    BY Zenon, <1>1, <1>3, <2>1, <2>2
<1> QED
  BY Zenon, <1>2, <1>3 DEF handle_incoming_pdu

\* The step handle_outlier_pdu of a task.
LEMMA handle_outlier_pdu_effect ==
    ASSUME ControlInv, NEW t \in Task, handle_outlier_pdu(t)
    PROVE  /\ ControlTypeOK' /\ Undisturbed(t) /\ TaskInv(t)'
           /\ \/ Ends(t)
              \/ /\ pc[t] = "outlier" /\ task'[t] = task[t]
                 /\ outliers' = outliers \cup {task[t].target}
                 /\ pc'[t] = IF task[t].op = "backfill" THEN "insert_lock" ELSE "fetch_prev"
<1>1. pc[t] = "outlier"
  BY ZenonT(30) DEF handle_outlier_pdu, At
<1>2. CASE Finish(t) /\ outliers \subseteq outliers'
  <2>1. ControlTypeOK' /\ Undisturbed(t) /\ Ended(t) /\ pc'[t] = "idle"
    BY Zenon, <1>2, Known, FinishEffect
  <2> QED
    BY ZenonT(30), <1>2, <2>1, EndedTask DEF Ends, handle_outlier_pdu
<1>3. CASE /\ outliers' = outliers \cup {task[t].target} /\ UNCHANGED <<task, locks>>
           /\ Goto(t, IF task[t].op = "backfill" THEN "insert_lock" ELSE "fetch_prev")
  <2> DEFINE l == IF task[t].op = "backfill" THEN "insert_lock" ELSE "fetch_prev"
  <2>1. l \in PC
    BY ZenonT(20) DEF PC
  <2>2. ControlTypeOK' /\ Undisturbed(t) /\ pc'[t] = l /\ task'[t] = task[t]
    BY Zenon, <1>3, <2>1, Known, GoesOnSame
  <2>3. TaskInv(t)'
    BY ZenonT(40), <1>1, <1>3, <2>2, Known DEF TaskInv, HoldsState, LocalPc, Appending, Upgrading,
       Inserting, Writing, locks
  <2> QED
    BY Zenon, <1>1, <1>3, <2>2, <2>3
<1> QED
  BY ZenonT(30), <1>2, <1>3 DEF handle_outlier_pdu

\* The step fetch_prev of a task.
LEMMA fetch_prev_effect ==
    ASSUME ControlInv, NEW t \in Task, fetch_prev(t)
    PROVE  /\ ControlTypeOK' /\ Undisturbed(t) /\ TaskInv(t)'
           /\ pc[t] = "fetch_prev" /\ pc'[t] = "next_prev"
           /\ \E F \in SUBSET Remote :
                 /\ outliers' = outliers \cup F
                 /\ task'[t].todo = F \cup {task[t].target}
           /\ Changes(t, {"todo"})
<1>1. pc[t] = "fetch_prev" /\ Goto(t, "next_prev") /\ UNCHANGED locks
  BY DEF fetch_prev, At
<1>2. PICK F \in SUBSET Remote : /\ outliers' = outliers \cup F
                                 /\ task' = [task EXCEPT ![t].todo = F \cup {task[t].target}]
  BY Zenon DEF fetch_prev, PrevSets
<1> DEFINE r == [task[t] EXCEPT !.todo = F \cup {task[t].target}]
<1>3. task[t].op \in {"send", "join"} /\ task[t].target \in Remote
  BY Zenon, <1>1, Known DEF TaskInv, LocalPc, Appending, Inserting, Writing, TaskState
<1>4. /\ r \in TaskState /\ r.op = task[t].op /\ r.target = task[t].target
      /\ r.todo = F \cup {task[t].target} /\ r.soft = task[t].soft
  BY <1>3, Known DEF TaskState, Event
<1>5. task' = [task EXCEPT ![t] = r]
  BY Zenon, <1>2, Known DEF TypeOK, TaskState
<1>6. ControlTypeOK' /\ Undisturbed(t) /\ pc'[t] = "next_prev" /\ task'[t] = r
  BY Zenon, <1>1, <1>4, <1>5, Known, GoesOn DEF PC
<1>7. TaskInv(t)'
  BY <1>1, <1>3, <1>4, <1>6, Known DEF TaskInv, HoldsState, LocalPc, Appending, Upgrading,
     Inserting, Writing
<1>8. Changes(t, {"todo"}) /\ task'[t].todo = F \cup {task[t].target}
  BY <1>6, Known DEF Changes, Field, TaskState
<1> QED
  BY <1>1, <1>2, <1>6, <1>7, <1>8

\* The step handle_prev_pdu of a task.
LEMMA handle_prev_pdu_effect ==
    ASSUME ControlInv, NEW t \in Task, handle_prev_pdu(t)
    PROVE  /\ ControlTypeOK' /\ Undisturbed(t) /\ TaskInv(t)' /\ pc[t] = "next_prev"
           /\ \E p \in task[t].todo :
                 \/ /\ pc'[t] = "upgrade"
                    /\ Changes(t, {"todo", "cur"})
                    /\ task'[t].todo = task[t].todo \ {p} /\ task'[t].cur = p
                 \/ /\ pc'[t] = "next_prev"
                    /\ Changes(t, {"todo"}) /\ task'[t].todo = task[t].todo \ {p}
<1>1. pc[t] = "next_prev" /\ UNCHANGED locks
  BY DEF handle_prev_pdu, At
<1>2. PICK p \in task[t].todo :
         \/ Goto(t, "upgrade") /\ task' = [task EXCEPT ![t].todo = @ \ {p}, ![t].cur = p]
         \/ UNCHANGED pc /\ task' = [task EXCEPT ![t].todo = @ \ {p}]
  BY Zenon DEF handle_prev_pdu
<1>3. task[t].op \in {"send", "join"} /\ task[t].todo \subseteq Remote /\ task[t].target \in Remote
  BY Zenon, <1>1, Known DEF TaskInv, LocalPc, Appending, Inserting, Writing, TaskState
<1>4. CASE Goto(t, "upgrade") /\ task' = [task EXCEPT ![t].todo = @ \ {p}, ![t].cur = p]
  <2> DEFINE r == [task[t] EXCEPT !.todo = task[t].todo \ {p}, !.cur = p]
  <2>1. /\ r \in TaskState /\ r.op = task[t].op /\ r.target = task[t].target
        /\ r.todo \subseteq Remote /\ r.cur \in Remote /\ r.soft = task[t].soft
    BY ZenonT(40), <1>3, Known DEF TaskState, Event
  <2>2. task' = [task EXCEPT ![t] = r]
    BY Zenon, <1>4, Known DEF TypeOK, TaskState
  <2>3. ControlTypeOK' /\ Undisturbed(t) /\ pc'[t] = "upgrade" /\ task'[t] = r
    BY Zenon, <1>1, <1>4, <2>1, <2>2, Known, GoesOn DEF PC
  <2>4. TaskInv(t)'
    BY Zenon, <1>1, <1>3, <2>1, <2>3, Known DEF TaskInv, HoldsState, LocalPc, Appending, Upgrading,
       Inserting, Writing
  <2>5. /\ Changes(t, {"todo", "cur"}) /\ task'[t].todo = task[t].todo \ {p}
        /\ task'[t].cur = p
    BY Zenon, <2>3, Known DEF Changes, Field, TaskState
  <2> QED
    BY <1>1, <2>3, <2>4, <2>5
<1>5. CASE UNCHANGED pc /\ task' = [task EXCEPT ![t].todo = @ \ {p}]
  <2> DEFINE r == [task[t] EXCEPT !.todo = task[t].todo \ {p}]
  <2>1. /\ r \in TaskState /\ r.op = task[t].op /\ r.target = task[t].target
        /\ r.todo \subseteq Remote /\ r.soft = task[t].soft
    BY <1>3, Known DEF TaskState, Event
  <2>2. task' = [task EXCEPT ![t] = r]
    BY Zenon, <1>5, Known DEF TypeOK, TaskState
  <2>3. ControlTypeOK' /\ Undisturbed(t) /\ pc'[t] = "next_prev" /\ task'[t] = r
    BY Zenon, <1>1, <1>5, <2>1, <2>2, Known DEF ControlTypeOK, Undisturbed, locks
  <2>4. TaskInv(t)'
    BY Zenon, <1>1, <1>3, <2>1, <2>3, Known DEF TaskInv, HoldsState, LocalPc, Appending, Upgrading,
       Inserting, Writing
  <2>5. Changes(t, {"todo"}) /\ task'[t].todo = task[t].todo \ {p}
    BY SMTT(30), <2>3, Known DEF Changes, Field, TaskState
  <2> QED
    BY <1>1, <2>3, <2>4, <2>5
<1> QED
  BY Zenon, <1>2, <1>4, <1>5

\* The step upgrade_outlier_to_timeline_pdu of a task.
LEMMA upgrade_outlier_to_timeline_pdu_effect ==
    ASSUME ControlInv, NEW t \in Task, upgrade_outlier_to_timeline_pdu(t)
    PROVE  /\ ControlTypeOK' /\ Undisturbed(t) /\ TaskInv(t)'
           /\ \/ Ends(t)
              \/ /\ pc[t] = "upgrade" /\ pc'[t] = "state_at" /\ task'[t] = task[t]
                 /\ ~InTimeline(task[t].cur)
<1>1. pc[t] = "upgrade" /\ UNCHANGED <<db, created>>
  BY Zenon DEF upgrade_outlier_to_timeline_pdu, At
<1>2. task[t].op \in {"send", "join"}
  BY ZenonT(20), <1>1, Known DEF TaskInv, LocalPc, Appending, Inserting, Writing, TaskState
<1>3. CASE ReturnUpgrade(t)
  <2>1. ControlTypeOK' /\ Undisturbed(t) /\ Ended(t)
    BY Zenon, <1>3, Known, ReturnEffect
  <2> QED
    BY Zenon, <1>1, <1>2, <2>1, EndedTask DEF Ends, db
<1>4. CASE ~InTimeline(task[t].cur) /\ Goto(t, "state_at") /\ UNCHANGED <<task, locks>>
  <2>1. ControlTypeOK' /\ Undisturbed(t) /\ pc'[t] = "state_at" /\ task'[t] = task[t]
    BY ZenonT(20), <1>4, Known, GoesOnSame DEF PC
  <2>2. TaskInv(t)'
    BY Zenon, <1>1, <1>4, <2>1, Known DEF TaskInv, HoldsState, LocalPc, Appending, Upgrading,
       Inserting, Writing, locks
  <2> QED
    BY Zenon, <1>1, <1>4, <2>1, <2>2
<1> QED
  BY Zenon, <1>3, <1>4 DEF upgrade_outlier_to_timeline_pdu

\* The states at an event are room states.
LEMMA StatesAtType ==
    ASSUME NEW e PROVE KnownStatesAt(e) \subseteq RoomState /\ FetchedStatesAt(e) \subseteq RoomState
BY Zenon DEF KnownStatesAt, FetchedStatesAt, Resolutions

\* The step state_at_incoming_event of a task.
LEMMA state_at_incoming_event_effect ==
    ASSUME ControlInv, NEW t \in Task, state_at_incoming_event(t)
    PROVE  /\ ControlTypeOK' /\ Undisturbed(t) /\ TaskInv(t)'
           /\ \/ Ends(t)
              \/ /\ pc[t] = "state_at" /\ pc'[t] = "soft_fail"
                 /\ \E s \in RoomState :
                       /\ s \in KnownStatesAt(task[t].cur) \cup FetchedStatesAt(task[t].cur)
                       /\ outliers' = outliers \cup {f \in EventsOf(s) : ~PduExists(f)}
                       /\ Changes(t, {"at"}) /\ task'[t].at = s
<1>1. pc[t] = "state_at"
  BY ZenonT(20) DEF state_at_incoming_event, At
<1>2. task[t].op \in {"send", "join"}
  BY Zenon, <1>1, Known DEF TaskInv, LocalPc, Appending, Inserting, Writing, TaskState
<1>3. CASE ReturnUpgrade(t) /\ outliers \subseteq outliers'
  <2>1. ControlTypeOK' /\ Undisturbed(t) /\ Ended(t)
    BY Zenon, <1>3, Known, ReturnEffect
  <2> QED
    BY Zenon, <1>2, <1>3, <2>1, EndedTask DEF Ends, state_at_incoming_event
<1>4. ASSUME NEW s \in KnownStatesAt(task[t].cur) \cup FetchedStatesAt(task[t].cur),
             outliers' = outliers \cup {f \in EventsOf(s) : ~PduExists(f)},
             task' = [task EXCEPT ![t].at = s], Goto(t, "soft_fail"), UNCHANGED locks
      PROVE  /\ ControlTypeOK' /\ Undisturbed(t) /\ TaskInv(t)' /\ pc'[t] = "soft_fail"
             /\ s \in RoomState /\ Changes(t, {"at"}) /\ task'[t].at = s
  <2> DEFINE r == [task[t] EXCEPT !.at = s]
  <2>1. s \in RoomState
    BY StatesAtType
  <2>2. /\ r \in TaskState /\ r.op = task[t].op /\ r.target = task[t].target /\ r.todo = task[t].todo
        /\ r.cur = task[t].cur /\ r.soft = task[t].soft /\ r.at # NoState
    BY <2>1, Known, RoomEventsAssumption DEF TaskState
  <2>3. task' = [task EXCEPT ![t] = r]
    BY <1>4, Known DEF TypeOK, TaskState
  <2>4. ControlTypeOK' /\ Undisturbed(t) /\ pc'[t] = "soft_fail" /\ task'[t] = r
    BY Zenon, <1>4, <2>2, <2>3, Known, GoesOn DEF PC
  <2>5. TaskInv(t)'
    BY <1>1, <1>2, <2>2, <2>4, Known DEF TaskInv, HoldsState, LocalPc, Appending, Upgrading,
       Inserting, Writing
  <2>6. Changes(t, {"at"}) /\ task'[t].at = s
    BY <2>4, Known DEF Changes, Field, TaskState
  <2> QED
    BY <2>1, <2>4, <2>5, <2>6
<1>5. \/ ReturnUpgrade(t) /\ outliers \subseteq outliers'
      \/ \E s \in KnownStatesAt(task[t].cur) \cup FetchedStatesAt(task[t].cur) :
            /\ outliers' = outliers \cup {f \in EventsOf(s) : ~PduExists(f)}
            /\ task' = [task EXCEPT ![t].at = s] /\ Goto(t, "soft_fail") /\ UNCHANGED locks
  BY ZenonT(30) DEF state_at_incoming_event
<1> QED
  BY Zenon, <1>1, <1>3, <1>4, <1>5

\* The step soft_fail_check of a task.
LEMMA soft_fail_check_effect ==
    ASSUME ControlInv, NEW t \in Task, soft_fail_check(t)
    PROVE  /\ ControlTypeOK' /\ Undisturbed(t) /\ TaskInv(t)'
           /\ pc[t] = "soft_fail" /\ pc'[t] = "lock_state"
           /\ Changes(t, {"soft"})
<1>1. pc[t] = "soft_fail" /\ Goto(t, "lock_state") /\ UNCHANGED locks
  BY DEF soft_fail_check, At
<1>2. PICK b \in BOOLEAN : b = ~Allowed(task[t].cur, room_state)
  BY Zenon DEF Allowed
<1> DEFINE r == [task[t] EXCEPT !.soft = b]
<1>3. task[t].op \in {"send", "join"}
  BY Zenon, <1>1, Known DEF TaskInv, LocalPc, Appending, Inserting, Writing, TaskState
<1>4. /\ r \in TaskState /\ r.op = task[t].op /\ r.target = task[t].target /\ r.todo = task[t].todo
      /\ r.cur = task[t].cur /\ r.at = task[t].at
  BY ZenonT(40), Known DEF TaskState
<1>5. task' = [task EXCEPT ![t] = r]
  <2>1. task' = [task EXCEPT ![t].soft = b]
    BY Zenon, <1>2 DEF soft_fail_check
  <2> QED
    BY <2>1, Known DEF TypeOK, TaskState
<1>6. ControlTypeOK' /\ Undisturbed(t) /\ pc'[t] = "lock_state" /\ task'[t] = r
  BY Zenon, <1>1, <1>4, <1>5, Known, GoesOn DEF PC
<1>7. TaskInv(t)'
  BY <1>1, <1>3, <1>4, <1>6, Known DEF TaskInv, HoldsState, LocalPc, Appending, Upgrading,
     Inserting, Writing
<1>8. Changes(t, {"soft"})
  BY <1>6, Known DEF Changes, Field, TaskState
<1> QED
  BY Zenon, <1>1, <1>6, <1>7, <1>8

\* The step lock_state of a task.
LEMMA lock_state_effect ==
    ASSUME ControlInv, NEW t \in Task, lock_state(t)
    PROVE  /\ ControlTypeOK' /\ Undisturbed(t) /\ TaskInv(t)'
           /\ pc[t] = "lock_state" /\ pc'[t] \in {"set_event_state", "resolve"}
           /\ state_mutex = NoTask
           /\ Changes(t, {"ext"}) /\ task'[t].ext = Extremities(task[t].cur)
<1>1. /\ pc[t] = "lock_state" /\ state_mutex = NoTask /\ state_mutex' = t
      /\ UNCHANGED <<mutex_federation, mutex_insert>>
      /\ task' = [task EXCEPT ![t].ext = Extremities(task[t].cur)]
  BY DEF lock_state, At
<1>2. PICK l \in {"set_event_state", "resolve"} : pc' = [pc EXCEPT ![t] = l]
  BY Zenon DEF lock_state, Goto
<1> DEFINE r == [task[t] EXCEPT !.ext = Extremities(task[t].cur)]
<1>3. Extremities(task[t].cur) \in SUBSET Event
  BY Zenon, Known DEF Extremities, TypeOK
<1>4. /\ r \in TaskState /\ r.op = task[t].op /\ r.target = task[t].target /\ r.todo = task[t].todo
      /\ r.cur = task[t].cur /\ r.at = task[t].at /\ r.soft = task[t].soft
  BY ZenonT(40), <1>3, Known DEF TaskState
<1>5. task' = [task EXCEPT ![t] = r]
  BY Zenon, <1>1, Known DEF TypeOK, TaskState
<1>6. task[t].op \in {"send", "join"}
  BY Zenon, <1>1, Known DEF TaskInv, LocalPc, Appending, Inserting, Writing, TaskState
<1>7. ControlTypeOK' /\ Undisturbed(t) /\ pc'[t] = l /\ task'[t] = r
  BY <1>1, <1>2, <1>4, <1>5, Known, RoomEventsAssumption DEF ControlTypeOK, Undisturbed, PC
<1>8. TaskInv(t)'
  BY SMTT(20), <1>1, <1>4, <1>6, <1>7, Known DEF TaskInv, HoldsState, LocalPc, Appending, Upgrading,
     Inserting, Writing
<1>9. Changes(t, {"ext"}) /\ task'[t].ext = Extremities(task[t].cur)
  BY <1>7, Known DEF Changes, Field, TaskState
<1> QED
  BY <1>1, <1>7, <1>8, <1>9

\* The step resolve_state of a task.
LEMMA resolve_state_effect ==
    ASSUME ControlInv, NEW t \in Task, resolve_state(t)
    PROVE  /\ ControlTypeOK' /\ Undisturbed(t) /\ TaskInv(t)'
           /\ \/ Ends(t)
              \/ /\ pc[t] = "resolve" /\ pc'[t] = "force_state"
                 /\ \E s \in Resolutions({room_state, StateAfter(task[t].at, task[t].cur)}) :
                       Changes(t, {"new", "base"}) /\ task'[t].new = s /\ task'[t].base = room_state
<1>1. pc[t] = "resolve" /\ UNCHANGED <<db, created>>
  BY DEF resolve_state, At
<1>2. task[t].op \in {"send", "join"}
  BY ZenonT(20), <1>1, Known DEF TaskInv, LocalPc, Appending, Inserting, Writing, TaskState
<1>3. CASE ReturnUpgrade(t)
  <2>1. ControlTypeOK' /\ Undisturbed(t) /\ Ended(t)
    BY <1>3, Known, ReturnEffect
  <2> QED
    BY Zenon, <1>1, <1>2, <2>1, EndedTask DEF Ends, db
<1>4. ASSUME NEW s \in Resolutions({room_state, StateAfter(task[t].at, task[t].cur)}),
             task' = [task EXCEPT ![t].new = s, ![t].base = room_state],
             Goto(t, "force_state"), UNCHANGED locks
      PROVE  /\ ControlTypeOK' /\ Undisturbed(t) /\ TaskInv(t)' /\ pc'[t] = "force_state"
             /\ Changes(t, {"new", "base"}) /\ task'[t].new = s /\ task'[t].base = room_state
  <2> DEFINE r == [task[t] EXCEPT !.new = s, !.base = room_state]
  <2>1. s \in RoomState /\ room_state \in RoomState
    BY Zenon, Known DEF Resolutions, TypeOK
  <2>2. /\ r \in TaskState /\ r.op = task[t].op /\ r.target = task[t].target /\ r.todo = task[t].todo
        /\ r.cur = task[t].cur /\ r.at = task[t].at /\ r.soft = task[t].soft /\ r.new # NoState
    BY ZenonT(40), <2>1, Known, RoomEventsAssumption DEF TaskState
  <2>3. task' = [task EXCEPT ![t] = r]
    BY Zenon, <1>4, Known DEF TypeOK, TaskState
  <2>4. ControlTypeOK' /\ Undisturbed(t) /\ pc'[t] = "force_state" /\ task'[t] = r
    BY ZenonT(30), <1>4, <2>2, <2>3, Known, GoesOn DEF PC
  <2>5. TaskInv(t)'
    <3>1. state_mutex' = t /\ task[t].at # NoState /\ task[t].cur \in Remote
      BY ZenonT(20), <1>1, <1>2, <1>4, Known DEF TaskInv, HoldsState, LocalPc, Appending, Upgrading,
         Writing, locks
    <3>2. task[t].target \in Remote /\ task[t].todo \subseteq Remote
      BY Zenon, <1>2, Known DEF TaskInv
    <3> HIDE DEF r
    <3> QED
      BY Zenon, <1>2, <2>2, <2>4, <3>1, <3>2 DEF TaskInv, HoldsState, LocalPc, Appending, Upgrading,
         Inserting, Writing
  <2>6. Changes(t, {"new", "base"}) /\ task'[t].new = s /\ task'[t].base = room_state
    BY ZenonT(30), <2>4, Known DEF Changes, Field, TaskState
  <2> QED
    BY <2>4, <2>5, <2>6
<1> QED
  BY Zenon, <1>1, <1>3, <1>4 DEF resolve_state

\* The step force_state of a task.
LEMMA force_state_effect ==
    ASSUME ControlInv, NEW t \in Task, force_state(t)
    PROVE  /\ ControlTypeOK' /\ Undisturbed(t) /\ TaskInv(t)'
           /\ \/ Ends(t)
              \/ /\ pc[t] = "force_state" /\ pc'[t] = "set_event_state" /\ task'[t] = task[t]
                 /\ room_state' = task[t].new
<1>1. pc[t] = "force_state"
  BY Zenon DEF force_state, At
<1>2. task[t].op \in {"send", "join"}
  BY Zenon, <1>1, Known DEF TaskInv, LocalPc, Appending, Inserting, Writing, TaskState
<1>3. CASE ReturnUpgrade(t) /\ UNCHANGED room_state
  <2>1. ControlTypeOK' /\ Undisturbed(t) /\ Ended(t)
    BY Zenon, <1>3, Known, ReturnEffect
  <2> QED
    BY ZenonT(30), <1>2, <1>3, <2>1, EndedTask DEF Ends, force_state
<1>4. CASE room_state' = task[t].new /\ Goto(t, "set_event_state") /\ UNCHANGED <<task, locks>>
  <2>1. ControlTypeOK' /\ Undisturbed(t) /\ pc'[t] = "set_event_state" /\ task'[t] = task[t]
    BY ZenonT(20), <1>4, Known, GoesOnSame DEF PC
  <2>2. TaskInv(t)'
    BY ZenonT(20), <1>1, <1>4, <2>1, Known DEF TaskInv, HoldsState, LocalPc, Appending, Upgrading,
       Inserting, Writing, locks
  <2> QED
    BY Zenon, <1>1, <1>4, <2>1, <2>2
<1> QED
  BY Zenon, <1>3, <1>4 DEF force_state

\* The step set_event_state of a task.
LEMMA set_event_state_effect ==
    ASSUME ControlInv, NEW t \in Task, set_event_state(t)
    PROVE  /\ ControlTypeOK' /\ Undisturbed(t) /\ TaskInv(t)'
           /\ pc[t] = "set_event_state" /\ pc'[t] = "mark_referenced"
           /\ Changes(t, {"ext"})
           /\ \/ task[t].soft /\ task'[t].ext = task[t].ext
              \/ ~task[t].soft /\ task'[t].ext = task[t].ext \cup {task[t].cur}
<1>1. pc[t] = "set_event_state" /\ Goto(t, "mark_referenced") /\ UNCHANGED locks
  BY DEF set_event_state, At
<1>2. task[t].op \in {"send", "join"} /\ task[t].cur \in Remote
  BY Zenon, <1>1, Known DEF TaskInv, LocalPc, Appending, Inserting, Writing, TaskState
<1>3. PICK x : /\ x = IF task[t].soft THEN task[t].ext ELSE task[t].ext \cup {task[t].cur}
               /\ task' = [task EXCEPT ![t].ext = x]
  BY Zenon, Known DEF set_event_state, TypeOK, TaskState
<1> DEFINE r == [task[t] EXCEPT !.ext = x]
<1>4. x \in SUBSET Event
  BY <1>2, <1>3, Known DEF TaskState, Event
<1>5. /\ r \in TaskState /\ r.op = task[t].op /\ r.target = task[t].target /\ r.todo = task[t].todo
      /\ r.cur = task[t].cur /\ r.at = task[t].at /\ r.soft = task[t].soft
  BY <1>4, Known DEF TaskState
<1>6. task' = [task EXCEPT ![t] = r]
  BY Zenon, <1>3, Known DEF TypeOK, TaskState
<1>7. ControlTypeOK' /\ Undisturbed(t) /\ pc'[t] = "mark_referenced" /\ task'[t] = r
  BY ZenonT(40), <1>1, <1>5, <1>6, Known, GoesOn DEF PC
<1>8. TaskInv(t)'
  BY <1>1, <1>2, <1>5, <1>7, Known DEF TaskInv, HoldsState, LocalPc, Appending, Upgrading,
     Inserting, Writing, locks
<1>9. Changes(t, {"ext"}) /\ task'[t].ext = x
  BY <1>7, Known DEF Changes, Field, TaskState
<1>10. CASE task[t].soft
  <2>1. x = task[t].ext
    BY <1>3, <1>10
  <2> QED
    BY <1>1, <1>7, <1>8, <1>10, <1>9, <2>1
<1>11. CASE ~task[t].soft
  <2>1. x = task[t].ext \cup {task[t].cur}
    BY ZenonT(20), <1>3, <1>11
  <2> QED
    BY <1>1, <1>7, <1>8, <1>11, <1>9, <2>1
<1> QED
  BY Zenon, <1>10, <1>11

-----------------------------------------------------------------------------
(* The control invariant.                                                  *)

\* Where one task has moved, the others are where they were.
LEMMA TasksKeep ==
    ASSUME ControlInv, NEW t \in Task, Undisturbed(t), TaskInv(t)'
    PROVE  \A u \in Task : TaskInv(u)'
BY SMTT(20) DEF ControlInv, Undisturbed, TaskInv, HoldsState

\* The database stays well typed. DatabaseTypeOK is the rest of TypeOK.
DatabaseTypeOK ==
    /\ pduid_pdu \subseteq Int \X Event
    /\ eventid_pduid \in [Event -> Int]
    /\ outliers \subseteq Event
    /\ prev_events \in [Event -> SUBSET Event]
    /\ referenced \subseteq Event
    /\ softfailed \subseteq Event
    /\ event_state \in [Event -> RoomState \cup {NoState}]
    /\ room_state \in RoomState
    /\ leaves \subseteq Event
    /\ count \in Nat
    /\ sent \subseteq Local
    /\ created \subseteq Local
    /\ crashes \in 0 .. MaxCrashes

\* The types are those of the tasks and those of the tables.
LEMMA TypeSplit == TypeOK <=> ControlTypeOK /\ DatabaseTypeOK
BY ZenonT(20) DEF TypeOK, ControlTypeOK, DatabaseTypeOK

\* What a task works on is an event.
LEMMA CurIsEvent ==
    ASSUME ControlInv, NEW t \in Task, pc[t] \notin {"idle", "next_prev"}
    PROVE  task[t].cur \in Event /\ (task[t].op = "local" => task[t].cur \in Local)
BY ZenonT(20), Known DEF TaskInv, TaskState, Event

\* What a request asks for is an event.
LEMMA TargetIsEvent ==
    ASSUME ControlInv, NEW t \in Task, pc[t] \in {"known", "outlier", "fetch_prev"}
    PROVE  task[t].target \in Event
BY Zenon, Known DEF TaskInv, LocalPc, Appending, Writing, Inserting, TaskState, Event

\* A request changes no table.
LEMMA RequestDatabase ==
    ASSUME ControlInv, NEW t \in Task, Request(t)
    PROVE  DatabaseTypeOK'
BY Zenon, TypeSplit DEF ControlInv, Request, DatabaseTypeOK, db,
   send_message_event, send_transaction_message, join_room_by_id_helper_local, backfill_pdu

\* The steps of a task keep the types of the tables, one case per step.
LEMMA StepDatabase ==
    ASSUME ControlInv, NEW t \in Task, Step(t)
    PROVE  DatabaseTypeOK'
<1> DatabaseTypeOK /\ TaskInv(t) /\ task[t] \in TaskState
  BY Zenon, Known, TypeSplit
<1> USE DEF DatabaseTypeOK, db, At
<1>1. CASE create_hash_and_sign_event(t)
  <2>1. /\ UNCHANGED <<pduid_pdu, eventid_pduid, outliers, referenced, softfailed,
                       event_state, room_state, leaves, count, sent, created, crashes>>
        /\ \/ prev_events' = prev_events
           \/ \E P \in Take(leaves, PrevLimit) :
                 prev_events' = [prev_events EXCEPT ![task[t].cur] = P]
    BY Zenon, <1>1 DEF create_hash_and_sign_event
  <2>2. Take(leaves, PrevLimit) \subseteq SUBSET leaves
    BY Zenon DEF Take
  <2> QED
    BY SMTT(20), <2>1, <2>2, CurIsEvent
<1>2. CASE append_to_state(t)
  <2>1. task[t].cur \in Event
    BY Zenon, <1>2, CurIsEvent DEF append_to_state, TaskState
  <2>2. [event_state EXCEPT ![task[t].cur] = room_state] \in [Event -> RoomState \cup {NoState}]
    BY Zenon, <2>1
  <2> QED
    BY Zenon, <1>2, <2>2 DEF append_to_state
<1>3. CASE mark_as_referenced(t)
  BY Zenon, <1>3, CurIsEvent DEF mark_as_referenced
<1>4. CASE set_forward_extremities_remove(t)
  BY Zenon, <1>4 DEF set_forward_extremities_remove
<1>5. CASE set_forward_extremities_put(t)
  BY Zenon, <1>5, CurIsEvent DEF set_forward_extremities_put, TaskState
<1>6. CASE insert_count(t)
  <2>1. count + 1 \in Nat /\ count + 2 \in Nat
    OBVIOUS
  <2> QED
    BY Zenon, <1>6, <2>1 DEF insert_count
<1>7. CASE append_pdu_put(t)
  <2>1. task[t].cur \in Event /\ task[t].n \in Int
    BY Zenon, <1>7, CurIsEvent DEF append_pdu_put, TaskState
  <2>2. pduid_pdu \cup {<<task[t].n, task[t].cur>>} \subseteq Int \X Event
    BY <2>1
  <2> QED
    BY Zenon, <1>7, <2>2 DEF append_pdu_put
<1>8. CASE append_pdu_insert_id(t)
  <2>1. task[t].cur \in Event /\ task[t].n \in Int
    BY Zenon, <1>8, CurIsEvent DEF append_pdu_insert_id, TaskState
  <2>2. [eventid_pduid EXCEPT ![task[t].cur] = task[t].n] \in [Event -> Int]
    BY Zenon, <2>1
  <2> QED
    BY Zenon, <1>8, <2>2 DEF append_pdu_insert_id
<1>9. CASE append_pdu_remove_outlier(t)
  BY Zenon, <1>9, CurIsEvent DEF append_pdu_remove_outlier
<1>10. CASE append_pdu_rest(t)
  BY SMTT(30), <1>10, CurIsEvent DEF append_pdu_rest
<1>11. CASE set_room_state(t)
  <2>1. task[t].new \in RoomState
    BY Zenon, <1>11 DEF set_room_state, TaskInv, TaskState, LocalPc
  <2> QED
    BY ZenonT(20), <1>11, <2>1 DEF set_room_state
<1>12. CASE send_pdu_servers(t)
  BY Zenon, <1>12, CurIsEvent DEF send_pdu_servers, TaskInv, LocalPc
<1>13. CASE handle_incoming_pdu(t)
  BY ZenonT(20), <1>13, CurIsEvent DEF handle_incoming_pdu
<1>14. CASE handle_outlier_pdu(t)
  BY ZenonT(20), <1>14, TargetIsEvent DEF handle_outlier_pdu
<1>15. CASE fetch_prev(t)
  BY Zenon, <1>15, TargetIsEvent DEF fetch_prev, PrevSets, Event
<1>16. CASE handle_prev_pdu(t)
  BY ZenonT(20), <1>16, CurIsEvent DEF handle_prev_pdu
<1>17. CASE upgrade_outlier_to_timeline_pdu(t)
  BY Zenon, <1>17, CurIsEvent DEF upgrade_outlier_to_timeline_pdu
<1>18. CASE state_at_incoming_event(t)
  <2>1. /\ UNCHANGED <<pduid_pdu, eventid_pduid, prev_events, referenced, softfailed,
                        event_state, room_state, leaves, count, sent, created, crashes>>
        /\ \/ outliers' = outliers
           \/ \E s \in KnownStatesAt(task[t].cur) \cup FetchedStatesAt(task[t].cur) :
                 outliers' = outliers \cup {f \in EventsOf(s) : ~PduExists(f)}
    BY Zenon, <1>18 DEF state_at_incoming_event
  <2>2. ASSUME NEW s \in RoomState PROVE EventsOf(s) \subseteq Event
    BY DEF EventsOf, RoomState
  <2> QED
    BY Zenon, <2>1, <2>2, StatesAtType
<1>19. CASE soft_fail_check(t)
  BY Zenon, <1>19, CurIsEvent DEF soft_fail_check
<1>20. CASE lock_state(t)
  BY Zenon, <1>20, CurIsEvent DEF lock_state
<1>21. CASE resolve_state(t)
  BY Zenon, <1>21, CurIsEvent DEF resolve_state
<1>22. CASE force_state(t)
  <2>1. task[t].new \in RoomState
    BY Zenon, <1>22 DEF force_state, TaskInv, TaskState
  <2> QED
    BY Zenon, <1>22, <2>1 DEF force_state
<1>23. CASE set_event_state(t)
  <2>1. task[t].cur \in Event /\ task[t].at \in RoomState \cup {NoState}
    BY Zenon, <1>23, CurIsEvent DEF set_event_state, TaskState
  <2>2. [event_state EXCEPT ![task[t].cur] = task[t].at] \in [Event -> RoomState \cup {NoState}]
    BY Zenon, <2>1
  <2> QED
    BY Zenon, <1>23, <2>2 DEF set_event_state
<1>24. CASE mark_event_soft_failed(t)
  BY Zenon, <1>24, CurIsEvent DEF mark_event_soft_failed
<1> QED
  BY ZenonT(30), <1>1, <1>2, <1>3, <1>4, <1>5, <1>6, <1>7, <1>8, <1>9, <1>10, <1>11, <1>12, <1>13, <1>14,
     <1>15, <1>16, <1>17, <1>18, <1>19, <1>20, <1>21, <1>22, <1>23, <1>24 DEF Step

\* A step of a task moves that task alone.
LEMMA RequestControl ==
    ASSUME ControlInv, NEW t \in Task, Request(t)
    PROVE  ControlTypeOK' /\ Undisturbed(t) /\ TaskInv(t)'
BY Zenon, send_message_event_effect, send_transaction_message_effect,
   join_room_by_id_helper_local_effect, backfill_pdu_effect DEF Request

\* The ways through a request: a step ends it, goes on with the task unchanged, or goes on with
\* what it found out.
Moves(t, from, to) == pc[t] = from /\ pc'[t] = to /\ task'[t] = task[t]
Finds(t, from, to, F) == pc[t] = from /\ pc'[t] = to /\ Changes(t, F)

Ending == {"create", "appended", "send_pdu", "known", "outlier", "upgrade", "state_at", "resolve",
           "force_state", "mark_soft_failed"}

Flow(t) ==
    \/ Ends(t) /\ pc[t] \in Ending
    \/ Moves(t, "create", "append_to_state") /\ create_hash_and_sign_event(t)
    \/ Finds(t, "append_to_state", "mark_referenced", {"base", "ext", "new"})
         /\ append_to_state(t) /\ task'[t].ext = {task[t].cur}
         /\ task'[t].base = room_state /\ task'[t].new = StateAfter(room_state, task[t].cur)
    \/ Moves(t, "mark_referenced", "clear_leaves") /\ mark_as_referenced(t)
    \/ Moves(t, "clear_leaves", "put_leaves") /\ set_forward_extremities_remove(t)
    \/ Moves(t, "put_leaves", "put_leaves") /\ set_forward_extremities_put(t)
    \/ Moves(t, "put_leaves", "mark_soft_failed") /\ set_forward_extremities_put(t) /\ task[t].soft
    \/ Moves(t, "put_leaves", "insert_lock") /\ set_forward_extremities_put(t) /\ ~task[t].soft
    \/ Finds(t, "insert_lock", "put_pdu", {"n"}) /\ insert_count(t)
    \/ Moves(t, "put_pdu", "put_pduid") /\ append_pdu_put(t)
    \/ Moves(t, "put_pduid", "remove_outlier") /\ append_pdu_insert_id(t)
    \/ Moves(t, "remove_outlier", "appended") /\ append_pdu_remove_outlier(t)
    \/ Moves(t, "appended", "set_room_state") /\ append_pdu_rest(t) /\ task[t].op = "local"
    \/ Moves(t, "set_room_state", "send_pdu") /\ set_room_state(t)
    \/ Moves(t, "known", "outlier") /\ handle_incoming_pdu(t) /\ ~InTimeline(task[t].target)
    \/ Moves(t, "outlier", "insert_lock") /\ handle_outlier_pdu(t) /\ task[t].op = "backfill"
    \/ Moves(t, "outlier", "fetch_prev") /\ handle_outlier_pdu(t) /\ task[t].op # "backfill"
    \/ Finds(t, "fetch_prev", "next_prev", {"todo"}) /\ fetch_prev(t)
    \/ Finds(t, "next_prev", "upgrade", {"todo", "cur"}) /\ handle_prev_pdu(t)
         /\ task'[t].todo \subseteq task[t].todo /\ task'[t].cur \in task[t].todo
    \/ Finds(t, "next_prev", "next_prev", {"todo"}) /\ handle_prev_pdu(t)
         /\ task'[t].todo \subseteq task[t].todo
    \/ Moves(t, "upgrade", "state_at") /\ upgrade_outlier_to_timeline_pdu(t) /\ ~InTimeline(task[t].cur)
    \/ Finds(t, "state_at", "soft_fail", {"at"}) /\ state_at_incoming_event(t)
    \/ Finds(t, "soft_fail", "lock_state", {"soft"}) /\ soft_fail_check(t)
    \/ Finds(t, "lock_state", "resolve", {"ext"}) /\ lock_state(t)
    \/ Finds(t, "lock_state", "set_event_state", {"ext"}) /\ lock_state(t)
    \/ Finds(t, "resolve", "force_state", {"new", "base"}) /\ resolve_state(t) /\ task'[t].base = room_state
    \/ Moves(t, "force_state", "set_event_state") /\ force_state(t)
    \/ Finds(t, "set_event_state", "mark_referenced", {"ext"}) /\ set_event_state(t)

\* The steps of a task keep its TaskInv and the types, leave the other tasks alone, and follow Flow.
LEMMA StepEffect ==
    ASSUME ControlInv, NEW t \in Task, Step(t)
    PROVE  ControlTypeOK' /\ Undisturbed(t) /\ TaskInv(t)' /\ Flow(t)
<1>1. CASE create_hash_and_sign_event(t)
  <2>1. pc[t] = "create"
    BY ZenonT(30), <1>1 DEF create_hash_and_sign_event, At
  <2> QED
    BY ZenonT(30), <1>1, <2>1, create_hash_and_sign_event_effect DEF Flow, Ending, Moves, Finds
<1>2. CASE append_to_state(t)
  BY ZenonT(30), <1>2, append_to_state_effect DEF Flow, Moves, Finds
<1>3. CASE mark_as_referenced(t)
  BY ZenonT(30), <1>3, mark_as_referenced_effect DEF Flow, Moves, Finds
<1>4. CASE set_forward_extremities_remove(t)
  BY ZenonT(30), <1>4, set_forward_extremities_remove_effect DEF Flow, Moves, Finds
<1>5. CASE set_forward_extremities_put(t)
  BY ZenonT(30), <1>5, set_forward_extremities_put_effect DEF Flow, Moves, Finds
<1>6. CASE insert_count(t)
  BY ZenonT(30), <1>6, insert_count_effect DEF Flow, Moves, Finds
<1>7. CASE append_pdu_put(t)
  BY ZenonT(30), <1>7, append_pdu_put_effect DEF Flow, Moves, Finds
<1>8. CASE append_pdu_insert_id(t)
  BY ZenonT(30), <1>8, append_pdu_insert_id_effect DEF Flow, Moves, Finds
<1>9. CASE append_pdu_remove_outlier(t)
  BY ZenonT(30), <1>9, append_pdu_remove_outlier_effect DEF Flow, Moves, Finds
<1>10. CASE append_pdu_rest(t)
  <2>1. pc[t] = "appended"
    BY Zenon, <1>10 DEF append_pdu_rest, At
  <2> QED
    BY Zenon, <1>10, <2>1, append_pdu_rest_effect DEF Flow, Ending, Moves, Finds
<1>11. CASE set_room_state(t)
  BY ZenonT(30), <1>11, set_room_state_effect DEF Flow, Moves, Finds
<1>12. CASE send_pdu_servers(t)
  <2>1. pc[t] = "send_pdu"
    BY Zenon, <1>12 DEF send_pdu_servers, At
  <2> QED
    BY ZenonT(30), <1>12, <2>1, send_pdu_servers_effect DEF Flow, Ending, Moves, Finds
<1>13. CASE handle_incoming_pdu(t)
  <2>1. pc[t] = "known"
    BY Zenon, <1>13 DEF handle_incoming_pdu, At
  <2> QED
    BY Zenon, <1>13, <2>1, handle_incoming_pdu_effect DEF Flow, Ending, Moves, Finds
<1>14. CASE handle_outlier_pdu(t)
  <2>1. pc[t] = "outlier"
    BY Zenon, <1>14 DEF handle_outlier_pdu, At
  <2> QED
    BY ZenonT(30), <1>14, <2>1, handle_outlier_pdu_effect DEF Flow, Ending, Moves, Finds
<1>15. CASE fetch_prev(t)
  BY ZenonT(30), <1>15, fetch_prev_effect DEF Flow, Moves, Finds
<1>16. CASE handle_prev_pdu(t)
  BY ZenonT(30), <1>16, handle_prev_pdu_effect DEF Flow, Moves, Finds
<1>17. CASE upgrade_outlier_to_timeline_pdu(t)
  <2>1. pc[t] = "upgrade"
    BY Zenon, <1>17 DEF upgrade_outlier_to_timeline_pdu, At
  <2> QED
    BY Zenon, <1>17, <2>1, upgrade_outlier_to_timeline_pdu_effect DEF Flow, Ending, Moves, Finds
<1>18. CASE state_at_incoming_event(t)
  <2>1. pc[t] = "state_at"
    BY Zenon, <1>18 DEF state_at_incoming_event, At
  <2> QED
    BY Zenon, <1>18, <2>1, state_at_incoming_event_effect DEF Flow, Ending, Moves, Finds
<1>19. CASE soft_fail_check(t)
  BY ZenonT(30), <1>19, soft_fail_check_effect DEF Flow, Moves, Finds
<1>20. CASE lock_state(t)
  BY ZenonT(30), <1>20, lock_state_effect DEF Flow, Moves, Finds
<1>21. CASE resolve_state(t)
  <2>1. pc[t] = "resolve"
    BY Zenon, <1>21 DEF resolve_state, At
  <2> QED
    BY Zenon, <1>21, <2>1, resolve_state_effect DEF Flow, Ending, Moves, Finds
<1>22. CASE force_state(t)
  <2>1. pc[t] = "force_state"
    BY ZenonT(30), <1>22 DEF force_state, At
  <2> QED
    BY ZenonT(30), <1>22, <2>1, force_state_effect DEF Flow, Ending, Moves, Finds
<1>23. CASE set_event_state(t)
  BY ZenonT(30), <1>23, set_event_state_effect DEF Flow, Moves, Finds
<1>24. CASE mark_event_soft_failed(t)
  <2>1. pc[t] = "mark_soft_failed"
    BY Zenon, <1>24 DEF mark_event_soft_failed, At
  <2> QED
    BY Zenon, <1>24, <2>1, mark_event_soft_failed_effect DEF Flow, Ending, Moves, Finds
<1> QED
  BY ZenonT(20), <1>1, <1>2, <1>3, <1>4, <1>5, <1>6, <1>7, <1>8, <1>9, <1>10, <1>11, <1>12, <1>13, <1>14,
     <1>15, <1>16, <1>17, <1>18, <1>19, <1>20, <1>21, <1>22, <1>23, <1>24 DEF Step

\* Which step writes what.
LEMMA Writers ==
    ASSUME NEW t \in Task, Step(t)
    PROVE  /\ pduid_pdu' = pduid_pdu \/ append_pdu_put(t)
           /\ eventid_pduid' = eventid_pduid \/ append_pdu_insert_id(t)
           /\ outliers \subseteq outliers' \/ append_pdu_remove_outlier(t)
           /\ prev_events' = prev_events \/ create_hash_and_sign_event(t)
           /\ event_state' = event_state \/ append_to_state(t) \/ set_event_state(t)
           /\ room_state' = room_state \/ set_room_state(t) \/ force_state(t)
           /\ leaves' = leaves \/ set_forward_extremities_remove(t) \/ set_forward_extremities_put(t)
           /\ count' = count \/ insert_count(t)
           /\ created' = created
<1>1. pduid_pdu' = pduid_pdu \/ append_pdu_put(t)
  BY ZenonT(30) DEF Step, db,
     create_hash_and_sign_event, append_to_state, mark_as_referenced,
     set_forward_extremities_remove, set_forward_extremities_put, insert_count,
     append_pdu_insert_id, append_pdu_remove_outlier, append_pdu_rest, set_room_state,
     send_pdu_servers, handle_incoming_pdu, handle_outlier_pdu, fetch_prev, handle_prev_pdu,
     upgrade_outlier_to_timeline_pdu, state_at_incoming_event, soft_fail_check, lock_state,
     resolve_state, force_state, set_event_state, mark_event_soft_failed
<1>2. eventid_pduid' = eventid_pduid \/ append_pdu_insert_id(t)
  BY ZenonT(30) DEF Step, db,
     create_hash_and_sign_event, append_to_state, mark_as_referenced,
     set_forward_extremities_remove, set_forward_extremities_put, insert_count, append_pdu_put,
     append_pdu_remove_outlier, append_pdu_rest, set_room_state, send_pdu_servers,
     handle_incoming_pdu, handle_outlier_pdu, fetch_prev, handle_prev_pdu,
     upgrade_outlier_to_timeline_pdu, state_at_incoming_event, soft_fail_check, lock_state,
     resolve_state, force_state, set_event_state, mark_event_soft_failed
<1>3. outliers \subseteq outliers' \/ append_pdu_remove_outlier(t)
  BY ZenonT(30) DEF Step, db,
     create_hash_and_sign_event, append_to_state, mark_as_referenced,
     set_forward_extremities_remove, set_forward_extremities_put, insert_count, append_pdu_put,
     append_pdu_insert_id, append_pdu_rest, set_room_state, send_pdu_servers,
     handle_incoming_pdu, handle_outlier_pdu, fetch_prev, handle_prev_pdu,
     upgrade_outlier_to_timeline_pdu, state_at_incoming_event, soft_fail_check, lock_state,
     resolve_state, force_state, set_event_state, mark_event_soft_failed
<1>4. prev_events' = prev_events \/ create_hash_and_sign_event(t)
  BY ZenonT(30) DEF Step, db,
     append_to_state, mark_as_referenced, set_forward_extremities_remove,
     set_forward_extremities_put, insert_count, append_pdu_put, append_pdu_insert_id,
     append_pdu_remove_outlier, append_pdu_rest, set_room_state, send_pdu_servers,
     handle_incoming_pdu, handle_outlier_pdu, fetch_prev, handle_prev_pdu,
     upgrade_outlier_to_timeline_pdu, state_at_incoming_event, soft_fail_check, lock_state,
     resolve_state, force_state, set_event_state, mark_event_soft_failed
<1>5. event_state' = event_state \/ append_to_state(t) \/ set_event_state(t)
  BY ZenonT(30) DEF Step, db,
     create_hash_and_sign_event, mark_as_referenced, set_forward_extremities_remove,
     set_forward_extremities_put, insert_count, append_pdu_put, append_pdu_insert_id,
     append_pdu_remove_outlier, append_pdu_rest, set_room_state, send_pdu_servers,
     handle_incoming_pdu, handle_outlier_pdu, fetch_prev, handle_prev_pdu,
     upgrade_outlier_to_timeline_pdu, state_at_incoming_event, soft_fail_check, lock_state,
     resolve_state, force_state, mark_event_soft_failed
<1>6. room_state' = room_state \/ set_room_state(t) \/ force_state(t)
  BY ZenonT(30) DEF Step, db,
     create_hash_and_sign_event, append_to_state, mark_as_referenced,
     set_forward_extremities_remove, set_forward_extremities_put, insert_count, append_pdu_put,
     append_pdu_insert_id, append_pdu_remove_outlier, append_pdu_rest, send_pdu_servers,
     handle_incoming_pdu, handle_outlier_pdu, fetch_prev, handle_prev_pdu,
     upgrade_outlier_to_timeline_pdu, state_at_incoming_event, soft_fail_check, lock_state,
     resolve_state, set_event_state, mark_event_soft_failed
<1>7. leaves' = leaves \/ set_forward_extremities_remove(t) \/ set_forward_extremities_put(t)
  BY ZenonT(30) DEF Step, db,
     create_hash_and_sign_event, append_to_state, mark_as_referenced, insert_count,
     append_pdu_put, append_pdu_insert_id, append_pdu_remove_outlier, append_pdu_rest,
     set_room_state, send_pdu_servers, handle_incoming_pdu, handle_outlier_pdu, fetch_prev,
     handle_prev_pdu, upgrade_outlier_to_timeline_pdu, state_at_incoming_event,
     soft_fail_check, lock_state, resolve_state, force_state, set_event_state,
     mark_event_soft_failed
<1>8. count' = count \/ insert_count(t)
  BY ZenonT(30) DEF Step, db,
     create_hash_and_sign_event, append_to_state, mark_as_referenced,
     set_forward_extremities_remove, set_forward_extremities_put, append_pdu_put,
     append_pdu_insert_id, append_pdu_remove_outlier, append_pdu_rest, set_room_state,
     send_pdu_servers, handle_incoming_pdu, handle_outlier_pdu, fetch_prev, handle_prev_pdu,
     upgrade_outlier_to_timeline_pdu, state_at_incoming_event, soft_fail_check, lock_state,
     resolve_state, force_state, set_event_state, mark_event_soft_failed
<1>9. created' = created
  BY ZenonT(30) DEF Step, db,
     create_hash_and_sign_event, append_to_state, mark_as_referenced,
     set_forward_extremities_remove, set_forward_extremities_put, insert_count, append_pdu_put,
     append_pdu_insert_id, append_pdu_remove_outlier, append_pdu_rest, set_room_state,
     send_pdu_servers, handle_incoming_pdu, handle_outlier_pdu, fetch_prev, handle_prev_pdu,
     upgrade_outlier_to_timeline_pdu, state_at_incoming_event, soft_fail_check, lock_state,
     resolve_state, force_state, set_event_state, mark_event_soft_failed
<1> QED
  BY Zenon, <1>1, <1>2, <1>3, <1>4, <1>5, <1>6, <1>7, <1>8, <1>9

\* What all requests have in common at their start.
LEMMA RequestEffect ==
    ASSUME ControlInv, NEW t \in Task, Request(t)
    PROVE  /\ ControlTypeOK' /\ Undisturbed(t) /\ TaskInv(t)' /\ UNCHANGED db
           /\ pc[t] = "idle" /\ pc'[t] \in {"create", "known"}
           /\ task'[t].todo = {} /\ task'[t].at = NoState
           /\ task'[t].op \in {"local", "send", "join", "backfill"}
           /\ task'[t].cur \in Local \cup Remote
           /\ created \subseteq created' /\ created' \subseteq created \cup {task'[t].cur}
<1>1. ASSUME NEW e \in Local, send_message_event(t, e)
      PROVE  UNCHANGED db /\ created' = created \cup {e} /\ task'[t].cur = e
  BY Zenon, <1>1, send_message_event_effect DEF send_message_event
<1>2. ASSUME NEW e \in Remote,
             \/ send_transaction_message(t, e) \/ join_room_by_id_helper_local(t, e) \/ backfill_pdu(t, e)
      PROVE  UNCHANGED <<db, created>>
  BY Zenon, <1>2 DEF send_transaction_message, join_room_by_id_helper_local, backfill_pdu
<1>3. ASSUME NEW e \in Local, send_message_event(t, e)
      PROVE  /\ pc[t] = "idle" /\ pc'[t] = "create" /\ task'[t].todo = {} /\ task'[t].at = NoState
             /\ task'[t].op = "local"
  BY Zenon, <1>3, send_message_event_effect
<1>4. ASSUME NEW e \in Remote, send_transaction_message(t, e)
      PROVE  /\ pc[t] = "idle" /\ pc'[t] = "known" /\ task'[t].todo = {} /\ task'[t].at = NoState
             /\ task'[t].op = "send" /\ task'[t].cur = e
  BY Zenon, <1>4, send_transaction_message_effect
<1>5. ASSUME NEW e \in Remote, join_room_by_id_helper_local(t, e)
      PROVE  /\ pc[t] = "idle" /\ pc'[t] = "known" /\ task'[t].todo = {} /\ task'[t].at = NoState
             /\ task'[t].op = "join" /\ task'[t].cur = e
  BY Zenon, <1>5, join_room_by_id_helper_local_effect
<1>6. ASSUME NEW e \in Remote, backfill_pdu(t, e)
      PROVE  /\ pc[t] = "idle" /\ pc'[t] = "known" /\ task'[t].todo = {} /\ task'[t].at = NoState
             /\ task'[t].op = "backfill" /\ task'[t].cur = e
  BY Zenon, <1>6, backfill_pdu_effect
<1>7. CASE \E e \in Local : send_message_event(t, e)
  BY ZenonT(30), <1>1, <1>3, <1>7, RequestControl
<1>8. CASE \E e \in Remote : \/ send_transaction_message(t, e) \/ join_room_by_id_helper_local(t, e)
                             \/ backfill_pdu(t, e)
  BY ZenonT(20), <1>2, <1>4, <1>5, <1>6, <1>8, RequestControl
<1> QED
  BY ZenonT(30), <1>7, <1>8 DEF Request

\* ControlInv holds at first.
LEMMA InitControl == Init => ControlInv
<1> SUFFICES ASSUME Init PROVE ControlInv
  OBVIOUS
<1>1. EmptyState \in RoomState
  BY ZenonT(20) DEF EmptyState, RoomState
<1>2. DatabaseTypeOK
  BY SMTT(30), <1>1, RoomEventsAssumption DEF Init, DatabaseTypeOK, Event
<1>3. ControlTypeOK
  BY ZenonT(20), IdleType DEF Init, ControlTypeOK, PC
<1>4. ASSUME NEW t \in Task PROVE TaskInv(t)
  <2>1. pc[t] = "idle" /\ task[t].op = "none" /\ task[t].soft = FALSE
    BY Zenon DEF Init, Idle
  <2> QED
    BY ZenonT(20), <2>1 DEF TaskInv, HoldsState, LocalPc, Appending, Upgrading, Inserting, Writing
<1> QED
  BY <1>2, <1>3, <1>4, TypeSplit DEF ControlInv

\* After a restart every task is idle and the tables are what they were.
LEMMA RestartControl ==
    ASSUME ControlInv, Restart
    PROVE  /\ ControlInv' /\ UNCHANGED <<db, sent, created>>
           /\ \A t \in Task : pc'[t] = "idle" /\ task'[t] = Idle
<1>1. /\ UNCHANGED <<db, sent, created>> /\ crashes < MaxCrashes /\ crashes' = crashes + 1
      /\ \A t \in Task : pc'[t] = "idle" /\ task'[t] = Idle
  BY Zenon DEF Restart
<1>2. DatabaseTypeOK'
  BY <1>1, TypeSplit, RoomEventsAssumption DEF ControlInv, DatabaseTypeOK, db
<1>3. ControlTypeOK'
  BY ZenonT(20), IdleType DEF Restart, ControlTypeOK, PC
<1>4. ASSUME NEW t \in Task PROVE TaskInv(t)'
  <2>1. pc'[t] = "idle" /\ task'[t].op = "none" /\ task'[t].soft = FALSE
    BY <1>1 DEF Idle
  <2> QED
    BY ZenonT(20), <2>1 DEF TaskInv, HoldsState, LocalPc, Appending, Upgrading, Inserting, Writing
<1>5. TypeOK'
  BY Zenon, <1>2, <1>3 DEF TypeOK, ControlTypeOK, DatabaseTypeOK
<1> QED
  BY Zenon, <1>1, <1>4, <1>5 DEF ControlInv

\* Every step keeps ControlInv.
LEMMA NextControl == ControlInv /\ [Next]_vars => ControlInv'
<1> SUFFICES ASSUME ControlInv, [Next]_vars PROVE ControlInv'
  OBVIOUS
<1>1. CASE Restart
  BY ZenonT(20), <1>1, RestartControl
<1>2. ASSUME NEW t \in Task, Request(t) PROVE ControlInv'
  <2>1. ControlTypeOK' /\ DatabaseTypeOK' /\ \A u \in Task : TaskInv(u)'
    BY ZenonT(20), <1>2, RequestControl, RequestDatabase, TasksKeep
  <2> QED
    BY Zenon, <2>1 DEF ControlInv, TypeOK, ControlTypeOK, DatabaseTypeOK
<1>3. ASSUME NEW t \in Task, Step(t) PROVE ControlInv'
  <2>1. ControlTypeOK' /\ DatabaseTypeOK' /\ \A u \in Task : TaskInv(u)'
    BY Zenon, <1>3, StepEffect, StepDatabase, TasksKeep
  <2> QED
    BY SMTT(20), <2>1 DEF ControlInv, TypeOK, ControlTypeOK, DatabaseTypeOK
<1>4. CASE UNCHANGED vars
  BY ZenonT(40), <1>4 DEF vars, db, locks, ControlInv, TypeOK, TaskInv, HoldsState
<1> QED
  BY Zenon, <1>1, <1>2, <1>3, <1>4 DEF Next

\* The write path of a room is well typed, and its mutexes are held where they have to be:
\* whatever is done to the state and the leaves of the room is done under the state mutex,
\* the three writes of an insert are under the insert mutex, for every number of requests,
\* events and crashes (build_and_append_pdu, handle_incoming_pdu, append_pdu).
THEOREM RoomControl == Spec => []ControlInv
<1>1. ControlInv /\ [Next]_vars => ControlInv'
  BY NextControl
<1> QED
  BY <1>1, InitControl, PTL DEF Spec
=============================================================================
