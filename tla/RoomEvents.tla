----------------------------- MODULE RoomEvents -----------------------------
(***************************************************************************)
(* The write path of one room: how an event becomes part of the timeline   *)
(* and of the room state.                                                  *)
(*                                                                         *)
(*   service/rooms/timeline       build_and_append_pdu, append_pdu,        *)
(*                                append_incoming_pdu, backfill_pdu        *)
(*   service/rooms/event_handler  handle_incoming_pdu and the steps it     *)
(*                                takes up to upgrade_outlier_to_timeline  *)
(*   service/rooms/state          append_to_state, set_event_state,        *)
(*                                force_state, set_forward_extremities     *)
(*                                                                         *)
(* A task is one request in progress.  The room's three mutexes are the    *)
(* state mutex, mutex_federation and mutex_insert.  A step is what a task  *)
(* does between two points where another task, or a crash, can be seen.    *)
(* Every database write that another one must not be separated from is a   *)
(* step of its own, so a crash cuts the writes at any place.               *)
(*                                                                         *)
(* An event is a model value with the state key it sets (KeyOf), its       *)
(* prev_events (Prev for remote events, the leaves at creation for local   *)
(* ones) and the state events in whose presence it is not authorised       *)
(* (Forbids).  A room state maps each key to an event.                     *)
(***************************************************************************)
EXTENDS Integers, FiniteSets

CONSTANTS
    Task,        \* requests that run at the same time
    Local,       \* events users of this server create
    Remote,      \* events of other servers
    Root,        \* the event the room starts with (its create event)
    Key,         \* state keys other than the create event's
    NoKey,       \* state_key of a message event
    NoEvent, NoTask, NoState,
    KeyOf,       \* [Event -> Key \cup {NoKey}]
    Prev,        \* [Remote -> SUBSET Event], prev_events of a remote event
    Forbids,     \* set of <<s, e>>: e is not authorised in a state with s
    PrevLimit,   \* how many leaves a local event refers to (20 in the code)
    Unlocked,    \* remote events handled by a caller without mutex_federation
    Backfill,    \* remote events offered in a backfill response
    MaxCrashes   \* bound on crashes

Event == Local \cup Remote \cup {Root}

\* An auth check is always made against one room state.
RoomState == [Key -> Event \cup {NoEvent}]

ASSUME RoomEventsAssumption ==
    /\ KeyOf \in [Event -> Key \cup {NoKey}]
    /\ Prev \in [Remote -> SUBSET Event]
    /\ Forbids \subseteq Event \X Event
    /\ PrevLimit \in Nat \ {0}
    /\ Unlocked \subseteq Remote
    /\ Backfill \subseteq Remote
    /\ MaxCrashes \in Nat
    /\ Local \cap Remote = {} /\ Root \notin Local \cup Remote
    /\ NoEvent \notin Event /\ NoKey \notin Key /\ NoTask \notin Task
    /\ NoState \notin RoomState

VARIABLES
    \* the database
    pduid_pdu,       \* set of <<count, event>>: the timeline, backfill below 0
    eventid_pduid,   \* [Event -> Int], 0 if the event has no row
    outliers,        \* eventid_outlierpdu
    prev_events,     \* [Event -> SUBSET Event]
    referenced,      \* referencedevents
    softfailed,      \* softfailedeventids
    event_state,     \* shorteventid_shortstatehash
    room_state,      \* roomid_shortstatehash
    leaves,          \* roomid_pduleaves
    count,           \* globals.next_count
    \* the process
    sent,            \* local events handed to the sender
    created,         \* local events a request was made for
    state_mutex, mutex_federation, mutex_insert,
    pc, task,
    crashes

db == <<pduid_pdu, eventid_pduid, outliers, prev_events, referenced,
        softfailed, event_state, room_state, leaves, count>>
locks == <<state_mutex, mutex_federation, mutex_insert>>
vars == <<db, sent, created, locks, pc, task, crashes>>

\* What a task remembers: the operation, the event it was called with, the
\* event being upgraded, the prev events still to be upgraded, the state at
\* that event, the state to set and the one it was derived from, the leaves
\* to set, whether the event soft fails, and its count.
TaskState ==
    [op : {"none", "local", "send", "join", "backfill"},
     target : Event \cup {NoEvent}, cur : Event \cup {NoEvent},
     todo : SUBSET Event,
     at : RoomState \cup {NoState}, new : RoomState \cup {NoState},
     base : RoomState \cup {NoState},
     ext : SUBSET Event, soft : BOOLEAN, n : Int]

Idle ==
    [op |-> "none", target |-> NoEvent, cur |-> NoEvent, todo |-> {},
     at |-> NoState, new |-> NoState, base |-> NoState,
     ext |-> {}, soft |-> FALSE, n |-> 0]

PC == {"idle", "create", "append_to_state", "mark_referenced", "clear_leaves",
       "put_leaves", "insert_lock", "put_pdu", "put_pduid", "remove_outlier",
       "appended", "set_room_state", "send_pdu", "known", "outlier",
       "fetch_prev", "next_prev", "upgrade", "state_at", "soft_fail",
       "lock_state", "resolve", "force_state", "set_event_state",
       "mark_soft_failed"}

TypeOK ==
    /\ pduid_pdu \subseteq Int \X Event
    /\ eventid_pduid \in [Event -> Int]
    /\ outliers \subseteq Event
    /\ prev_events \in [Event -> SUBSET Event]
    /\ referenced \subseteq Event
    /\ softfailed \subseteq Event
    /\ event_state \in [Event -> RoomState \cup {NoState}]
    /\ room_state \in RoomState
    /\ leaves \subseteq Event
    /\ count \in Nat
    /\ sent \subseteq Local
    /\ created \subseteq Local
    /\ state_mutex \in Task \cup {NoTask}
    /\ mutex_federation \in Task \cup {NoTask}
    /\ mutex_insert \in Task \cup {NoTask}
    /\ pc \in [Task -> PC]
    /\ task \in [Task -> TaskState]
    /\ crashes \in 0..MaxCrashes

EmptyState == [k \in Key |-> NoEvent]

Init ==
    /\ pduid_pdu = {<<1, Root>>}
    /\ eventid_pduid = [e \in Event |-> IF e = Root THEN 1 ELSE 0]
    /\ outliers = {}
    /\ prev_events = [e \in Event |-> IF e \in Remote THEN Prev[e] ELSE {}]
    /\ referenced = {}
    /\ softfailed = {}
    /\ event_state = [e \in Event |-> IF e = Root THEN EmptyState ELSE NoState]
    /\ room_state = EmptyState
    /\ leaves = {Root}
    /\ count = 1
    /\ sent = {}
    /\ created = {}
    /\ state_mutex = NoTask
    /\ mutex_federation = NoTask
    /\ mutex_insert = NoTask
    /\ pc = [t \in Task |-> "idle"]
    /\ task = [t \in Task |-> Idle]
    /\ crashes = 0

-----------------------------------------------------------------------------
(* Pure parts *)

\* state_res::auth_check: what the events of a state say about e.
Allowed(e, s) == \A k \in Key : <<s[k], e>> \notin Forbids

\* The state after e, when s is the state before it.
StateAfter(s, e) == IF KeyOf[e] = NoKey THEN s ELSE [s EXCEPT ![KeyOf[e]] = e]

\* state_res::resolve as its callers see it: what the states agree on is
\* kept, a conflicting key gets one of the candidates.
Resolutions(S) == {r \in RoomState : \A k \in Key : r[k] \in {s[k] : s \in S}}

InTimeline(e) == eventid_pduid[e] # 0

\* get_pdu: the timeline row, or the outlier.
PduExists(e) ==
    \/ InTimeline(e) /\ <<eventid_pduid[e], e>> \in pduid_pdu
    \/ e \in outliers

\* The leaves that neither the event nor an earlier one refers to.
Extremities(e) == {l \in leaves : l \notin prev_events[e] /\ l \notin referenced}

\* take(n): all of a set, or n of it.
Take(S, n) == IF Cardinality(S) <= n THEN {S} ELSE {P \in SUBSET S : Cardinality(P) = n}

Free(t, m) == IF m = t THEN NoTask ELSE m

-----------------------------------------------------------------------------
(* Control of a task *)

At(t, l) == pc[t] = l

Goto(t, l) == pc' = [pc EXCEPT ![t] = l]

\* The request is answered: every guard it holds is dropped.
Finish(t) ==
    /\ Goto(t, "idle")
    /\ task' = [task EXCEPT ![t] = Idle]
    /\ state_mutex' = Free(t, state_mutex)
    /\ mutex_federation' = Free(t, mutex_federation)
    /\ mutex_insert' = Free(t, mutex_insert)

\* upgrade_outlier_to_timeline_pdu returns, with or without an error: after
\* a prev event the next one follows, after the event itself the request is
\* answered.
ReturnUpgrade(t) ==
    IF task[t].cur = task[t].target
    THEN Finish(t)
    ELSE /\ Goto(t, "next_prev")
         /\ task' = [task EXCEPT ![t] = [Idle EXCEPT !.op = task[t].op,
                        !.target = task[t].target, !.todo = task[t].todo]]
         /\ state_mutex' = Free(t, state_mutex)
         /\ UNCHANGED <<mutex_federation, mutex_insert>>

-----------------------------------------------------------------------------
(* Requests *)

Start(t, op, e, l) ==
    /\ At(t, "idle")
    /\ Goto(t, l)
    /\ task' = [task EXCEPT ![t] = [Idle EXCEPT !.op = op, !.target = e, !.cur = e]]

\* A user sends an event: the caller takes the state mutex for
\* build_and_append_pdu.
send_message_event(t, e) ==
    /\ state_mutex = NoTask
    /\ e \notin created
    /\ Start(t, "local", e, "create")
    /\ created' = created \cup {e}
    /\ state_mutex' = t
    /\ UNCHANGED <<db, sent, mutex_federation, mutex_insert, crashes>>

\* Another server can only refer to local events it was sent.
CanArrive(e) == Prev[e] \cap Local \subseteq sent

send_transaction_without_lock(t, e) ==
    /\ CanArrive(e)
    /\ Start(t, "send", e, "known")
    /\ UNCHANGED <<db, sent, created, locks, crashes>>

\* handle_room of a federation transaction, and send_join, send_leave and
\* send_knock: handle_incoming_pdu under mutex_federation.  The same event
\* may arrive any number of times.
send_transaction_message(t, e) ==
    /\ mutex_federation = NoTask
    /\ CanArrive(e)
    /\ Start(t, "send", e, "known")
    /\ mutex_federation' = t
    /\ UNCHANGED <<db, sent, created, state_mutex, mutex_insert, crashes>>

\* A join or an invite of a local user that another server signed:
\* handle_incoming_pdu is called without mutex_federation.
join_room_by_id_helper_local(t, e) ==
    /\ e \in Unlocked
    /\ CanArrive(e)
    /\ Start(t, "join", e, "known")
    /\ UNCHANGED <<db, sent, created, locks, crashes>>

\* backfill_pdu, up to the check whether the event is known.
backfill_pdu(t, e) ==
    /\ e \in Backfill
    /\ mutex_federation = NoTask
    /\ CanArrive(e)
    /\ Start(t, "backfill", e, "known")
    /\ mutex_federation' = t
    /\ UNCHANGED <<db, sent, created, state_mutex, mutex_insert, crashes>>

-----------------------------------------------------------------------------
(* build_and_append_pdu *)

create_hash_and_sign_event_one_leaf_less(t) ==
    LET e == task[t].cur IN
    /\ At(t, "create")
    /\ \E P \in Take(leaves, PrevLimit - 1) : prev_events' = [prev_events EXCEPT ![e] = P]
    /\ Goto(t, "append_to_state")
    /\ UNCHANGED <<pduid_pdu, eventid_pduid, outliers, referenced, softfailed, event_state,
                   room_state, leaves, count, sent, created, locks, task, crashes>>

\* At most PrevLimit of the leaves become the prev_events; an event the
\* current state does not authorise is refused.
create_hash_and_sign_event(t) ==
    LET e == task[t].cur IN
    /\ At(t, "create")
    /\ \/ /\ Allowed(e, room_state)
          /\ \E P \in Take(leaves, PrevLimit) : prev_events' = [prev_events EXCEPT ![e] = P]
          /\ Goto(t, "append_to_state")
          /\ UNCHANGED <<task, locks>>
       \/ /\ ~Allowed(e, room_state)
          /\ Finish(t)
          /\ UNCHANGED prev_events
    /\ UNCHANGED <<pduid_pdu, eventid_pduid, outliers, referenced, softfailed,
                   event_state, room_state, leaves, count, sent, created, crashes>>

\* The state before the event is stored for it; the state after it is
\* saved, to be set once the event is in the timeline.
append_to_state(t) ==
    LET e == task[t].cur IN
    /\ At(t, "append_to_state")
    /\ event_state' = [event_state EXCEPT ![e] = room_state]
    /\ task' = [task EXCEPT ![t].base = room_state,
                            ![t].new = StateAfter(room_state, e),
                            ![t].ext = {e}]
    /\ Goto(t, "mark_referenced")
    /\ UNCHANGED <<pduid_pdu, eventid_pduid, outliers, prev_events, referenced,
                   softfailed, room_state, leaves, count, sent, created, locks, crashes>>

set_room_state(t) ==
    /\ At(t, "set_room_state")
    /\ room_state' = task[t].new
    /\ Goto(t, "send_pdu")
    /\ UNCHANGED <<pduid_pdu, eventid_pduid, outliers, prev_events, referenced,
                   softfailed, event_state, leaves, count, sent, created, locks,
                   task, crashes>>

\* send_pdu_servers queues the event for the servers in the room, and the
\* caller drops the state mutex.
send_pdu_servers(t) ==
    /\ At(t, "send_pdu")
    /\ sent' = sent \cup {task[t].cur}
    /\ Finish(t)
    /\ UNCHANGED <<db, created, crashes>>

-----------------------------------------------------------------------------
(* append_pdu *)

mark_as_referenced(t) ==
    /\ At(t, "mark_referenced")
    /\ referenced' = referenced \cup prev_events[task[t].cur]
    /\ Goto(t, "clear_leaves")
    /\ UNCHANGED <<pduid_pdu, eventid_pduid, outliers, prev_events, softfailed,
                   event_state, room_state, leaves, count, sent, created, locks,
                   task, crashes>>

\* set_forward_extremities removes all rows, then puts the new ones.
set_forward_extremities_remove(t) ==
    /\ At(t, "clear_leaves")
    /\ leaves' = {}
    /\ Goto(t, "put_leaves")
    /\ UNCHANGED <<pduid_pdu, eventid_pduid, outliers, prev_events, referenced,
                   softfailed, event_state, room_state, count, sent, created,
                   locks, task, crashes>>

set_forward_extremities_put(t) ==
    /\ At(t, "put_leaves")
    /\ \/ /\ leaves # task[t].ext
          /\ \E l \in task[t].ext \ leaves : leaves' = leaves \cup {l}
          /\ UNCHANGED pc
       \/ /\ leaves = task[t].ext
          /\ Goto(t, IF task[t].soft THEN "mark_soft_failed" ELSE "insert_lock")
          /\ UNCHANGED leaves
    /\ UNCHANGED <<pduid_pdu, eventid_pduid, outliers, prev_events, referenced,
                   softfailed, event_state, room_state, count, sent, created,
                   locks, task, crashes>>

insert_count_current(t) ==
    /\ At(t, "insert_lock")
    /\ mutex_insert = NoTask
    /\ mutex_insert' = t
    /\ UNCHANGED count
    /\ task' = [task EXCEPT ![t].n = IF task[t].op = "backfill" THEN 0 - count ELSE count]
    /\ Goto(t, "put_pdu")
    /\ UNCHANGED <<pduid_pdu, eventid_pduid, outliers, prev_events, referenced,
                   softfailed, event_state, room_state, leaves, sent, created,
                   state_mutex, mutex_federation, crashes>>

\* The insert mutex and the count.  An appended event takes two counts, the
\* first one for the sender's read marker; a backfilled one takes one and is
\* filed under its negation.
insert_count(t) ==
    /\ At(t, "insert_lock")
    /\ mutex_insert = NoTask
    /\ mutex_insert' = t
    /\ \/ /\ task[t].op # "backfill"
          /\ count' = count + 2
          /\ task' = [task EXCEPT ![t].n = count + 2]
       \/ /\ task[t].op = "backfill"
          /\ count' = count + 1
          /\ task' = [task EXCEPT ![t].n = 0 - (count + 1)]
    /\ Goto(t, "put_pdu")
    /\ UNCHANGED <<pduid_pdu, eventid_pduid, outliers, prev_events, referenced,
                   softfailed, event_state, room_state, leaves, sent, created,
                   state_mutex, mutex_federation, crashes>>

append_pdu_moves_outlier(t) ==
    /\ At(t, "put_pdu")
    /\ pduid_pdu' = pduid_pdu \cup {<<task[t].n, task[t].cur>>}
    /\ outliers' = outliers \ {task[t].cur}
    /\ Goto(t, "put_pduid")
    /\ UNCHANGED <<eventid_pduid, prev_events, referenced, softfailed,
                   event_state, room_state, leaves, count, sent, created, locks,
                   task, crashes>>

\* The three writes of append_pdu and prepend_backfill_pdu, in their order.
append_pdu_put(t) ==
    /\ At(t, "put_pdu")
    /\ pduid_pdu' = pduid_pdu \cup {<<task[t].n, task[t].cur>>}
    /\ Goto(t, "put_pduid")
    /\ UNCHANGED <<eventid_pduid, outliers, prev_events, referenced, softfailed,
                   event_state, room_state, leaves, count, sent, created, locks,
                   task, crashes>>

append_pdu_insert_id(t) ==
    /\ At(t, "put_pduid")
    /\ eventid_pduid' = [eventid_pduid EXCEPT ![task[t].cur] = task[t].n]
    /\ Goto(t, "remove_outlier")
    /\ UNCHANGED <<pduid_pdu, outliers, prev_events, referenced, softfailed,
                   event_state, room_state, leaves, count, sent, created, locks,
                   task, crashes>>

append_pdu_remove_outlier(t) ==
    /\ At(t, "remove_outlier")
    /\ outliers' = outliers \ {task[t].cur}
    /\ mutex_insert' = NoTask
    /\ Goto(t, "appended")
    /\ UNCHANGED <<pduid_pdu, eventid_pduid, prev_events, referenced, softfailed,
                   event_state, room_state, leaves, count, sent, created,
                   state_mutex, mutex_federation, task, crashes>>

\* The rest of append_pdu: push rules, membership, search index, threads,
\* appservices.  Several of its calls can fail, and the error reaches the
\* caller.  A local event goes on to set_room_state, another one is done.
append_pdu_rest(t) ==
    /\ At(t, "appended")
    /\ CASE task[t].op = "local" ->
              \/ Goto(t, "set_room_state") /\ UNCHANGED <<task, locks>>
              \/ Finish(t)
         [] task[t].op = "backfill" -> Finish(t)
         [] OTHER -> ReturnUpgrade(t)
    /\ UNCHANGED <<db, sent, created, crashes>>

-----------------------------------------------------------------------------
(* handle_incoming_pdu *)

\* Skip the event if it is in the timeline.
handle_incoming_pdu(t) ==
    /\ At(t, "known")
    /\ \/ InTimeline(task[t].target) /\ Finish(t)
       \/ /\ ~InTimeline(task[t].target)
          /\ Goto(t, "outlier")
          /\ UNCHANGED <<task, locks>>
    /\ UNCHANGED <<db, sent, created, crashes>>

\* The checks on the room, the signatures, the hashes and the auth events
\* refuse the event or persist it as an outlier.  A backfilled event goes
\* straight to the insert, another one to its prev events unless it is older
\* than the room.
handle_outlier_pdu(t) ==
    /\ At(t, "outlier")
    /\ \/ Finish(t) /\ UNCHANGED outliers
       \/ /\ outliers' = outliers \cup {task[t].target}
          /\ Goto(t, IF task[t].op = "backfill" THEN "insert_lock" ELSE "fetch_prev")
          /\ UNCHANGED <<task, locks>>
       \/ /\ task[t].op # "backfill"
          /\ outliers' = outliers \cup {task[t].target}
          /\ Finish(t)
    /\ UNCHANGED <<pduid_pdu, eventid_pduid, prev_events, referenced, softfailed,
                   event_state, room_state, leaves, count, sent, created, crashes>>

\* The sets of events fetch_prev can come back with: events that are not in
\* the timeline, each reached from the incoming one through prev_events.
\* What cannot be fetched, is backed off from or is over the limit is
\* missing.
PrevSets(e) ==
    {F \in SUBSET {f \in Remote : ~InTimeline(f) /\ f # e} :
        \A f \in F : \E g \in F \cup {e} : f \in prev_events[g]}

\* fetch_prev; what it fetches is now an outlier.
fetch_prev(t) ==
    LET e == task[t].target IN
    /\ At(t, "fetch_prev")
    /\ \E F \in PrevSets(e) :
          /\ outliers' = outliers \cup F
          /\ task' = [task EXCEPT ![t].todo = F \cup {e}]
    /\ Goto(t, "next_prev")
    /\ UNCHANGED <<pduid_pdu, eventid_pduid, prev_events, referenced, softfailed,
                   event_state, room_state, leaves, count, sent, created, locks,
                   crashes>>

handle_prev_pdu_again(t) ==
    /\ At(t, "next_prev")
    /\ \E p \in task[t].todo :
          /\ prev_events[p] \cap task[t].todo = {}
          /\ p = task[t].target => task[t].todo = {p}
          /\ task' = [task EXCEPT ![t].cur = p]
          /\ Goto(t, "upgrade")
    /\ UNCHANGED <<db, sent, created, locks, crashes>>

\* The prev events are taken in topological order, the event itself comes
\* last.  handle_prev_pdu skips a prev event it backs off from.
handle_prev_pdu(t) ==
    /\ At(t, "next_prev")
    /\ \E p \in task[t].todo :
          /\ prev_events[p] \cap task[t].todo = {}
          /\ p = task[t].target => task[t].todo = {p}
          /\ \/ /\ task' = [task EXCEPT ![t].todo = @ \ {p}, ![t].cur = p]
                /\ Goto(t, "upgrade")
             \/ /\ p # task[t].target
                /\ task' = [task EXCEPT ![t].todo = @ \ {p}]
                /\ UNCHANGED pc
    /\ UNCHANGED <<db, sent, created, locks, crashes>>

-----------------------------------------------------------------------------
(* upgrade_outlier_to_timeline_pdu *)

\* Skip the event if it is in the timeline or was soft failed.
upgrade_outlier_to_timeline_pdu(t) ==
    LET e == task[t].cur IN
    /\ At(t, "upgrade")
    /\ \/ (InTimeline(e) \/ e \in softfailed) /\ ReturnUpgrade(t)
       \/ /\ ~InTimeline(e) /\ e \notin softfailed
          /\ Goto(t, "state_at")
          /\ UNCHANGED <<task, locks>>
    /\ UNCHANGED <<db, sent, created, crashes>>

\* state_at_incoming_degree_one and state_at_incoming_resolved: the state
\* after the prev event, or the resolution of the states after the prev
\* events.  The fork states are collected by state hash, so of several prev
\* events with the same state before them one may stand for all.
KnownStatesAt(e) ==
    IF \A p \in prev_events[e] : event_state[p] # NoState /\ PduExists(p)
    THEN UNION {Resolutions({StateAfter(event_state[p], p) : p \in Q}) :
                  Q \in {Q \in SUBSET prev_events[e] :
                           {event_state[p] : p \in Q}
                              = {event_state[p] : p \in prev_events[e]}}}
    ELSE {}

\* fetch_state: the origin's answer, made of events it knows.
FetchedStatesAt(e) ==
    {s \in RoomState : \A k \in Key :
        s[k] # NoEvent => /\ s[k] \in (Remote \cup sent) \ {e}
                          /\ KeyOf[s[k]] = k}

EventsOf(s) == {s[k] : k \in Key} \ {NoEvent}

\* The state at the event is found or fetched (the events of a fetched state
\* become outliers), or the step fails; the event must pass auth in it.
state_at_incoming_event(t) ==
    LET e == task[t].cur
        known == KnownStatesAt(e)
    IN
    /\ At(t, "state_at")
    /\ \/ \E s \in IF known = {} THEN FetchedStatesAt(e) ELSE known :
             /\ outliers' = outliers \cup {f \in EventsOf(s) : ~PduExists(f)}
             /\ \/ /\ Allowed(e, s)
                   /\ task' = [task EXCEPT ![t].at = s]
                   /\ Goto(t, "soft_fail")
                   /\ UNCHANGED locks
                \/ ~Allowed(e, s) /\ ReturnUpgrade(t)
       \/ known = {} /\ ReturnUpgrade(t) /\ UNCHANGED outliers
    /\ UNCHANGED <<pduid_pdu, eventid_pduid, prev_events, referenced, softfailed,
                   event_state, room_state, leaves, count, sent, created, crashes>>

\* The auth check against the current room state.  The state mutex is not
\* held yet.
soft_fail_check(t) ==
    /\ At(t, "soft_fail")
    /\ task' = [task EXCEPT ![t].soft = ~Allowed(task[t].cur, room_state)]
    /\ Goto(t, "lock_state")
    /\ UNCHANGED <<db, sent, created, locks, crashes>>

\* Take the state mutex, then compute the extremities after this event.
lock_state(t) ==
    LET e == task[t].cur IN
    /\ At(t, "lock_state")
    /\ state_mutex = NoTask
    /\ state_mutex' = t
    /\ task' = [task EXCEPT ![t].ext = Extremities(e)]
    /\ Goto(t, IF KeyOf[e] = NoKey THEN "set_event_state" ELSE "resolve")
    /\ UNCHANGED <<db, sent, created, mutex_federation, mutex_insert, crashes>>

resolve_state_at_event(t) ==
    /\ At(t, "resolve")
    /\ task' = [task EXCEPT ![t].new = StateAfter(task[t].at, task[t].cur), ![t].base = task[t].at]
    /\ Goto(t, "force_state")
    /\ UNCHANGED <<db, sent, created, locks, crashes>>

\* resolve_state and save_state: the current room state and the state after
\* the event are resolved, or that fails.
resolve_state(t) ==
    LET after == StateAfter(task[t].at, task[t].cur) IN
    /\ At(t, "resolve")
    /\ \/ /\ \E r \in Resolutions({room_state, after}) :
                task' = [task EXCEPT ![t].new = r, ![t].base = room_state]
          /\ Goto(t, "force_state")
          /\ UNCHANGED locks
       \/ ReturnUpgrade(t)
    /\ UNCHANGED <<db, sent, created, crashes>>

\* force_state sets the room state after the membership caches, whose update
\* can fail.
force_state(t) ==
    /\ At(t, "force_state")
    /\ \/ /\ room_state' = task[t].new
          /\ Goto(t, "set_event_state")
          /\ UNCHANGED <<task, locks>>
       \/ ReturnUpgrade(t) /\ UNCHANGED room_state
    /\ UNCHANGED <<pduid_pdu, eventid_pduid, outliers, prev_events, referenced,
                   softfailed, event_state, leaves, count, sent, created, crashes>>

set_event_state_for_soft_failed(t) ==
    LET e == task[t].cur IN
    /\ At(t, "set_event_state")
    /\ event_state' = IF task[t].soft THEN [event_state EXCEPT ![e] = task[t].at]
                                      ELSE event_state
    /\ task' = [task EXCEPT ![t].ext = IF task[t].soft THEN @ ELSE @ \cup {e}]
    /\ Goto(t, "mark_referenced")
    /\ UNCHANGED <<pduid_pdu, eventid_pduid, outliers, prev_events, referenced,
                   softfailed, room_state, leaves, count, sent, created, locks, crashes>>

set_event_state_and_leaf(t) ==
    LET e == task[t].cur IN
    /\ At(t, "set_event_state")
    /\ event_state' = [event_state EXCEPT ![e] = task[t].at]
    /\ task' = [task EXCEPT ![t].ext = @ \cup {e}]
    /\ Goto(t, "mark_referenced")
    /\ UNCHANGED <<pduid_pdu, eventid_pduid, outliers, prev_events, referenced,
                   softfailed, room_state, leaves, count, sent, created, locks, crashes>>

\* append_incoming_pdu: the state at the event is stored, then append_pdu
\* follows, with the event as one more leaf unless it soft fails.
set_event_state(t) ==
    LET e == task[t].cur IN
    /\ At(t, "set_event_state")
    /\ event_state' = [event_state EXCEPT ![e] = task[t].at]
    /\ task' = [task EXCEPT ![t].ext = IF task[t].soft THEN @ ELSE @ \cup {e}]
    /\ Goto(t, "mark_referenced")
    /\ UNCHANGED <<pduid_pdu, eventid_pduid, outliers, prev_events, referenced,
                   softfailed, room_state, leaves, count, sent, created, locks, crashes>>

\* The event stays an outlier and is remembered as soft failed.
mark_event_soft_failed(t) ==
    /\ At(t, "mark_soft_failed")
    /\ softfailed' = softfailed \cup {task[t].cur}
    /\ ReturnUpgrade(t)
    /\ UNCHANGED <<pduid_pdu, eventid_pduid, outliers, prev_events, referenced,
                   event_state, room_state, leaves, count, sent, created, crashes>>

-----------------------------------------------------------------------------
\* The process stops anywhere and starts again on the database.
Restart ==
    /\ crashes < MaxCrashes
    /\ crashes' = crashes + 1
    /\ pc' = [t \in Task |-> "idle"]
    /\ task' = [t \in Task |-> Idle]
    /\ state_mutex' = NoTask
    /\ mutex_federation' = NoTask
    /\ mutex_insert' = NoTask
    /\ UNCHANGED <<db, sent, created>>

Request(t) ==
    \/ \E e \in Local : send_message_event(t, e)
    \/ \E e \in Remote : send_transaction_message(t, e)
    \/ \E e \in Remote : join_room_by_id_helper_local(t, e)
    \/ \E e \in Remote : backfill_pdu(t, e)

Step(t) ==
    \/ create_hash_and_sign_event(t)
    \/ append_to_state(t)
    \/ mark_as_referenced(t)
    \/ set_forward_extremities_remove(t)
    \/ set_forward_extremities_put(t)
    \/ insert_count(t)
    \/ append_pdu_put(t)
    \/ append_pdu_insert_id(t)
    \/ append_pdu_remove_outlier(t)
    \/ append_pdu_rest(t)
    \/ set_room_state(t)
    \/ send_pdu_servers(t)
    \/ handle_incoming_pdu(t)
    \/ handle_outlier_pdu(t)
    \/ fetch_prev(t)
    \/ handle_prev_pdu(t)
    \/ upgrade_outlier_to_timeline_pdu(t)
    \/ state_at_incoming_event(t)
    \/ soft_fail_check(t)
    \/ lock_state(t)
    \/ resolve_state(t)
    \/ force_state(t)
    \/ set_event_state(t)
    \/ mark_event_soft_failed(t)

Next == Restart \/ \E t \in Task : Request(t) \/ Step(t)

Spec == Init /\ [][Next]_vars

\* The runtime polls every task that can go on; a tokio mutex serves its
\* waiters in order, so a task that waits for a mutex again and again free
\* gets it.
FairSpec == Spec /\ \A t \in Task : SF_vars(Step(t))

-----------------------------------------------------------------------------
(* Properties *)

\* "so we don't have a moment in time with the pdu without it's state": a
\* row appended to the timeline has a stored state, whatever fails or stops
\* (build_and_append_pdu, append_incoming_pdu).
PduHasState ==
    \A p \in pduid_pdu : p[1] > 0 => event_state[p[2]] # NoState

\* "so that we never have a moment in time where events in the current room
\* state do not exist": every event of the room state, and of the state
\* stored for an event, can be read from the timeline or the outliers.
StateEventsExist ==
    /\ \A e \in EventsOf(room_state) : PduExists(e)
    /\ \A e \in Event : event_state[e] # NoState =>
          \A f \in EventsOf(event_state[e]) : PduExists(f)

\* "Skip the PDU if we already have it as a timeline event": no event is in
\* the timeline twice.
NoDuplicatePdus ==
    \A p, q \in pduid_pdu : p[2] = q[2] => p = q

\* When no one holds the state mutex, the leaves a local event will refer to
\* are events of the timeline.
LeavesExist ==
    state_mutex = NoTask => \A l \in leaves : InTimeline(l)

\* The timeline only grows at its ends: append_pdu adds a row after all
\* others, prepend_backfill_pdu before all others, so a position a client
\* has read past never gets a new event.
GrowsAtTheEnds ==
    [][\A p \in pduid_pdu' \ pduid_pdu :
         \/ p[1] > 0 /\ \A q \in pduid_pdu : q[1] < p[1]
         \/ p[1] < 0 /\ \A q \in pduid_pdu : q[1] > p[1]]_vars

\* "only this function is able to mutate the room state": the room state is
\* only replaced by one derived from it, so no task undoes the state change
\* of another.
NoLostStateUpdate ==
    [][room_state' # room_state =>
         \E t \in Task : /\ pc[t] \in {"set_room_state", "force_state"}
                         /\ task[t].base = room_state
                         /\ room_state' = task[t].new]_vars

\* "Since this PDU references all pdu_leaves we can update the leaves of the
\* room" (build_and_append_pdu): no event comes between the choice of the prev
\* events and the update, so a leaf that a local event replaces is one of its
\* prev events, or there were more leaves than it may refer to.
LocalReferencesLeaves ==
    [][\A t \in Task : At(t, "clear_leaves") /\ pc'[t] = "put_leaves"
                          /\ task[t].op = "local" /\ Cardinality(leaves) <= PrevLimit
            => leaves \subseteq prev_events[task[t].cur]]_vars

\* Every request is answered: the three mutexes are always taken in an order
\* in which no two tasks wait for each other, and every path drops them.
EveryRequestEnds ==
    \A t \in Task : ~At(t, "idle") ~> At(t, "idle")

-----------------------------------------------------------------------------
(* Inductive invariants *)

LocalPc == {"create", "append_to_state", "set_room_state", "send_pdu"}
Appending == {"mark_referenced", "clear_leaves", "put_leaves"}
Upgrading == {"state_at", "soft_fail", "lock_state", "resolve", "force_state", "set_event_state"}
Inserting == {"put_pdu", "put_pduid", "remove_outlier"}
Writing == Inserting \cup {"insert_lock", "appended"}

\* Where a task holds the state mutex: a backfilled event is inserted without it.
HoldsState(t) ==
    \/ pc[t] \in LocalPc \cup Appending \cup {"resolve", "force_state", "set_event_state", "mark_soft_failed"}
    \/ pc[t] \in Writing /\ task[t].op # "backfill"

\* Which operation is where, on which events, and with which mutexes.
TaskInv(t) ==
    /\ HoldsState(t) => state_mutex = t
    /\ pc[t] \in Inserting => mutex_insert = t
    /\ task[t].op = "none" <=> pc[t] = "idle"
    /\ pc[t] \in LocalPc => task[t].op = "local"
    /\ task[t].op = "local" => pc[t] \in LocalPc \cup Appending \cup Writing /\ task[t].cur \in Local
    /\ task[t].op = "backfill" => pc[t] \in {"known", "outlier"} \cup Writing
    /\ task[t].op \in {"send", "join", "backfill"} =>
          /\ task[t].target \in Remote /\ task[t].todo \subseteq Remote
          /\ pc[t] # "next_prev" => task[t].cur \in Remote
    /\ task[t].soft => task[t].op \in {"send", "join"}
    /\ pc[t] \in Upgrading \ {"state_at"} => task[t].at # NoState
    /\ pc[t] = "force_state" => task[t].new # NoState
    /\ task[t].op = "local" /\ pc[t] \notin {"create", "append_to_state"} => task[t].new # NoState

ControlInv == TypeOK /\ \A t \in Task : TaskInv(t)

\* The state a task is about to set was derived from the present one.
Based(t) ==
    /\ pc[t] = "force_state" => task[t].base = room_state
    /\ task[t].op = "local" /\ pc[t] \in Appending \cup Writing \cup {"set_room_state"} =>
          task[t].base = room_state /\ task[t].new = StateAfter(room_state, task[t].cur)

\* The rows of the timeline are within the counts taken so far, and a task about to insert one
\* has the last count.
Within(t) ==
    /\ pc[t] \in Inserting => task[t].n = IF task[t].op = "backfill" THEN 0 - count ELSE count
    /\ pc[t] = "put_pdu" => \A p \in pduid_pdu : p[1] < count /\ 0 - count < p[1]
CountInv ==
    /\ count > 0
    /\ \A p \in pduid_pdu : p[1] # 0 /\ p[1] <= count /\ 0 - count <= p[1]
    /\ \A t \in Task : Within(t)

\* An appended event has its state before its row.
Stored(t) ==
    pc[t] \in Appending \cup {"insert_lock", "put_pdu"} /\ task[t].op # "backfill"
    => event_state[task[t].cur] # NoState
StoredInv == PduHasState /\ \A t \in Task : Stored(t)

\* The index never points at a missing row, and is written before the outlier is removed.
Indexed(t) ==
    /\ pc[t] = "put_pduid" => <<task[t].n, task[t].cur>> \in pduid_pdu
    /\ pc[t] \in {"remove_outlier", "appended", "set_room_state"} => InTimeline(task[t].cur)
IndexInv ==
    /\ \A e \in Event : InTimeline(e) => <<eventid_pduid[e], e>> \in pduid_pdu
    /\ \A t \in Task : Indexed(t)

\* What the handling of an incoming event works on can be read: the event, its prev events, the
\* state at it and the state to be set.
Readable(t) ==
    /\ pc[t] = "fetch_prev" => PduExists(task[t].target)
    /\ \A f \in task[t].todo : PduExists(f)
    /\ pc[t] \in {"upgrade"} \cup Upgrading => PduExists(task[t].cur)
    /\ task[t].at # NoState => \A f \in EventsOf(task[t].at) : PduExists(f)
    /\ pc[t] = "force_state" => \A f \in EventsOf(task[t].new) : PduExists(f)
ReadableInv == StateEventsExist /\ \A t \in Task : Readable(t)

\* A leaf that is not in the timeline is the event that its task is about to insert.
Settling(t) ==
    /\ pc[t] \in {"put_leaves", "insert_lock", "put_pdu", "put_pduid"}
    /\ task[t].op # "backfill" /\ ~task[t].soft
Settles(t) ==
    /\ pc[t] \in {"resolve", "force_state", "set_event_state"} => \A l \in task[t].ext : InTimeline(l)
    /\ pc[t] \in Appending => \A l \in task[t].ext : InTimeline(l) \/ (~task[t].soft /\ l = task[t].cur)
LeavesInv ==
    /\ \A l \in leaves : InTimeline(l) \/ \E t \in Task : Settling(t) /\ l = task[t].cur
    /\ \A t \in Task : Settles(t)

\* A local event refers to all leaves until it replaces them.
RefersToLeaves(t) ==
    task[t].op = "local" /\ pc[t] \in {"append_to_state", "mark_referenced", "clear_leaves"}
      /\ Cardinality(leaves) <= PrevLimit
    => leaves \subseteq prev_events[task[t].cur]
RefersInv == \A t \in Task : RefersToLeaves(t)

\* There is no row yet of an event that a task is about to insert, and no two tasks are about to
\* insert the same: without crashes, and if every caller holds mutex_federation.
Fresh(e) == \A p \in pduid_pdu : p[2] # e
Only(t) ==
    /\ task[t].op = "local" => task[t].cur \in created
    /\ task[t].op \in {"send", "join", "backfill"} => mutex_federation = t
    /\ pc[t] \in {"known", "outlier"} => task[t].cur = task[t].target
    /\ \/ pc[t] \in {"create", "append_to_state", "insert_lock", "put_pdu"} \cup Appending \cup Upgrading
       \/ pc[t] = "outlier" /\ task[t].op = "backfill"
       => Fresh(task[t].cur)
OnceInv ==
    /\ NoDuplicatePdus
    /\ \A e \in Local \ created : Fresh(e)
    /\ \A p \in pduid_pdu : InTimeline(p[2]) \/ \E t \in Task : pc[t] = "put_pduid" /\ p[2] = task[t].cur
    /\ \A t \in Task : Only(t)

=============================================================================
