-------------------------------- MODULE Sync --------------------------------
(***************************************************************************)
(* GET /sync of one device.  Every change a client is told of carries a    *)
(* number taken from the global counter; a response covers the numbers     *)
(* after the client's since token up to next_batch, the counter when the   *)
(* response was started.  Writers take their number first and write their  *)
(* row later, the parts of a response are read one by one, and the client  *)
(* may give up on a request and ask again with its old token.              *)
(*                                                                         *)
(* The streams: the timeline and the state of a joined room, the device's  *)
(* to-device events, the device list changes, the global account data of   *)
(* one type, and the users typing in the room.  They share nothing but the *)
(* counter; `streams` are those that change in a behaviour.                *)
(***************************************************************************)
EXTENDS Naturals, FiniteSets

CONSTANTS
    Writer,        \* tasks that change something
    Request,       \* slots for the device's sync requests
    Local,         \* events sent here
    Incoming,      \* state events that arrive over federation
    StateEvent,    \* the events that set the one state key
    TypingUser,
    StreamSets,    \* the choices for `streams`
    Limit,         \* of the timeline of a response (10 in the code)
    NoEvent, NoState, NoRequest,
    MaxOps,        \* stream -> bound on the changes
    MaxLost        \* stream -> bound on the requests the client gives up

Stream == {"timeline", "todevice", "keys", "account", "typing"}

ASSUME SyncAssumption ==
    /\ StreamSets \subseteq SUBSET Stream
    /\ Incoming \subseteq StateEvent /\ StateEvent \subseteq Local \cup Incoming
    /\ Local \cap Incoming = {} /\ {NoEvent, NoState} \cap (Local \cup Incoming) = {}
    /\ NoRequest \notin Request
    /\ Limit \in Nat \ {0}
    /\ \A f \in {MaxOps, MaxLost} : \A ss \in StreamSets : \A s \in ss : f[s] \in Nat

VARIABLES
    streams,
    count,            \* globals: the counter
    timeline,         \* pduid_pdu: pairs of a number and an event
    room_state,       \* the event at the state key
    tokens,           \* roomsynctoken_shortstatehash
    todeviceid_events,
    keychangeid_userid,
    accountdata,      \* roomuserdataid_accountdata, rows of one type
    accountdata_id,   \* roomusertype_roomuserdataid: the current row, or 0
    typing,           \* user -> "no", "typing", or "expired" after the timeout
    last_typing_update,
    state_mutex,      \* a writer is between its first and its last step on the room
    used,             \* events that were sent or have arrived
    writer,           \* a writer's next step, its number and its event
    request,
    client,           \* what the device has and is waiting for
    lost,             \* requests the client gave up
    ops               \* changes begun

vars == <<streams, count, timeline, room_state, tokens, todeviceid_events,
          keychangeid_userid, accountdata, accountdata_id, typing,
          last_typing_update, state_mutex, used, writer, request, client, lost, ops>>

Event == Local \cup Incoming

RoomState == StateEvent \cup {NoEvent}

\* An answer that is being built. Of the users typing it has a set, or none.
Nothing == [timeline |-> {}, state |-> NoState, since_state |-> NoState, todevice |-> {},
            keys |-> {}, account |-> {}, expired |-> {}, typing |-> {}]

NewRequest(since, full) ==
    [pc |-> "start", since |-> since, full |-> full, retry |-> FALSE, next_batch |-> 0,
     todo |-> {}, got |-> Nothing]

IdleWriter == [pc |-> "idle", n |-> 0, e |-> NoEvent, prev |-> 0]

Part == {"timeline", "state", "since_state", "associate", "todevice", "remove_todevice",
         "keys", "account", "maintain", "maintain_remove", "last_typing", "typings_all"}

Answer ==
    [timeline : SUBSET Nat, state : RoomState \cup {NoState}, since_state : RoomState \cup {NoState},
     todevice : SUBSET Nat, keys : SUBSET Nat, account : SUBSET Nat,
     expired : SUBSET TypingUser, typing : SUBSET SUBSET TypingUser]

RequestState ==
    [pc : {"idle", "start", "read", "watch", "wait", "woken", "again", "respond"},
     since : Nat, full : BOOLEAN, retry : BOOLEAN, next_batch : Nat, todo : SUBSET Part, got : Answer]

WriterState ==
    [pc : {"idle", "put_todevice", "put_keychange", "put_account", "account_prev", "account_id",
           "account_remove", "last_typing_update", "insert_local", "set_room_state",
           "append_incoming", "insert_incoming"},
     n : Nat, e : Event \cup {NoEvent}, prev : Nat]

ClientState ==
    [token : Nat, request : Request \cup {NoRequest}, state : RoomState \cup {NoState},
     users : SUBSET TypingUser, todevice : SUBSET Nat, keys : SUBSET Nat, account : SUBSET Nat,
     timeline : SUBSET Nat]

TypeOK ==
    /\ streams \subseteq Stream
    /\ count \in Nat
    /\ timeline \subseteq Nat \X Event
    /\ room_state \in RoomState
    /\ DOMAIN tokens \subseteq Nat /\ tokens \in [DOMAIN tokens -> RoomState \cup {NoState}]
    /\ todeviceid_events \subseteq Nat
    /\ keychangeid_userid \subseteq Nat
    /\ accountdata \subseteq Nat /\ accountdata_id \in Nat
    /\ typing \in [TypingUser -> {"no", "typing", "expired"}]
    /\ last_typing_update \in Nat
    /\ state_mutex \in BOOLEAN /\ used \subseteq Event
    /\ writer \in [Writer -> WriterState]
    /\ \A w \in Writer :
          writer[w].pc \in {"insert_local", "append_incoming", "insert_incoming"} => writer[w].e \in Event
    /\ request \in [Request -> RequestState]
    /\ client \in ClientState
    /\ lost \in Nat /\ ops \in Nat

Init ==
    /\ streams \in StreamSets
    /\ count = 0
    /\ timeline = {} /\ room_state = NoEvent
    /\ tokens = [n \in {} |-> NoState]
    /\ todeviceid_events = {} /\ keychangeid_userid = {}
    /\ accountdata = {} /\ accountdata_id = 0
    /\ typing = [u \in TypingUser |-> "no"] /\ last_typing_update = 0
    /\ state_mutex = FALSE /\ used = {}
    /\ writer = [w \in Writer |-> IdleWriter]
    /\ request = [q \in Request |-> [NewRequest(0, FALSE) EXCEPT !.pc = "idle"]]
    /\ client = [token |-> 0, request |-> NoRequest, state |-> NoState, users |-> {},
                 todevice |-> {}, keys |-> {}, account |-> {}, timeline |-> {}]
    /\ lost = 0 /\ ops = 0

db == <<timeline, room_state, tokens, todeviceid_events, keychangeid_userid,
        accountdata, accountdata_id, typing, last_typing_update, state_mutex, used>>
roomdb == <<timeline, room_state, tokens, state_mutex, used>>
typingdb == <<typing, last_typing_update>>
accountdb == <<accountdata, accountdata_id>>
bounds == <<lost, ops>>

-----------------------------------------------------------------------------
(* The counter, and the watchers *)

next_count(w, then) ==
    /\ count' = count + 1
    /\ writer' = [writer EXCEPT ![w].pc = then, ![w].n = count + 1]

\* A write wakes the requests that wait for it.
wake == request' = [q \in Request |->
            IF request[q].pc = "wait" THEN [request[q] EXCEPT !.pc = "woken"] ELSE request[q]]

-----------------------------------------------------------------------------
(* Writers *)

Begins(w, s) ==
    /\ writer[w].pc = "idle" /\ s \in streams
    /\ ops < MaxOps[s] /\ ops' = ops + 1

add_to_device_event(w) ==
    /\ Begins(w, "todevice")
    /\ next_count(w, "put_todevice")
    /\ UNCHANGED <<streams, db, request, client, lost>>

put_todevice(w) ==
    /\ writer[w].pc = "put_todevice"
    /\ todeviceid_events' = todeviceid_events \cup {writer[w].n}
    /\ writer' = [writer EXCEPT ![w] = IdleWriter]
    /\ wake
    /\ UNCHANGED <<streams, count, roomdb, keychangeid_userid, accountdb, typingdb,
                   client, bounds>>

\* The number is taken before the user's rooms are looked up one by one.
mark_device_key_update(w) ==
    /\ Begins(w, "keys")
    /\ next_count(w, "put_keychange")
    /\ UNCHANGED <<streams, db, request, client, lost>>

put_keychange(w) ==
    /\ writer[w].pc = "put_keychange"
    /\ keychangeid_userid' = keychangeid_userid \cup {writer[w].n}
    /\ writer' = [writer EXCEPT ![w] = IdleWriter]
    /\ wake
    /\ UNCHANGED <<streams, count, roomdb, todeviceid_events, accountdb, typingdb,
                   client, bounds>>

\* account_data::update: a new row, then the pointer to it, then the row the
\* pointer was at goes.
update_account_data(w) ==
    /\ Begins(w, "account")
    /\ next_count(w, "put_account")
    /\ UNCHANGED <<streams, db, request, client, lost>>

put_account(w) ==
    /\ writer[w].pc = "put_account"
    /\ accountdata' = accountdata \cup {writer[w].n}
    /\ writer' = [writer EXCEPT ![w].pc = "account_prev"]
    /\ UNCHANGED <<streams, count, roomdb, todeviceid_events, keychangeid_userid,
                   accountdata_id, typingdb, request, client, bounds>>

account_prev(w) ==
    /\ writer[w].pc = "account_prev"
    /\ writer' = [writer EXCEPT ![w].pc = "account_id", ![w].prev = accountdata_id]
    /\ UNCHANGED <<streams, count, db, request, client, bounds>>

put_account_id(w) ==
    /\ writer[w].pc = "account_id"
    /\ accountdata_id' = writer[w].n
    /\ writer' = [writer EXCEPT ![w].pc = "account_remove"]
    /\ wake
    /\ UNCHANGED <<streams, count, roomdb, todeviceid_events, keychangeid_userid,
                   accountdata, typingdb, client, bounds>>

account_remove(w) ==
    /\ writer[w].pc = "account_remove"
    /\ accountdata' = accountdata \ {writer[w].prev}
    /\ writer' = [writer EXCEPT ![w] = IdleWriter]
    /\ UNCHANGED <<streams, count, roomdb, todeviceid_events, keychangeid_userid,
                   accountdata_id, typingdb, request, client, bounds>>

\* typing_add and typing_remove: the map first, then the number, which is
\* taken and stored under the lock of last_typing_update.
typing_set(w, u, v) ==
    /\ Begins(w, "typing")
    /\ typing' = [typing EXCEPT ![u] = v]
    /\ writer' = [writer EXCEPT ![w].pc = "last_typing_update"]
    /\ UNCHANGED <<streams, count, roomdb, todeviceid_events, keychangeid_userid, accountdb,
                   last_typing_update, request, client, lost>>

typing_add(w, u) == typing_set(w, u, "typing")
typing_remove(w, u) == typing_set(w, u, "no")

put_last_typing_update_twice(w) ==
    /\ writer[w].pc = "last_typing_update"
    /\ count' = count + 1
    /\ last_typing_update' = count
    /\ writer' = [writer EXCEPT ![w] = IdleWriter]
    /\ wake
    /\ UNCHANGED <<streams, roomdb, todeviceid_events, keychangeid_userid, accountdb,
                   typing, client, bounds>>

put_last_typing_update(w) ==
    /\ writer[w].pc = "last_typing_update"
    /\ count' = count + 1
    /\ last_typing_update' = count + 1
    /\ writer' = [writer EXCEPT ![w] = IdleWriter]
    /\ wake
    /\ UNCHANGED <<streams, roomdb, todeviceid_events, keychangeid_userid, accountdb,
                   typing, client, bounds>>

\* A timeout passes.
typing_expires(u) ==
    /\ typing[u] = "typing"
    /\ typing' = [typing EXCEPT ![u] = "expired"]
    /\ UNCHANGED <<streams, count, roomdb, todeviceid_events, keychangeid_userid, accountdb,
                   last_typing_update, writer, request, client, bounds>>

\* Appending an event to the room under its state mutex.  A local event is
\* inserted and the room state set after it; for an incoming state event the
\* resolved state is set first, and it may then be soft failed.
append_local(w, e) ==
    /\ Begins(w, "timeline") /\ ~state_mutex /\ e \in Local \ used
    /\ count' = count + 1
    /\ writer' = [writer EXCEPT ![w] = [IdleWriter EXCEPT !.pc = "insert_local", !.n = count + 1, !.e = e]]
    /\ state_mutex' = TRUE /\ used' = used \cup {e}
    /\ UNCHANGED <<streams, timeline, room_state, tokens, todeviceid_events,
                   keychangeid_userid, accountdb, typingdb, request, client, lost>>

insert_local(w) ==
    /\ writer[w].pc = "insert_local"
    /\ timeline' = timeline \cup {<<writer[w].n, writer[w].e>>}
    /\ writer' = [writer EXCEPT ![w].pc = "set_room_state"]
    /\ wake
    /\ UNCHANGED <<streams, count, room_state, tokens, used, state_mutex, todeviceid_events,
                   keychangeid_userid, accountdb, typingdb, client, bounds>>

set_room_state(w) ==
    /\ writer[w].pc = "set_room_state"
    /\ room_state' = IF writer[w].e \in StateEvent THEN writer[w].e ELSE room_state
    /\ writer' = [writer EXCEPT ![w] = IdleWriter]
    /\ state_mutex' = FALSE
    /\ UNCHANGED <<streams, count, timeline, tokens, used, todeviceid_events,
                   keychangeid_userid, accountdb, typingdb, request, client, bounds>>

force_state(w, e) ==
    /\ Begins(w, "timeline") /\ ~state_mutex /\ e \in Incoming \ used
    /\ room_state' \in {room_state, e}
    /\ writer' = [writer EXCEPT ![w] = [IdleWriter EXCEPT !.pc = "append_incoming", !.e = e]]
    /\ state_mutex' = TRUE /\ used' = used \cup {e}
    /\ UNCHANGED <<streams, count, timeline, tokens, todeviceid_events,
                   keychangeid_userid, accountdb, typingdb, request, client, lost>>

append_incoming(w) ==
    /\ writer[w].pc = "append_incoming"
    /\ next_count(w, "insert_incoming")
    /\ UNCHANGED <<streams, db, request, client, bounds>>

insert_incoming(w) ==
    /\ writer[w].pc = "insert_incoming"
    /\ timeline' = timeline \cup {<<writer[w].n, writer[w].e>>}
    /\ writer' = [writer EXCEPT ![w] = IdleWriter]
    /\ state_mutex' = FALSE
    /\ wake
    /\ UNCHANGED <<streams, count, room_state, tokens, used, todeviceid_events,
                   keychangeid_userid, accountdb, typingdb, client, bounds>>

soft_fail(w) ==
    /\ writer[w].pc = "append_incoming"
    /\ writer' = [writer EXCEPT ![w] = IdleWriter]
    /\ state_mutex' = FALSE
    /\ UNCHANGED <<streams, count, timeline, room_state, tokens, used, todeviceid_events,
                   keychangeid_userid, accountdb, typingdb, request, client, bounds>>

-----------------------------------------------------------------------------
(* build_sync_events *)

\* The device asks with its token.
sync_events_route(q, full) ==
    /\ client.request = NoRequest /\ request[q].pc = "idle"
    /\ full => "timeline" \in streams
    /\ request' = [request EXCEPT ![q] = NewRequest(client.token, full)]
    /\ client' = [client EXCEPT !.request = q]
    /\ UNCHANGED <<streams, count, db, writer, bounds>>

\* The parts of a response; the lists are read concurrently.
Parts ==
    UNION {IF "timeline" \in streams THEN {"timeline", "state", "since_state", "associate"} ELSE {},
           IF "todevice" \in streams THEN {"todevice", "remove_todevice"} ELSE {},
           IF "typing" \in streams THEN {"maintain"} ELSE {},
           streams \cap {"keys", "account"}}

\* next_batch is the counter before anything is read.
build_sync_events(q) ==
    /\ request[q].pc \in {"start", "again"}
    /\ request' = [request EXCEPT ![q] = [request[q] EXCEPT
                      !.pc = "read", !.retry = (request[q].pc = "again"),
                      !.next_batch = count, !.todo = Parts, !.got = Nothing]]
    /\ UNCHANGED <<streams, count, db, writer, client, bounds>>

Reads(q, part) == request[q].pc = "read" /\ part \in request[q].todo

\* The part has been read, `then` is what follows it.
Got(q, part, got, then) ==
    request' = [request EXCEPT ![q].todo = (@ \ {part}) \cup then, ![q].got = got]

Window_at_since(q, ns) == {n \in ns : request[q].since <= n /\ n <= request[q].next_batch}

\* The numbers of a list that a response covers.
Window(q, ns) == {n \in ns : request[q].since < n /\ n <= request[q].next_batch}

\* load_timeline: the last events of the window.
load_timeline(q) ==
    LET ns == Window(q, {p[1] : p \in timeline})
        some == {n \in ns : Cardinality({m \in ns : m > n}) < Limit}
        got == [request[q].got EXCEPT !.timeline = some]
    IN  /\ Reads(q, "timeline")
        /\ Got(q, "timeline", got, {})
        /\ UNCHANGED <<streams, count, db, writer, client, bounds>>

current_shortstatehash(q) ==
    /\ Reads(q, "state")
    /\ Got(q, "state", [request[q].got EXCEPT !.state = room_state], {})
    /\ UNCHANGED <<streams, count, db, writer, client, bounds>>

\* The state saved under a token, if any.
Saved(n) == IF n \in DOMAIN tokens THEN tokens[n] ELSE NoState

get_token_shortstatehash(q) ==
    /\ Reads(q, "since_state")
    /\ Got(q, "since_state", [request[q].got EXCEPT !.since_state = Saved(request[q].since)], {})
    /\ UNCHANGED <<streams, count, db, writer, client, bounds>>

Saves(n, state) ==
    tokens' = [m \in DOMAIN tokens \cup {n} |-> IF m = n THEN state ELSE tokens[m]]

associate_token_shortstatehash_reread(q) ==
    /\ Reads(q, "associate")
    /\ request[q].todo \cap {"timeline", "state", "since_state"} = {}
    /\ Saves(request[q].next_batch, room_state)
    /\ Got(q, "associate", request[q].got, {})
    /\ UNCHANGED <<streams, count, timeline, room_state, state_mutex, used, todeviceid_events,
                   keychangeid_userid, accountdb, typingdb, writer, client, bounds>>

\* load_joined_room saves the state it has read under the new token.
associate_token_shortstatehash(q) ==
    /\ Reads(q, "associate")
    /\ request[q].todo \cap {"timeline", "state", "since_state"} = {}
    /\ Saves(request[q].next_batch, request[q].got.state)
    /\ Got(q, "associate", request[q].got, {})
    /\ UNCHANGED <<streams, count, timeline, room_state, state_mutex, used, todeviceid_events,
                   keychangeid_userid, accountdb, typingdb, writer, client, bounds>>

get_to_device_events(q) ==
    /\ Reads(q, "todevice")
    /\ Got(q, "todevice", [request[q].got EXCEPT !.todevice = Window(q, todeviceid_events)], {})
    /\ UNCHANGED <<streams, count, db, writer, client, bounds>>

remove_to_device_events_sent_now(q) ==
    /\ Reads(q, "remove_todevice")
    /\ todeviceid_events' = {n \in todeviceid_events : n > request[q].next_batch}
    /\ Got(q, "remove_todevice", request[q].got, {})
    /\ UNCHANGED <<streams, count, roomdb, keychangeid_userid, accountdb, typingdb,
                   writer, client, bounds>>

\* "Remove all to-device events the device received *last time*".
remove_to_device_events(q) ==
    /\ Reads(q, "remove_todevice")
    /\ todeviceid_events' = {n \in todeviceid_events : n > request[q].since}
    /\ Got(q, "remove_todevice", request[q].got, {})
    /\ UNCHANGED <<streams, count, roomdb, keychangeid_userid, accountdb, typingdb,
                   writer, client, bounds>>

keys_changed(q) ==
    /\ Reads(q, "keys")
    /\ Got(q, "keys", [request[q].got EXCEPT !.keys = Window(q, keychangeid_userid)], {})
    /\ UNCHANGED <<streams, count, db, writer, client, bounds>>

changes_since(q) ==
    /\ Reads(q, "account")
    /\ Got(q, "account", [request[q].got EXCEPT !.account = Window(q, accountdata)], {})
    /\ UNCHANGED <<streams, count, db, writer, client, bounds>>

\* last_typing_update first drops the users whose timeout has passed; they are
\* looked up under a read lock and removed under a write lock.
typings_maintain(q) ==
    LET expired == {u \in TypingUser : typing[u] = "expired"} IN
    /\ Reads(q, "maintain")
    /\ Got(q, "maintain", [request[q].got EXCEPT !.expired = expired],
           IF expired = {} THEN {"last_typing"} ELSE {"maintain_remove"})
    /\ UNCHANGED <<streams, count, db, writer, client, bounds>>

typings_maintain_remove(q) ==
    /\ Reads(q, "maintain_remove")
    /\ typing' = [u \in TypingUser |-> IF u \in request[q].got.expired THEN "no" ELSE typing[u]]
    /\ count' = count + 1
    /\ last_typing_update' = count + 1
    /\ request' = [r \in Request |->
          IF r = q THEN [request[q] EXCEPT !.todo = (@ \ {"maintain_remove"}) \cup {"last_typing"}]
          ELSE IF request[r].pc = "wait" THEN [request[r] EXCEPT !.pc = "woken"] ELSE request[r]]
    /\ UNCHANGED <<streams, roomdb, todeviceid_events, keychangeid_userid, accountdb,
                   writer, client, bounds>>

last_typing_update_since(q) ==
    /\ Reads(q, "last_typing")
    /\ Got(q, "last_typing", request[q].got,
           IF last_typing_update > request[q].since THEN {"typings_all"} ELSE {})
    /\ UNCHANGED <<streams, count, db, writer, client, bounds>>

typing_users == {u \in TypingUser : typing[u] # "no"}

typings_all(q) ==
    /\ Reads(q, "typings_all")
    /\ Got(q, "typings_all", [request[q].got EXCEPT !.typing = {typing_users}], {})
    /\ UNCHANGED <<streams, count, db, writer, client, bounds>>

-----------------------------------------------------------------------------
(* The answer *)

\* The state section: everything at first or on demand, else what differs
\* from the state saved under the since token.
SendsState(q) ==
    LET r == request[q] IN
    /\ r.got.state \notin {NoEvent, NoState}
    /\ r.full \/ r.got.since_state # r.got.state

\* A room the device has not been told of is always in the answer: its
\* timeline is limited.
IsEmpty(q) ==
    LET got == request[q].got IN
    /\ got.timeline = {} /\ ~SendsState(q)
    /\ "timeline" \in streams => got.since_state # NoState
    /\ got.todevice = {} /\ got.keys = {} /\ got.account = {} /\ got.typing = {}

\* An answer without content is held back once.
finish_build(q) ==
    /\ request[q].pc = "read" /\ request[q].todo = {}
    /\ request' = [request EXCEPT ![q].pc =
          IF IsEmpty(q) /\ ~request[q].full /\ ~request[q].retry THEN "watch" ELSE "respond"]
    /\ UNCHANGED <<streams, count, db, writer, client, bounds>>

\* The watchers are registered when their future is first polled.
watch(q) ==
    /\ request[q].pc = "watch"
    /\ request' = [request EXCEPT ![q].pc = "wait"]
    /\ UNCHANGED <<streams, count, db, writer, client, bounds>>

\* Woken, or the timeout has passed: the answer is built again.
watch_ends(q) ==
    /\ request[q].pc \in {"wait", "woken"}
    /\ request' = [request EXCEPT ![q].pc = "again"]
    /\ UNCHANGED <<streams, count, db, writer, client, bounds>>

\* The device takes the answer in if it still waits for it.
respond(q) ==
    LET got == request[q].got IN
    /\ request[q].pc = "respond"
    /\ request' = [request EXCEPT ![q] = [NewRequest(0, FALSE) EXCEPT !.pc = "idle"]]
    /\ client' = IF client.request # q THEN client ELSE
          [client EXCEPT !.request = NoRequest, !.token = request[q].next_batch,
              !.state = IF SendsState(q) THEN got.state ELSE @,
              !.users = IF got.typing = {} THEN @ ELSE UNION got.typing,
              !.todevice = @ \cup got.todevice, !.keys = @ \cup got.keys,
              !.account = @ \cup got.account, !.timeline = @ \cup got.timeline]
    /\ UNCHANGED <<streams, count, db, writer, bounds>>

\* The device gives up, or the connection breaks: the server does not notice.
give_up(q) ==
    /\ client.request = q /\ \E s \in streams : lost < MaxLost[s]
    /\ lost' = lost + 1
    /\ client' = [client EXCEPT !.request = NoRequest]
    /\ UNCHANGED <<streams, count, db, writer, request, ops>>

WriterStep(w) ==
    \/ put_todevice(w) \/ put_keychange(w)
    \/ put_account(w) \/ account_prev(w) \/ put_account_id(w) \/ account_remove(w)
    \/ put_last_typing_update(w)
    \/ insert_local(w) \/ set_room_state(w)
    \/ append_incoming(w) \/ insert_incoming(w) \/ soft_fail(w)

Change(w) ==
    \/ add_to_device_event(w) \/ mark_device_key_update(w) \/ update_account_data(w)
    \/ \E u \in TypingUser : typing_add(w, u) \/ typing_remove(w, u)
    \/ \E e \in Event : append_local(w, e) \/ force_state(w, e)

ReadStep(q) ==
    \/ load_timeline(q) \/ current_shortstatehash(q) \/ get_token_shortstatehash(q)
    \/ associate_token_shortstatehash(q)
    \/ get_to_device_events(q) \/ remove_to_device_events(q)
    \/ keys_changed(q) \/ changes_since(q)
    \/ typings_maintain(q) \/ typings_maintain_remove(q)
    \/ last_typing_update_since(q) \/ typings_all(q)

RequestStep(q) ==
    \/ build_sync_events(q) \/ ReadStep(q) \/ finish_build(q)
    \/ watch(q) \/ watch_ends(q) \/ respond(q)

Next ==
    \/ \E w \in Writer : Change(w) \/ WriterStep(w)
    \/ \E u \in TypingUser : typing_expires(u)
    \/ \E q \in Request : \/ \E full \in BOOLEAN : sync_events_route(q, full)
                          \/ RequestStep(q) \/ give_up(q)

Spec == Init /\ [][Next]_vars

-----------------------------------------------------------------------------
(* Properties *)

\* Taking in an answer.
Accepts(q) == client.request = q /\ client'.request = NoRequest /\ lost' = lost

\* "Skip the data that's exactly at since, because we sent that last time":
\* the windows of the answers a device takes in follow each other without
\* overlap, so no timeline event, to-device event, device list change or
\* account data is sent to it twice, however often it asks again.
SentOnce ==
    [][\A q \in Request : Accepts(q) =>
         LET got == request[q].got IN
         /\ got.timeline \cap client.timeline = {}
         /\ got.todevice \cap client.todevice = {}
         /\ got.keys \cap client.keys = {}
         /\ got.account \cap client.account = {}]_vars

\* "Remove all to-device events the device received *last time*": a to-device
\* event goes only once the device has an answer that reached past it, so what
\* was in an answer that got lost is there when the device asks again, even
\* while the server still works on the request that was given up.
UnacknowledgedKept ==
    [][\A n \in todeviceid_events \ todeviceid_events' : n <= client.token]_vars

\* typing_add, typing_remove and typings_maintain bump last_typing_update
\* after the map, and under its lock: a device whose token is not older than
\* the last update has the users that are typing now.
TypingCurrent ==
    /\ client.token >= last_typing_update
    /\ \A w \in Writer : writer[w].pc # "last_typing_update"
    => client.users = typing_users

\* "Save the state after this sync so we can send the correct state diff next
\* sync": as long as no answer was lost, the state sections a device has
\* taken in give it the state the last answer was built from.
StateSectionsComplete ==
    [][\A q \in Request : Accepts(q) /\ lost = 0 /\ request[q].got.state \notin {NoEvent, NoState} =>
         client'.state = request[q].got.state]_vars

\* "Device list updates that happened after `since`": a device list change
\* whose number the device's token has passed was sent to it.
DeviceListSeen ==
    client.request = NoRequest =>
        \A n \in keychangeid_userid : n <= client.token => n \in client.keys

-----------------------------------------------------------------------------
(* Inductive invariants *)

Built == {"read", "watch", "wait", "woken", "again", "respond"}

Has(x) == x.timeline \cup x.todevice \cup x.keys \cup x.account

\* The numbers in an answer are after its since token and not after next_batch, which is not
\* behind the token.
InWindow(q) ==
    LET r == request[q] IN
    /\ r.since <= client.token
    /\ r.pc \in Built => r.since <= r.next_batch /\ r.next_batch <= count
    /\ \A n \in Has(r.got) : r.since < n /\ n <= r.next_batch
    /\ r.pc \in Built \ {"read"} => r.todo = {}
    /\ client.request = q => r.since = client.token /\ r.pc # "idle"

\* What the device has is not after its token, and no request is ahead of that.
NumbersInv ==
    /\ client.token <= count /\ last_typing_update <= count
    /\ \A n \in Has(client) : n <= client.token
    /\ \A q \in Request : InWindow(q)

TypingSettled == \A w \in Writer : writer[w].pc # "last_typing_update"
TypingChecks == {"maintain", "maintain_remove", "last_typing"}

\* The typing section of an answer. It is read after the check that finds it outdated, and the
\* users it lists are those typing now, unless the last update came after next_batch.
TypingSection(q) ==
    LET r == request[q] IN
    /\ \A a, b \in r.todo \cap TypingChecks : a = b
    /\ r.todo \cap TypingChecks # {} => "typings_all" \notin r.todo /\ r.got.typing = {}
    /\ "typing" \notin streams => r.todo \cap TypingChecks = {}
    /\ r.pc \in Built /\ last_typing_update <= r.next_batch =>
          /\ r.todo \cap TypingChecks = {} =>
                ("typings_all" \in r.todo \/ r.got.typing # {} <=> last_typing_update > r.since)
          /\ r.got.typing # {} /\ TypingSettled => r.got.typing = {typing_users}

TypingInv ==
    /\ "typing" \notin streams => last_typing_update = 0 /\ TypingSettled
    /\ \A q \in Request : TypingSection(q)
    /\ TypingCurrent

\* The device has the state s, if it is one.
Knows(s) == s \in StateEvent => client.state = s

\* The state section of the answer the device waits for. The state saved under its token is
\* the one it has, until the answer that replaces it is built.
StateSection(q) ==
    LET r == request[q] IN
    /\ "associate" \notin r.todo => r.todo \cap {"state", "since_state"} = {}
    /\ r.pc \in {"read", "respond"} =>
          /\ "since_state" \notin r.todo => Knows(r.got.since_state)
          /\ "timeline" \in streams /\ "associate" \notin r.todo => Saved(r.next_batch) = r.got.state
    /\ r.pc \notin {"read", "respond"} \/ "associate" \in r.todo \/ r.next_batch # r.since =>
          Knows(Saved(client.token))

StateInv ==
    /\ "timeline" \notin streams =>
          /\ DOMAIN tokens = {}
          /\ \A q \in Request : request[q].todo \cap {"state", "since_state", "associate"} = {}
    /\ lost = 0 =>
          /\ \A q \in Request : q # client.request => request[q].pc = "idle"
          /\ client.request = NoRequest => Knows(Saved(client.token))
          /\ client.request # NoRequest => StateSection(client.request)
=============================================================================
