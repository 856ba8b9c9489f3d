----------------------------- MODULE SlidingSync -----------------------------
(***************************************************************************)
(* Sliding sync, both versions: a client asks for a window of its rooms    *)
(* and for rooms it subscribes to, and the server remembers, per           *)
(* connection and in memory only, up to where it has sent each room. A     *)
(* request that its client gave up is still served to the end.             *)
(***************************************************************************)
EXTENDS Integers, Sequences, FiniteSets, FiniteSetsExt, SequencesExt

CONSTANTS Chat,           \* rooms: numbers, ordered as their IDs are
          Attempt,        \* requests that may be served at the same time
          MaxWindow,      \* the ranges asked for end here at the most
          Subscribable,   \* rooms subscribed to by themselves
          Connecting,     \* clients: the version they use, whether they name connections
          Kind,           \* what is written besides membership changes
          Moving,         \* rooms the client's user joins, leaves or is invited to
          TimelineLimit,  \* events of a room sent in one response
          MaxCount,       \* bound: numbers given out by the global counter
          MaxRows         \* bound: rows written

ASSUME SlidingSyncAssumption == Chat \subseteq Nat \ {0} /\ Subscribable \subseteq Chat /\ TimelineLimit \in Nat \ {0}

VARIABLES api,            \* the version the client uses: "v4" or "v5"
          conn_id,        \* whether it names its connection
          connection,     \* what the server remembers of it: NoConnection or a record
          current_count,  \* the global counter
          rows,           \* what was written: its number, and what it is
          todevice,       \* the to-device messages not acknowledged: their numbers
          membership,     \* of the client's user, by room
          client,         \* its position, what it has, the rooms of its last response
          attempt,        \* the requests being served
          lost            \* rooms known to the connection from a response that was given up

slidingSyncVars == <<api, conn_id, connection, current_count, rows, todevice, membership,
                     client, attempt, lost>>

NoConnection == [remembered |-> FALSE]
NoAttempt == [at |-> "idle"]
ListId == {"rooms", "subscriptions"}

\* A room that is not known, or no longer, has 0.
NothingKnown == [l \in ListId |-> [r \in Chat |-> 0]]
default == [remembered |-> TRUE, subscriptions |-> {}, known_rooms |-> NothingKnown]

idle_attempt(q) == attempt[q] = NoAttempt
at(q, where) == attempt[q].at = where
moves(q, changes) == attempt' = [attempt EXCEPT ![q] = changes @@ @]
written(kind, since, until) ==
    {w \in rows : w.what = kind /\ w.count > since /\ w.count <= until}

-----------------------------------------------------------------------------
(* service::sync, the connections.                                         *)

or_insert(c) == IF c.remembered THEN c ELSE default

\* What the client asked for earlier sticks; returns the connection, the rooms
\* subscribed to and those known. In v4 a connection without a name is not kept.
update_snake_sync_request_with_cache(c, subscriptions) ==
    LET cached == or_insert(c)
        all == cached.subscriptions \cup subscriptions
    IN [connection |-> [cached EXCEPT !.subscriptions = all], subscriptions |-> all,
        known_rooms |-> cached.known_rooms]

update_sync_request_with_cache(c, subscriptions) ==
    IF conn_id THEN update_snake_sync_request_with_cache(c, subscriptions)
    ELSE [connection |-> c, subscriptions |-> subscriptions, known_rooms |-> NothingKnown]

\* The rooms sent are known up to where the client said it was, not up to what it is sent
\* now: the response may be lost. Those that left the window are forgotten.
update_snake_sync_known_rooms_sent(c, list_id, new_cached_rooms, globalsince) ==
    [or_insert(c) EXCEPT !.known_rooms[list_id] =
        [r \in Chat |-> IF r \in new_cached_rooms THEN current_count ELSE 0]]
update_snake_sync_known_rooms(c, list_id, new_cached_rooms, globalsince) ==
    [or_insert(c) EXCEPT !.known_rooms[list_id] =
        [r \in Chat |-> IF r \in new_cached_rooms THEN globalsince ELSE 0]]

update_sync_known_rooms(c, list_id, new_cached_rooms, globalsince) ==
    [or_insert(c) EXCEPT !.known_rooms[list_id] =
        [r \in Chat |-> IF r \in new_cached_rooms THEN globalsince ELSE 0]]

update_sync_subscriptions(c, subscriptions) ==
    [or_insert(c) EXCEPT !.subscriptions = subscriptions]

-----------------------------------------------------------------------------
(* The rest of the server: rows are written.                               *)

writes(kind) ==
    /\ current_count < MaxCount /\ Cardinality(rows) < MaxRows
    /\ current_count' = current_count + 1
    /\ rows' = rows \cup {[count |-> current_count + 1, what |-> kind]}
    /\ todevice' = todevice \cup (IF kind = <<"to_device">> THEN {current_count + 1} ELSE {})
    /\ UNCHANGED <<api, conn_id, connection, client, attempt, lost>>

row_is_put(kind) == writes(kind) /\ UNCHANGED membership
membership_changes(r, m) ==
    /\ membership[r] # m
    /\ membership' = [membership EXCEPT ![r] = m]
    /\ writes(<<"timeline", r>>)

-----------------------------------------------------------------------------
(* The client.                                                             *)

given_up == UNION {attempt[q].fresh : q \in {p \in Attempt : at(p, "respond")}}

\* It sends a request from where it is; one still on its way is given up.
client_sends(q) ==
    /\ idle_attempt(q) /\ current_count < MaxCount
    /\ attempt' = [p \in Attempt |->
          IF p = q THEN [at |-> "request", wanted |-> TRUE, globalsince |-> client.pos]
          ELSE IF idle_attempt(p) THEN NoAttempt ELSE [wanted |-> FALSE] @@ attempt[p]]
    /\ lost' = lost \cup given_up
    /\ UNCHANGED <<api, conn_id, connection, current_count, rows, todevice, membership, client>>

\* Only what it decrypted, and with it the to-device messages, survives.
starts_over == [pos |-> 0, has |-> {w \in client.has : w.what = <<"to_device">>}, rooms |-> {}]

client_restarts ==
    /\ client.pos # 0
    /\ client' = starts_over
    /\ attempt' = [p \in Attempt |->
          IF idle_attempt(p) THEN NoAttempt ELSE [wanted |-> FALSE] @@ attempt[p]]
    /\ lost' = lost \cup given_up
    /\ UNCHANGED <<api, conn_id, connection, current_count, rows, todevice, membership>>

-----------------------------------------------------------------------------
(* The routes. A request is served in three steps. What it reads is read   *)
(* as early as it can be; the reads of the code may come later and then    *)
(* find more.                                                              *)

ordered(rooms) == SetToSortSeq(rooms, LAMBDA r, s : r < s)
rooms_with(m) == {r \in Chat : membership[r] = m}
all_rooms == ordered(rooms_with("join")) \o ordered(rooms_with("invite"))

collect_account_data(since) == written(<<"account_data">>, since, current_count)
collect_e2ee(since) == written(<<"keys">>, since, current_count)

\* To-device messages are removed once the client's position shows that it has them.
to_device_events(queue, since) ==
    {w \in rows : w.what = <<"to_device">> /\ w.count \in queue /\ w.count > since}
collect_to_device(since) ==
    LET left == {n \in todevice : n > since}
    IN [left |-> left, events |-> to_device_events(left, 0)]

extensions_v5(since) ==
    [collect_to_device(since) EXCEPT
        !.events = @ \cup collect_account_data(since) \cup collect_e2ee(since)]

extensions_v4(since) ==
    [left |-> {n \in todevice : n > since},
     events |-> to_device_events(todevice, since) \cup written(<<"account_data">>, since, current_count)
                \cup written(<<"keys">>, since, current_count)]

\* A position is refused unless the connection is remembered; without one the connection
\* is forgotten and begun anew.
begin(q, subscribed) ==
    LET since == attempt[q].globalsince
        cached == IF since = 0 THEN NoConnection ELSE connection
        refused == since # 0 /\ ~connection.remembered
        found == IF api = "v4" THEN extensions_v4(since) ELSE extensions_v5(since)
        updated == IF api = "v4" THEN update_sync_request_with_cache(cached, subscribed)
                   ELSE update_snake_sync_request_with_cache(cached, subscribed)
    IN /\ at(q, "request") /\ current_count < MaxCount
       /\ current_count' = current_count + 1
       /\ refused =>
            /\ attempt' = [attempt EXCEPT ![q] = NoAttempt]
            /\ client' = IF attempt[q].wanted THEN starts_over ELSE client
            /\ UNCHANGED <<connection, todevice, lost>>
       /\ ~refused =>
            /\ connection' = updated.connection
            /\ todevice' = found.left
            /\ moves(q, [at |-> "lists", next_batch |-> current_count + 1, found |-> found.events,
                         subscriptions |-> updated.subscriptions, known_rooms |-> updated.known_rooms,
                         all_rooms |-> all_rooms, invited |-> rooms_with("invite")])
            /\ lost' = IF since # 0 THEN lost
                       ELSE IF \E p \in Attempt : at(p, "lists") THEN Chat ELSE {}
            /\ UNCHANGED client
       /\ UNCHANGED <<api, conn_id, rows, membership>>

sync_events_v4_route(q, subscribed) == api = "v4" /\ begin(q, subscribed)
sync_events_v5_route(q, subscribed) == api = "v5" /\ begin(q, subscribed)

\* The rooms of a range: v4 includes its end, v5 does not.
window_v4(rooms, range) == ToSet(SubSeq(rooms, 1, Min({range, Len(rooms) - 1}) + 1))
window_v5(rooms, range) == ToSet(SubSeq(rooms, 1, Min({range, Len(rooms)})))

\* From where each room is sent: the least of what its lists know.
todo_rooms(a, window) ==
    [r \in window \cup a.subscriptions |->
        Min({a.known_rooms["rooms"][s] : s \in window \cap {r}}
            \cup {a.known_rooms["subscriptions"][s] : s \in a.subscriptions \cap {r}})]

handle_lists(a, range) == update_snake_sync_known_rooms(
    connection, "rooms", window_v5(a.all_rooms, range), a.globalsince)
fetch_subscriptions(c, a) ==
    update_snake_sync_known_rooms(c, "subscriptions", a.subscriptions, a.globalsince)

\* In v4 rooms can be unsubscribed from.
lists_v4(a, range) == update_sync_known_rooms(
    connection, "rooms", window_v4(a.all_rooms, range), a.globalsince)
subscriptions_v4(c, a, unsubscribed) ==
    LET kept == a.subscriptions \ unsubscribed
    IN update_sync_subscriptions(
           update_sync_known_rooms(c, "subscriptions", kept, a.globalsince), kept)

\* The newest events of a room; the client knows of a gap when there are more.
load_timeline(r, roomsince, until) ==
    LET all == written(<<"timeline", r>>, roomsince, until)
        newest == {w \in all : Cardinality({x \in all : x.count > w.count}) < TimelineLimit}
    IN IF newest = all THEN all ELSE written(<<"timeline", r>>, 0, until)

\* What is sent of a room. One the user is invited to has no timeline, and is limited.
process_rooms(a, todo) == UNION {
    written(<<"receipts", r>>, todo[r], current_count)
    \cup (IF r \in a.invited THEN written(<<"timeline", r>>, 0, a.next_batch)
          ELSE load_timeline(r, todo[r], a.next_batch)) : r \in DOMAIN todo}
rooms_v4(a, todo) == UNION {
    written(<<"receipts", r>>, todo[r], current_count)
    \cup (IF r \in a.invited THEN written(<<"timeline", r>>, 0, current_count)
          ELSE load_timeline(r, todo[r], current_count)) : r \in DOMAIN todo}

builds(q, todo, found, updated) ==
    LET fresh == {r \in DOMAIN todo : todo[r] = 0}
    IN /\ moves(q, [at |-> "respond", found |-> attempt[q].found \cup found, rooms |-> DOMAIN todo,
                    fresh |-> fresh])
       /\ connection' = IF conn_id THEN updated ELSE connection
       /\ lost' = IF attempt[q].wanted THEN lost ELSE lost \cup fresh
       /\ UNCHANGED <<api, conn_id, current_count, rows, todevice, membership, client>>

build_v4(q, range, unsubscribed) ==
    /\ api = "v4" /\ at(q, "lists")
    /\ LET a == attempt[q]
           todo == todo_rooms(a, window_v4(a.all_rooms, range))
       IN builds(q, todo, rooms_v4(a, todo), subscriptions_v4(lists_v4(a, range), a, unsubscribed))

build_v5(q, range) ==
    /\ api = "v5" /\ at(q, "lists")
    /\ LET a == attempt[q]
           todo == todo_rooms(a, window_v5(a.all_rooms, range))
       IN builds(q, todo, process_rooms(a, todo), fetch_subscriptions(handle_lists(a, range), a))

\* The response, at once or after waiting for a change, reaches the client if it is still
\* wanted. It is what was found before the wait.
respond(q) ==
    /\ at(q, "respond")
    /\ client' = IF attempt[q].wanted
                 THEN [pos |-> attempt[q].next_batch, has |-> client.has \cup attempt[q].found,
                       rooms |-> attempt[q].rooms]
                 ELSE client
    /\ attempt' = [attempt EXCEPT ![q] = NoAttempt]
    /\ UNCHANGED <<api, conn_id, connection, current_count, rows, todevice, membership, lost>>

\* A restart of the server ends the requests and forgets the connections.
server_restarts ==
    /\ connection # NoConnection
    /\ connection' = NoConnection
    /\ attempt' = [q \in Attempt |-> NoAttempt]
    /\ UNCHANGED <<api, conn_id, current_count, rows, todevice, membership, client, lost>>

-----------------------------------------------------------------------------
InitSlidingSyncOf(version, named) ==
    /\ api = version /\ conn_id = named
    /\ connection = NoConnection
    /\ current_count = 0 /\ rows = {} /\ todevice = {}
    /\ membership = [r \in Chat |-> IF r = 1 THEN "join" ELSE "leave"]
    /\ client = [pos |-> 0, has |-> {}, rooms |-> {}]
    /\ attempt = [q \in Attempt |-> NoAttempt]
    /\ lost = {}

InitSlidingSync == \E c \in Connecting : InitSlidingSyncOf(c[1], c[2])
IdleSlidingSync == InitSlidingSyncOf("v5", TRUE)

slidingSyncDone ==
    /\ current_count = MaxCount /\ UNCHANGED slidingSyncVars

NextSlidingSync ==
    \/ \E kind \in Kind : row_is_put(kind)
    \/ \E r \in Moving, m \in {"join", "invite", "leave"} : membership_changes(r, m)
    \/ client_restarts
    \/ server_restarts
    \/ \E q \in Attempt :
        \/ client_sends(q)
        \/ \E s \in SUBSET Subscribable :
             sync_events_v4_route(q, s) \/ sync_events_v5_route(q, s)
        \/ \E range \in 0 .. MaxWindow :
            \/ build_v5(q, range)
            \/ \E u \in SUBSET Subscribable : build_v4(q, range, u)
        \/ respond(q)
    \/ slidingSyncDone

SpecSlidingSync == InitSlidingSync /\ [][NextSlidingSync]_slidingSyncVars

-----------------------------------------------------------------------------
SlidingSyncTypeOK ==
    /\ todevice \subseteq {w.count : w \in rows}
    /\ client.has \subseteq rows /\ client.pos <= current_count
    /\ connection.remembered => \A l \in ListId, r \in Chat :
                                   connection.known_rooms[l][r] <= current_count

\* A client that stands at a position has everything written up to it: the to-device
\* messages, account data and key changes, and of the rooms of its last response the events
\* (or it was told of a gap) and receipts. This is what makes it right to send a room only
\* from where known_rooms has it, and to delete to-device messages up to globalsince, when
\* responses are lost, requests repeated and the connections forgotten. A request of an
\* earlier connection that is still being served when a new one begins may add its rooms
\* to the new one's known_rooms, and a room that a lost response was the first to hold is
\* known from then on; the property is about all other rooms.
NothingMissed ==
    client.pos # 0 =>
        \A w \in rows :
            /\ w.count <= client.pos
            /\ w.what \notin {<<k, r>> : k \in {"timeline", "receipts"}, r \in lost \cup (Chat \ client.rooms)}
            => w \in client.has
=============================================================================
