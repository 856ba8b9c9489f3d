----------------------------- MODULE Sync_proofs -----------------------------
(***************************************************************************)
(* What GET /sync promises a device, for any writers, requests, events,    *)
(* users typing and limits.  The first part is type correctness and what   *)
(* the steps do: the writers and the reads are reduced to what they do to  *)
(* the requests, the numbers, what is typed and the saved states           *)
(* (WriterFlow, ReadFlow).  With it, each invariant of Sync is kept by the *)
(* writers and the reads, and by the few steps that begin, answer or give  *)
(* up a request.                                                           *)
(***************************************************************************)
EXTENDS Sync, TLAPS

\* An answer without content has its type.
LEMMA EmptyAnswer == Nothing \in Answer
BY Zenon DEF Nothing, Answer

\* So has a request that was just made, and a free slot.
LEMMA FreshRequest ==
    ASSUME NEW since \in Nat, NEW full \in BOOLEAN
    PROVE  NewRequest(since, full) \in RequestState /\ [NewRequest(since, full) EXCEPT !.pc = "idle"] \in RequestState
BY Zenon, EmptyAnswer DEF NewRequest, RequestState

\* A writer with nothing to do has its type.
LEMMA IdleType == IdleWriter \in WriterState /\ IdleWriter.pc = "idle"
BY DEF IdleWriter, WriterState

\* The initial state has its types.
LEMMA InitType == Init => TypeOK
<1> SUFFICES ASSUME Init PROVE TypeOK
  OBVIOUS
<1>1. request \in [Request -> RequestState]
  BY Zenon, FreshRequest DEF Init
<1>2. writer \in [Writer -> WriterState]
  BY IdleType DEF Init
<1>3. client \in ClientState
  BY DEF Init, ClientState
<1> QED
  BY Zenon, <1>1, <1>2, <1>3, SyncAssumption, IdleType DEF Init, TypeOK, RoomState

\* Waking the requests that wait keeps their type.
LEMMA WakeType == TypeOK /\ wake => request' \in [Request -> RequestState]
BY SMTT(20) DEF TypeOK, wake, RequestState

\* A writer takes its number.
LEMMA NextCountType ==
    ASSUME TypeOK, NEW w \in Writer,
           NEW then \in {"put_todevice", "put_keychange", "put_account", "insert_incoming"},
           then = "insert_incoming" => writer[w].e \in Event,
           next_count(w, then)
    PROVE  /\ count' \in Nat /\ writer' \in [Writer -> WriterState]
           /\ \A u \in Writer : writer'[u].pc \in {"insert_local", "append_incoming", "insert_incoming"}
                                  => writer'[u].e \in Event
<1>0. count + 1 \in Nat /\ writer \in [Writer -> WriterState]
  BY DEF TypeOK
<1>1. count' \in Nat /\ writer' \in [Writer -> WriterState]
  <2>1. [writer[w] EXCEPT !.pc = then, !.n = count + 1] \in WriterState
    BY ZenonT(40), <1>0 DEF WriterState
  <2>2. /\ count' = count + 1
        /\ writer' = [writer EXCEPT ![w] = [writer[w] EXCEPT !.pc = then, !.n = count + 1]]
    BY ZenonT(20), Zenon DEF next_count
  <2> QED
    BY <1>0, <2>1, <2>2
<1>2. writer'[w].e = writer[w].e /\ writer'[w].pc = then
  BY DEF TypeOK, next_count, WriterState
<1>3. \A u \in Writer \ {w} : writer'[u] = writer[u]
  BY DEF TypeOK, next_count
<1>4. \A u \in Writer : writer[u].pc \in {"insert_local", "append_incoming", "insert_incoming"}
                         => writer[u].e \in Event
  BY ZenonT(20) DEF TypeOK
<1> QED
  BY <1>1, <1>2, <1>3, <1>4

\* What the steps of a writer leave alone, and what they do to the requests.
\* The steps of a writer keep the types.
LEMMA WriterType ==
    ASSUME TypeOK, NEW w \in Writer, WriterStep(w)
    PROVE  TypeOK'
<1> USE WakeType, IdleType DEF TypeOK, db, roomdb, typingdb, accountdb, bounds
<1>1. CASE put_todevice(w)
  BY ZenonT(40), <1>1 DEF put_todevice, WriterState
<1>2. CASE put_keychange(w)
  BY ZenonT(40), <1>2 DEF put_keychange, WriterState
<1>3. CASE put_account(w)
  BY ZenonT(40), <1>3 DEF put_account, WriterState
<1>4. CASE account_prev(w)
  BY ZenonT(40), <1>4 DEF account_prev, WriterState
<1>5. CASE put_account_id(w)
  BY ZenonT(40), <1>5 DEF put_account_id, WriterState
<1>6. CASE account_remove(w)
  BY Zenon, <1>6 DEF account_remove, WriterState
<1>7. CASE put_last_typing_update(w)
  BY <1>7 DEF put_last_typing_update, WriterState
<1>8. CASE insert_local(w)
  BY <1>8 DEF insert_local, WriterState
<1>9. CASE set_room_state(w)
  BY Zenon, <1>9 DEF set_room_state, WriterState, RoomState
<1>10. CASE append_incoming(w)
  <2>1. writer[w].e \in Event /\ next_count(w, "insert_incoming")
    BY Zenon, <1>10 DEF append_incoming
  <2> QED
    BY Zenon, <1>10, <2>1, NextCountType DEF append_incoming
<1>11. CASE insert_incoming(w)
  <2>1. writer[w].e \in Event /\ writer[w].n \in Nat
    BY Zenon, <1>11 DEF insert_incoming, WriterState
  <2>2. writer' \in [Writer -> WriterState]
    BY <1>11 DEF insert_incoming
  <2>3. state_mutex' \in BOOLEAN
    BY Zenon, <1>11 DEF insert_incoming
  <2> QED
    BY <1>11, <2>1, <2>2, <2>3 DEF insert_incoming
<1>12. CASE soft_fail(w)
  BY Zenon, <1>12 DEF soft_fail, WriterState
<1> QED
  BY Zenon, <1>1, <1>2, <1>3, <1>4, <1>5, <1>6, <1>7, <1>8, <1>9, <1>10, <1>11, <1>12 DEF WriterStep

\* So do the steps that begin a change.
LEMMA ChangeType ==
    ASSUME TypeOK, NEW w \in Writer, Change(w)
    PROVE  TypeOK'
<1> USE DEF TypeOK, db, roomdb, typingdb, accountdb, bounds, Begins
<1>1. CASE add_to_device_event(w)
  <2>1. next_count(w, "put_todevice") /\ ops' \in Nat /\ UNCHANGED <<streams, db, request, client, lost>>
    BY <1>1 DEF add_to_device_event
  <2> QED
    BY Zenon, <2>1, NextCountType
<1>2. CASE mark_device_key_update(w)
  <2>1. next_count(w, "put_keychange") /\ ops' \in Nat /\ UNCHANGED <<streams, db, request, client, lost>>
    BY <1>2 DEF mark_device_key_update
  <2> QED
    BY Zenon, <2>1, NextCountType
<1>3. CASE update_account_data(w)
  <2>1. next_count(w, "put_account") /\ ops' \in Nat /\ UNCHANGED <<streams, db, request, client, lost>>
    BY <1>3 DEF update_account_data
  <2> QED
    BY Zenon, <2>1, NextCountType
<1>4. ASSUME NEW u \in TypingUser, NEW v \in {"no", "typing"}, typing_set(w, u, v) PROVE TypeOK'
  BY <1>4 DEF typing_set, WriterState
<1>5. ASSUME NEW e \in Event, append_local(w, e) PROVE TypeOK'
  <2> DEFINE new == [IdleWriter EXCEPT !.pc = "insert_local", !.n = count + 1, !.e = e]
  <2>1. count + 1 \in Nat
    OBVIOUS
  <2>2. new \in WriterState /\ new.e \in Event
    BY Zenon, <2>1 DEF IdleWriter, WriterState
  <2>3. state_mutex' \in BOOLEAN /\ count' = count + 1 /\ writer' = [writer EXCEPT ![w] = new]
    BY <1>5 DEF append_local
  <2> HIDE DEF new
  <2> QED
    BY <1>5, <2>1, <2>2, <2>3 DEF append_local
<1>6. ASSUME NEW e \in Event, force_state(w, e) PROVE TypeOK'
  <2>1. [IdleWriter EXCEPT !.pc = "append_incoming", !.e = e] \in WriterState
    BY Zenon DEF IdleWriter, WriterState
  <2>2. [IdleWriter EXCEPT !.pc = "append_incoming", !.e = e].e \in Event
    BY DEF IdleWriter
  <2>3. state_mutex' \in BOOLEAN
    BY <1>6 DEF force_state
  <2>4. room_state' \in RoomState
    BY <1>6, SyncAssumption DEF force_state, RoomState
  <2> QED
    BY <1>6, <2>1, <2>2, <2>3, <2>4 DEF force_state
<1> QED
  BY Zenon, <1>1, <1>2, <1>3, <1>4, <1>5, <1>6 DEF Change, typing_add, typing_remove

\* What is saved under a token is a state, or there is none.
LEMMA SavedType == TypeOK => \A n \in Nat : Saved(n) \in RoomState \cup {NoState}
BY DEF TypeOK, Saved

\* The fields of an answer.
AnswerField == {"timeline", "state", "since_state", "todevice", "keys", "account", "expired", "typing"}

\* One field of an answer is set.
Sets(got, new, f, v) ==
    new \in Answer /\ new[f] = v /\ \A g \in AnswerField \ {f} : new[g] = got[g]

\* Setting one field of an answer makes an answer that is the same in the others.
LEMMA SetField ==
    ASSUME NEW got \in Answer, NEW ns \in SUBSET Nat, NEW s \in RoomState \cup {NoState},
           NEW us \in SUBSET TypingUser
    PROVE  /\ Sets(got, [got EXCEPT !.timeline = ns], "timeline", ns)
           /\ Sets(got, [got EXCEPT !.state = s], "state", s)
           /\ Sets(got, [got EXCEPT !.since_state = s], "since_state", s)
           /\ Sets(got, [got EXCEPT !.todevice = ns], "todevice", ns)
           /\ Sets(got, [got EXCEPT !.keys = ns], "keys", ns)
           /\ Sets(got, [got EXCEPT !.account = ns], "account", ns)
           /\ Sets(got, [got EXCEPT !.expired = us], "expired", us)
           /\ Sets(got, [got EXCEPT !.typing = {us}], "typing", {us})
BY ZenonT(40) DEF Answer, AnswerField, Sets

\* What reading a part does to the request: then is still to be read, and only the fields F
\* of the answer may change.
Reading(q, part, then, F) ==
    /\ request[q].pc = "read" /\ part \in request[q].todo
    /\ request'[q].todo = (request[q].todo \ {part}) \cup then
    /\ \A f \in AnswerField \ F : request'[q].got[f] = request[q].got[f]
    /\ request'[q].pc = "read" /\ request'[q].since = request[q].since
    /\ request'[q].next_batch = request[q].next_batch

\* Got, for an answer in which only the fields F differ.
LEMMA GotEffect ==
    ASSUME TypeOK, NEW q \in Request, NEW part, NEW got \in Answer, NEW then \in SUBSET Part,
           Got(q, part, got, then), Reads(q, part)
    PROVE  /\ request' \in [Request -> RequestState]
           /\ request'[q].todo = (request[q].todo \ {part}) \cup then
           /\ request'[q].got = got
           /\ request'[q].pc = "read" /\ request'[q].since = request[q].since
           /\ request'[q].next_batch = request[q].next_batch
           /\ \A r \in Request \ {q} : request'[r] = request[r]
<1> DEFINE new == [request[q] EXCEPT !.todo = (request[q].todo \ {part}) \cup then, !.got = got]
<1>1. request[q] \in RequestState
  BY DEF TypeOK
<1>2. /\ new \in RequestState /\ new.todo = (request[q].todo \ {part}) \cup then /\ new.got = got
      /\ new.pc = request[q].pc /\ new.since = request[q].since /\ new.next_batch = request[q].next_batch
  BY Zenon, <1>1 DEF RequestState
<1>3. request' = [request EXCEPT ![q] = new]
  BY Zenon, <1>1 DEF Got, RequestState, TypeOK
<1> HIDE DEF new
<1> QED
  BY <1>2, <1>3 DEF TypeOK, Reads

\* A request is left alone, or woken.
Waken(r) == \/ request'[r] = request[r]
            \/ /\ request[r].pc = "wait" /\ request'[r].pc = "woken"
               /\ request'[r].since = request[r].since /\ request'[r].next_batch = request[r].next_batch
               /\ request'[r].todo = request[r].todo /\ request'[r].got = request[r].got

\* What is typed, and its number, stay.
TypingSame == UNCHANGED <<typing_users, last_typing_update>>

\* What reading a part leaves alone, and what it may change.
ReadFrame(q) ==
    /\ UNCHANGED <<streams, client, lost, writer>> /\ count' >= count
    /\ \A r \in Request \ {q} : Waken(r)
    /\ \/ UNCHANGED tokens
       \/ Reading(q, "associate", {}, {}) /\ Saves(request[q].next_batch, request[q].got.state)
    /\ \/ TypingSame
       \/ /\ Reading(q, "maintain_remove", {"last_typing"}, {})
          /\ count' = count + 1 /\ last_typing_update' = count + 1
    /\ todeviceid_events \ todeviceid_events' \subseteq 0 .. request[q].since

\* The ways a request reads a part of its answer.
ReadFlow(q) ==
    /\ ReadFrame(q)
    /\ \/ \E f \in {"timeline", "todevice", "keys", "account"} :
             Reading(q, f, {}, {f}) /\ request'[q].got[f] \subseteq Window(q, Nat)
       \/ Reading(q, "state", {}, {"state"})
       \/ Reading(q, "since_state", {}, {"since_state"})
             /\ request'[q].got.since_state = Saved(request[q].since)
       \/ Reading(q, "associate", {}, {}) /\ request[q].todo \cap {"state", "since_state"} = {}
             /\ Saves(request[q].next_batch, request[q].got.state)
       \/ Reading(q, "remove_todevice", {}, {})
       \/ \E next \in {"last_typing", "maintain_remove"} : Reading(q, "maintain", {next}, {"expired"})
       \/ Reading(q, "maintain_remove", {"last_typing"}, {}) /\ last_typing_update' = count + 1
       \/ Reading(q, "last_typing", IF last_typing_update > request[q].since THEN {"typings_all"} ELSE {}, {})
       \/ Reading(q, "typings_all", {}, {"typing"}) /\ request'[q].got.typing = {typing_users}

\* Every step that reads a part is one of the ways of ReadFlow, and keeps the types.
LEMMA ReadEffect ==
    ASSUME TypeOK, NEW q \in Request, ReadStep(q)
    PROVE  TypeOK' /\ ReadFlow(q)
<1> DEFINE same == <<streams, count, db, writer, client, bounds>>
<1>0. request[q].got \in Answer /\ count \in Nat
  BY DEF TypeOK, RequestState
<1>same. ASSUME UNCHANGED <<streams, count, db, writer, client, bounds>>,
                NEW part, NEW got \in Answer, NEW then \in SUBSET Part, Got(q, part, got, then), Reads(q, part)
         PROVE  /\ TypeOK' /\ request'[q].got = got /\ ReadFrame(q)
                /\ \A F : (\A f \in AnswerField \ F : got[f] = request[q].got[f]) => Reading(q, part, then, F)
  <2>1. UNCHANGED <<streams, client, lost, writer, tokens, todeviceid_events>> /\ TypingSame /\ count' = count
    BY <1>same DEF db, bounds, TypingSame, typing_users
  <2>2. TypeOK'
    BY Zenon, <1>same, GotEffect DEF TypeOK, db, bounds
  <2>3. \A r \in Request \ {q} : Waken(r)
    BY Zenon, <1>same, GotEffect DEF Waken
  <2>4. ReadFrame(q)
    BY <1>0, <2>1, <2>3 DEF ReadFrame
  <2> QED
    BY <1>same, <2>2, <2>4, GotEffect DEF Reading, Reads
<1>1. CASE load_timeline(q)
  <2> DEFINE v == LET ns == Window(q, {p[1] : p \in timeline}) IN {n \in ns : Cardinality({m \in ns : m > n}) < Limit}
             got == [request[q].got EXCEPT !.timeline = v]
  <2>1. v \in SUBSET Nat /\ v \subseteq Window(q, Nat)
    BY DEF Window, TypeOK
  <2>2. Got(q, "timeline", got, {}) /\ Reads(q, "timeline") /\ UNCHANGED same
    BY <1>1 DEF load_timeline
  <2> HIDE DEF v
  <2>3. Sets(request[q].got, got, "timeline", v)
    BY Zenon, <1>0, <2>1, SetField
  <2> HIDE DEF got
  <2>4. TypeOK' /\ ReadFrame(q) /\ Reading(q, "timeline", {}, {"timeline"}) /\ request'[q].got = got
    BY <1>same, <2>2, <2>3 DEF Sets
  <2>5. request'[q].got["timeline"] = v
    BY Zenon, <2>3, <2>4 DEF Sets
  <2> QED
    BY Zenon, <2>1, <2>4, <2>5 DEF ReadFlow, v
<1>2. CASE get_to_device_events(q)
  <2> DEFINE v == Window(q, todeviceid_events)
             got == [request[q].got EXCEPT !.todevice = v]
  <2>1. v \in SUBSET Nat /\ v \subseteq Window(q, Nat)
    BY DEF Window, TypeOK
  <2>2. Got(q, "todevice", got, {}) /\ Reads(q, "todevice") /\ UNCHANGED same
    BY <1>2 DEF get_to_device_events
  <2> HIDE DEF v
  <2>3. Sets(request[q].got, got, "todevice", v)
    BY Zenon, <1>0, <2>1, SetField
  <2> HIDE DEF got
  <2>4. TypeOK' /\ ReadFrame(q) /\ Reading(q, "todevice", {}, {"todevice"}) /\ request'[q].got = got
    BY <1>same, <2>2, <2>3 DEF Sets
  <2>5. request'[q].got["todevice"] = v
    BY Zenon, <2>3, <2>4 DEF Sets
  <2> QED
    BY Zenon, <2>1, <2>4, <2>5 DEF ReadFlow, v
<1>3. CASE keys_changed(q)
  <2> DEFINE v == Window(q, keychangeid_userid)
             got == [request[q].got EXCEPT !.keys = v]
  <2>1. v \in SUBSET Nat /\ v \subseteq Window(q, Nat)
    BY DEF Window, TypeOK
  <2>2. Got(q, "keys", got, {}) /\ Reads(q, "keys") /\ UNCHANGED same
    BY <1>3 DEF keys_changed
  <2> HIDE DEF v
  <2>3. Sets(request[q].got, got, "keys", v)
    BY Zenon, <1>0, <2>1, SetField
  <2> HIDE DEF got
  <2>4. TypeOK' /\ ReadFrame(q) /\ Reading(q, "keys", {}, {"keys"}) /\ request'[q].got = got
    BY <1>same, <2>2, <2>3 DEF Sets
  <2>5. request'[q].got["keys"] = v
    BY Zenon, <2>3, <2>4 DEF Sets
  <2> QED
    BY Zenon, <2>1, <2>4, <2>5 DEF ReadFlow, v
<1>4. CASE changes_since(q)
  <2> DEFINE v == Window(q, accountdata)
             got == [request[q].got EXCEPT !.account = v]
  <2>1. v \in SUBSET Nat /\ v \subseteq Window(q, Nat)
    BY DEF Window, TypeOK
  <2>2. Got(q, "account", got, {}) /\ Reads(q, "account") /\ UNCHANGED same
    BY <1>4 DEF changes_since
  <2> HIDE DEF v
  <2>3. Sets(request[q].got, got, "account", v)
    BY Zenon, <1>0, <2>1, SetField
  <2> HIDE DEF got
  <2>4. TypeOK' /\ ReadFrame(q) /\ Reading(q, "account", {}, {"account"}) /\ request'[q].got = got
    BY <1>same, <2>2, <2>3 DEF Sets
  <2>5. request'[q].got["account"] = v
    BY Zenon, <2>3, <2>4 DEF Sets
  <2> QED
    BY Zenon, <2>1, <2>4, <2>5 DEF ReadFlow, v
<1>5. CASE current_shortstatehash(q)
  <2> DEFINE v == room_state
             got == [request[q].got EXCEPT !.state = v]
  <2>1. v \in RoomState
    BY DEF TypeOK
  <2>2. Got(q, "state", got, {}) /\ Reads(q, "state") /\ UNCHANGED same
    BY <1>5 DEF current_shortstatehash
  <2> HIDE DEF v
  <2>3. Sets(request[q].got, got, "state", v)
    BY Zenon, <1>0, <2>1, SetField
  <2> HIDE DEF got
  <2>4. TypeOK' /\ ReadFrame(q) /\ Reading(q, "state", {}, {"state"}) /\ request'[q].got = got
    BY <1>same, <2>2, <2>3 DEF Sets
  <2>5. request'[q].got["state"] = v
    BY Zenon, <2>3, <2>4 DEF Sets
  <2> QED
    BY Zenon, <2>1, <2>4, <2>5 DEF ReadFlow, v
<1>6. CASE get_token_shortstatehash(q)
  <2> DEFINE v == Saved(request[q].since)
             got == [request[q].got EXCEPT !.since_state = v]
  <2>1. v \in RoomState \cup {NoState}
    BY Zenon, SavedType DEF TypeOK, RequestState
  <2>2. Got(q, "since_state", got, {}) /\ Reads(q, "since_state") /\ UNCHANGED same
    BY <1>6 DEF get_token_shortstatehash
  <2> HIDE DEF v
  <2>3. Sets(request[q].got, got, "since_state", v)
    BY Zenon, <1>0, <2>1, SetField
  <2> HIDE DEF got
  <2>4. TypeOK' /\ ReadFrame(q) /\ Reading(q, "since_state", {}, {"since_state"}) /\ request'[q].got = got
    BY <1>same, <2>2, <2>3 DEF Sets
  <2>5. request'[q].got["since_state"] = v
    BY Zenon, <2>3, <2>4 DEF Sets
  <2> QED
    BY Zenon, <2>1, <2>4, <2>5 DEF ReadFlow, v
<1>7. CASE typings_all(q)
  <2> DEFINE v == typing_users
             got == [request[q].got EXCEPT !.typing = {v}]
  <2>1. v \in SUBSET TypingUser
    BY DEF typing_users
  <2>2. Got(q, "typings_all", got, {}) /\ Reads(q, "typings_all") /\ UNCHANGED same
    BY <1>7 DEF typings_all
  <2> HIDE DEF v
  <2>3. Sets(request[q].got, got, "typing", {v})
    BY Zenon, <1>0, <2>1, SetField
  <2> HIDE DEF got
  <2>4. TypeOK' /\ ReadFrame(q) /\ Reading(q, "typings_all", {}, {"typing"}) /\ request'[q].got = got
    BY <1>same, <2>2, <2>3 DEF Sets
  <2>5. request'[q].got["typing"] = {v}
    BY Zenon, <2>3, <2>4 DEF Sets
  <2> QED
    BY Zenon, <2>1, <2>4, <2>5 DEF ReadFlow, v
<1>8. CASE typings_maintain(q)
  <2> DEFINE expired == {u \in TypingUser : typing[u] = "expired"}
             got == [request[q].got EXCEPT !.expired = expired]
  <2>1. PICK next \in {"last_typing", "maintain_remove"} :
           Got(q, "maintain", got, {next}) /\ Reads(q, "maintain") /\ UNCHANGED same
    BY <1>8 DEF typings_maintain
  <2>2. {next} \in SUBSET Part /\ expired \in SUBSET TypingUser
    BY <2>1 DEF Part
  <2> HIDE DEF expired
  <2>3. Sets(request[q].got, got, "expired", expired)
    BY Zenon, <1>0, <2>2, SetField
  <2> HIDE DEF got
  <2>4. TypeOK' /\ ReadFrame(q) /\ Reading(q, "maintain", {next}, {"expired"})
    BY Zenon, <1>same, <2>1, <2>2, <2>3 DEF Sets
  <2> QED
    BY Zenon, <2>1, <2>4 DEF ReadFlow
<1>9. CASE last_typing_update_since(q)
  <2> DEFINE then == IF last_typing_update > request[q].since THEN {"typings_all"} ELSE {}
  <2>1. then \in SUBSET Part
    BY DEF Part
  <2>2. Got(q, "last_typing", request[q].got, then) /\ Reads(q, "last_typing") /\ UNCHANGED same
    BY ZenonT(20), <1>9 DEF last_typing_update_since
  <2> QED
    BY Zenon, <1>0, <1>same, <2>1, <2>2 DEF ReadFlow
<1>10. CASE associate_token_shortstatehash(q)
  <2>1. /\ Got(q, "associate", request[q].got, {}) /\ Reads(q, "associate")
        /\ request[q].todo \cap {"state", "since_state"} = {}
        /\ Saves(request[q].next_batch, request[q].got.state)
        /\ UNCHANGED <<streams, count, client, lost, writer, todeviceid_events, typing, last_typing_update>>
    BY Zenon, <1>10 DEF associate_token_shortstatehash, typingdb, bounds
  <2>2. DOMAIN tokens' \subseteq Nat /\ tokens' \in [DOMAIN tokens' -> RoomState \cup {NoState}]
    BY <1>0, <2>1 DEF Saves, TypeOK, RequestState, Answer
  <2>3. TypeOK'
    BY ZenonT(20), <1>0, <1>10, <2>1, <2>2, GotEffect DEF associate_token_shortstatehash, TypeOK, roomdb,
       accountdb, typingdb, bounds
  <2>4. Reading(q, "associate", {}, {}) /\ \A r \in Request \ {q} : Waken(r)
    <3>1. request[q].got \in Answer /\ {} \in SUBSET Part
      BY Zenon, <1>0 DEF TypeOK, RequestState
    <3>2. /\ request'[q].todo = (request[q].todo \ {"associate"}) \cup {} /\ request'[q].got = request[q].got
          /\ request'[q].pc = "read" /\ request'[q].since = request[q].since
          /\ request'[q].next_batch = request[q].next_batch
          /\ \A r \in Request \ {q} : request'[r] = request[r]
      BY SMTT(20), <1>0, <2>1, <3>1, GotEffect
    <3> QED
      BY Zenon, <2>1, <3>2 DEF Reading, Reads, Waken
  <2> QED
    BY SMTT(20), <1>0, <2>1, <2>3, <2>4 DEF ReadFlow, ReadFrame, TypingSame, typing_users
<1>11. CASE remove_to_device_events(q)
  <2>1. /\ Got(q, "remove_todevice", request[q].got, {}) /\ Reads(q, "remove_todevice")
        /\ todeviceid_events' = {n \in todeviceid_events : n > request[q].since}
        /\ UNCHANGED <<streams, count, client, lost, writer, tokens, typing, last_typing_update>>
    BY Zenon, <1>11 DEF remove_to_device_events, typingdb, roomdb, bounds
  <2>2. TypeOK'
    BY SMTT(20), <1>0, <1>11, <2>1, GotEffect DEF remove_to_device_events, TypeOK, roomdb, accountdb,
       typingdb, bounds
  <2>3. Reading(q, "remove_todevice", {}, {}) /\ \A r \in Request \ {q} : Waken(r)
    <3>1. Got(q, "remove_todevice", request[q].got, {}) /\ Reads(q, "remove_todevice")
      BY <2>1
    <3> QED
      BY SMTT(20), <1>0, <3>1, GotEffect DEF Reading, Reads, Waken
  <2>4. todeviceid_events \ todeviceid_events' \subseteq 0 .. request[q].since
    BY <2>1 DEF TypeOK, RequestState
  <2> QED
    BY SMTT(20), <1>0, <2>1, <2>2, <2>3, <2>4 DEF ReadFlow, ReadFrame, TypingSame, typing_users
<1>12. CASE typings_maintain_remove(q)
  <2> DEFINE new == [request[q] EXCEPT !.todo = (request[q].todo \ {"maintain_remove"}) \cup {"last_typing"}]
             woken(r) == [request[r] EXCEPT !.pc = "woken"]
  <2>1. /\ Reads(q, "maintain_remove") /\ count' = count + 1 /\ last_typing_update' = count + 1
        /\ typing' = [u \in TypingUser |-> IF u \in request[q].got.expired THEN "no" ELSE typing[u]]
        /\ request' = [r \in Request |-> IF r = q THEN new
                         ELSE IF request[r].pc = "wait" THEN woken(r) ELSE request[r]]
        /\ UNCHANGED <<streams, roomdb, todeviceid_events, keychangeid_userid, accountdb, writer, client, bounds>>
    BY Zenon, <1>12 DEF typings_maintain_remove
  <2>2. \A r \in Request : request[r] \in RequestState
    BY DEF TypeOK
  <2>3. /\ new \in RequestState /\ new.todo = (request[q].todo \ {"maintain_remove"}) \cup {"last_typing"}
        /\ new.got = request[q].got /\ new.pc = request[q].pc /\ new.since = request[q].since
        /\ new.next_batch = request[q].next_batch
    BY <2>2 DEF RequestState, Part
  <2>4. ASSUME NEW r \in Request
        PROVE  /\ woken(r) \in RequestState /\ woken(r).pc = "woken" /\ woken(r).got = request[r].got
               /\ woken(r).since = request[r].since /\ woken(r).todo = request[r].todo
               /\ woken(r).next_batch = request[r].next_batch
    BY ZenonT(20), <2>2 DEF RequestState
  <2> HIDE DEF new, woken
  <2>5. request' \in [Request -> RequestState]
    BY Zenon, <2>1, <2>2, <2>3, <2>4
  <2>6. typing' \in [TypingUser -> {"no", "typing", "expired"}]
    BY Zenon, <2>1 DEF TypeOK
  <2>7. TypeOK'
    BY <1>0, <2>1, <2>5, <2>6 DEF TypeOK, roomdb, accountdb, bounds
  <2>8. Reading(q, "maintain_remove", {"last_typing"}, {}) /\ \A r \in Request \ {q} : Waken(r)
    BY Zenon, <2>1, <2>3, <2>4 DEF Reading, Reads, Waken
  <2> QED
    BY SMTT(20), <1>0, <2>1, <2>7, <2>8 DEF ReadFlow, ReadFrame, roomdb, bounds
<1> QED
  BY <1>1, <1>2, <1>3, <1>4, <1>5, <1>6, <1>7, <1>8, <1>9, <1>10, <1>11, <1>12 DEF ReadStep

\* The fields of a request that its steps after reading do not change.
SameAnswer(q) ==
    /\ request'[q].since = request[q].since /\ request'[q].next_batch = request[q].next_batch
    /\ request'[q].todo = request[q].todo /\ request'[q].got = request[q].got

\* build_sync_events starts over with an empty answer and all parts to read.
LEMMA BuildEffect ==
    ASSUME TypeOK, NEW q \in Request, build_sync_events(q)
    PROVE  /\ TypeOK' /\ request[q].pc \in {"start", "again"}
           /\ UNCHANGED <<streams, count, db, writer, client, bounds>>
           /\ request'[q].pc = "read" /\ request'[q].since = request[q].since
           /\ request'[q].next_batch = count /\ request'[q].todo = Parts /\ request'[q].got = Nothing
           /\ \A r \in Request \ {q} : request'[r] = request[r]
<1> DEFINE new == [request[q] EXCEPT !.pc = "read", !.retry = (request[q].pc = "again"),
                      !.next_batch = count, !.todo = Parts, !.got = Nothing]
<1>1. request[q] \in RequestState /\ count \in Nat
  BY DEF TypeOK
<1>2. Parts \in SUBSET Part
  BY DEF Parts, Part
<1>3. /\ new \in RequestState /\ new.pc = "read" /\ new.since = request[q].since
      /\ new.next_batch = count /\ new.todo = Parts /\ new.got = Nothing
  BY Zenon, <1>1, <1>2, EmptyAnswer DEF RequestState
<1>4. request' = [request EXCEPT ![q] = new]
  BY DEF build_sync_events
<1> HIDE DEF new
<1>5. request' \in [Request -> RequestState] /\ UNCHANGED <<streams, count, db, writer, client, bounds>>
  BY <1>3, <1>4 DEF build_sync_events, TypeOK
<1>6. TypeOK'
  BY Zenon, <1>5 DEF TypeOK, db, bounds
<1> QED
  BY Zenon, <1>3, <1>4, <1>5, <1>6 DEF build_sync_events, TypeOK

\* The steps that change the program counter alone.
LEMMA MoveEffect ==
    ASSUME TypeOK, NEW q \in Request, NEW to \in {"watch", "wait", "again", "respond"},
           request' = [request EXCEPT ![q].pc = to],
           UNCHANGED <<streams, count, db, writer, client, bounds>>
    PROVE  /\ TypeOK' /\ request'[q].pc = to /\ SameAnswer(q)
           /\ \A r \in Request \ {q} : request'[r] = request[r]
<1>1. request[q] \in RequestState
  BY DEF TypeOK
<1>2. request' \in [Request -> RequestState]
  BY DEF TypeOK, RequestState
<1>3. TypeOK'
  BY <1>2 DEF TypeOK, db, bounds
<1> QED
  BY Zenon, <1>1, <1>3 DEF TypeOK, SameAnswer, RequestState

\* sync_events_route fills a free slot with the device's token.
LEMMA RouteEffect ==
    ASSUME TypeOK, NEW q \in Request, NEW full \in BOOLEAN, sync_events_route(q, full)
    PROVE  /\ TypeOK' /\ client.request = NoRequest /\ request[q].pc = "idle"
           /\ UNCHANGED <<streams, count, db, writer, bounds>>
           /\ request'[q].pc = "start" /\ request'[q].since = client.token
           /\ request'[q].todo = {} /\ request'[q].got = Nothing
           /\ \A r \in Request \ {q} : request'[r] = request[r]
           /\ client'.request = q /\ client' = [client EXCEPT !.request = q]
<1>1. client \in ClientState /\ client.token \in Nat
  BY Zenon DEF TypeOK, ClientState
<1>2. /\ NewRequest(client.token, full) \in RequestState
      /\ NewRequest(client.token, full).pc = "start" /\ NewRequest(client.token, full).since = client.token
      /\ NewRequest(client.token, full).todo = {} /\ NewRequest(client.token, full).got = Nothing
  BY Zenon, <1>1, FreshRequest DEF NewRequest
<1>3. /\ client.request = NoRequest /\ request[q].pc = "idle"
      /\ request' = [request EXCEPT ![q] = NewRequest(client.token, full)]
      /\ client' = [client EXCEPT !.request = q]
      /\ UNCHANGED <<streams, count, db, writer, bounds>>
  BY DEF sync_events_route
<1>4. client' \in ClientState /\ client'.request = q
  BY <1>1, <1>3 DEF ClientState
<1>5. TypeOK'
  BY <1>2, <1>3, <1>4 DEF TypeOK, db, bounds
<1> QED
  BY <1>2, <1>3, <1>4, <1>5 DEF TypeOK

\* What a new sync request leaves as it was: the streams, the other requests and the client's token.
LEMMA RouteFrame ==
    ASSUME TypeOK, NEW q \in Request, NEW full \in BOOLEAN, sync_events_route(q, full)
    PROVE  /\ count' = count /\ last_typing_update' = last_typing_update /\ client'.request = q
           /\ request'[q].pc = "start" /\ request'[q].since = client.token /\ request'[q].todo = {}
           /\ request'[q].got = Nothing /\ \A r \in Request \ {q} : request'[r] = request[r]
           /\ client'.token = client.token /\ Has(client') = Has(client)
<1>1. UNCHANGED <<streams, count, db, writer, bounds>> /\ client' = [client EXCEPT !.request = q]
  BY Zenon, RouteEffect
<1>2. last_typing_update' = last_typing_update
  BY Zenon, <1>1 DEF db
<1>3. client \in ClientState
  BY Zenon DEF TypeOK
<1>4. client'.token = client.token /\ Has(client') = Has(client)
  BY <1>1, <1>3 DEF ClientState, Has
<1> QED
  BY <1>1, <1>2, <1>4, RouteEffect

\* Giving up changes what the device waits for and is counted.
LEMMA GiveUpEffect ==
    ASSUME TypeOK, NEW q \in Request, give_up(q)
    PROVE  /\ TypeOK' /\ client.request = q /\ lost' = lost + 1
           /\ client' = [client EXCEPT !.request = NoRequest]
           /\ UNCHANGED <<streams, count, db, writer, request, ops>>
<1>1. client' \in ClientState
  BY ZenonT(20) DEF give_up, TypeOK, ClientState
<1> QED
  BY <1>1 DEF give_up, TypeOK, db

\* respond frees the slot, and is taken in if the device waits for it.
LEMMA RespondEffect ==
    ASSUME TypeOK, NEW q \in Request, respond(q)
    PROVE  /\ TypeOK' /\ request[q].pc = "respond" /\ UNCHANGED <<streams, count, db, writer, bounds>>
           /\ request'[q].pc = "idle" /\ request'[q].since = 0
           /\ request'[q].todo = {} /\ request'[q].got = Nothing
           /\ \A r \in Request \ {q} : request'[r] = request[r]
           /\ client.request # q => client' = client
           /\ client.request = q =>
                 /\ client'.request = NoRequest /\ client'.token = request[q].next_batch
                 /\ client'.state = IF SendsState(q) THEN request[q].got.state ELSE client.state
                 /\ client'.users = IF request[q].got.typing = {} THEN client.users
                                    ELSE UNION request[q].got.typing
                 /\ client'.todevice = client.todevice \cup request[q].got.todevice
                 /\ client'.keys = client.keys \cup request[q].got.keys
                 /\ client'.account = client.account \cup request[q].got.account
                 /\ client'.timeline = client.timeline \cup request[q].got.timeline
<1> DEFINE new == [NewRequest(0, FALSE) EXCEPT !.pc = "idle"]
<1>1. /\ new \in RequestState /\ new.pc = "idle" /\ new.since = 0 /\ new.todo = {} /\ new.got = Nothing
  BY Zenon, FreshRequest DEF NewRequest
<1>2. /\ request[q].pc = "respond" /\ UNCHANGED <<streams, count, db, writer, bounds>>
      /\ request' = [request EXCEPT ![q] = new]
  BY DEF respond
<1>3. client \in ClientState /\ request[q].next_batch \in Nat /\ request[q].got \in Answer
  BY Zenon DEF TypeOK, RequestState
<1> HIDE DEF new
<1>4. ASSUME client.request = q
      PROVE  /\ client' \in ClientState
             /\ client'.request = NoRequest /\ client'.token = request[q].next_batch
             /\ client'.state = IF SendsState(q) THEN request[q].got.state ELSE client.state
             /\ client'.users = IF request[q].got.typing = {} THEN client.users
                                ELSE UNION request[q].got.typing
             /\ client'.todevice = client.todevice \cup request[q].got.todevice
             /\ client'.keys = client.keys \cup request[q].got.keys
             /\ client'.account = client.account \cup request[q].got.account
             /\ client'.timeline = client.timeline \cup request[q].got.timeline
  <2> DEFINE got == request[q].got
             state == IF SendsState(q) THEN got.state ELSE client.state
             users == IF got.typing = {} THEN client.users ELSE UNION got.typing
  <2>1. client' = [client EXCEPT !.request = NoRequest, !.token = request[q].next_batch,
                      !.state = state, !.users = users,
                      !.todevice = client.todevice \cup got.todevice, !.keys = client.keys \cup got.keys,
                      !.account = client.account \cup got.account, !.timeline = client.timeline \cup got.timeline]
    BY <1>3, <1>4 DEF respond, ClientState
  <2>2. state \in RoomState \cup {NoState} /\ users \in SUBSET TypingUser
    BY Zenon, <1>3 DEF ClientState, Answer
  <2>3. {got.todevice, got.keys, got.account, got.timeline} \subseteq SUBSET Nat
    BY Zenon, <1>3 DEF Answer
  <2> HIDE DEF state, users
  <2>4. /\ client' \in ClientState /\ client'.request = NoRequest /\ client'.token = request[q].next_batch
        /\ client'.state = state /\ client'.users = users
        /\ client'.todevice = client.todevice \cup got.todevice
        /\ client'.keys = client.keys \cup got.keys
        /\ client'.account = client.account \cup got.account
        /\ client'.timeline = client.timeline \cup got.timeline
    BY ZenonT(40), <1>3, <2>1, <2>2, <2>3 DEF ClientState
  <2> QED
    BY Zenon, <2>4 DEF state, users
<1>5. client.request # q => client' = client
  BY DEF respond
<1>6. TypeOK'
  BY Zenon, <1>1, <1>2, <1>3, <1>4, <1>5 DEF TypeOK, db, bounds
<1> QED
  BY Zenon, <1>1, <1>2, <1>4, <1>5, <1>6 DEF TypeOK

\* What the writers leave alone, and how they change what is typed.
WriterFlow ==
    /\ UNCHANGED <<streams, tokens, client, lost>> /\ count' >= count
    /\ \A r \in Request : Waken(r)
    /\ todeviceid_events \subseteq todeviceid_events'
    /\ \/ TypingSame /\ (TypingSettled' <=> TypingSettled)
       \/ "typing" \in streams /\ ~TypingSettled' /\ last_typing_update' = last_typing_update
       \/ ~TypingSettled /\ count' = count + 1 /\ last_typing_update' = count + 1

\* wake leaves every request alone, or wakes it.
LEMMA WakeEffect == TypeOK /\ wake => \A r \in Request : Waken(r)
BY DEF TypeOK, wake, Waken, RequestState

\* A writer that is not at work on what is typed.
LEMMA SettledSame ==
    ASSUME TypeOK, NEW w \in Writer, writer[w].pc # "last_typing_update", writer'[w].pc # "last_typing_update",
           \A u \in Writer \ {w} : writer'[u] = writer[u]
    PROVE  TypingSettled' <=> TypingSettled
BY DEF TypingSettled

\* The steps of a writer are steps of WriterFlow.
LEMMA WriterEffect ==
    ASSUME TypeOK, NEW w \in Writer, WriterStep(w)
    PROVE  WriterFlow
<1> USE DEF db, roomdb, typingdb, accountdb, bounds
<1>0. writer \in [Writer -> WriterState] /\ count \in Nat /\ IdleWriter.pc = "idle"
  BY Zenon, IdleType DEF TypeOK
<1>same. ASSUME UNCHANGED <<streams, tokens, client, lost, typing, last_typing_update>>, count' >= count,
                wake \/ UNCHANGED request, todeviceid_events \subseteq todeviceid_events',
                writer[w].pc # "last_typing_update", writer'[w].pc # "last_typing_update",
                \A u \in Writer \ {w} : writer'[u] = writer[u]
         PROVE  WriterFlow
  <2>1. \A r \in Request : Waken(r)
    BY ZenonT(20), <1>same, WakeEffect DEF Waken
  <2>2. TypingSame /\ (TypingSettled' <=> TypingSettled)
    BY Zenon, <1>same, SettledSame DEF TypingSame, typing_users
  <2> QED
    BY Zenon, <1>same, <2>1, <2>2 DEF WriterFlow
<1>1. CASE put_todevice(w)
  BY <1>0, <1>1, <1>same DEF put_todevice, WriterState
<1>2. CASE put_keychange(w)
  BY <1>0, <1>2, <1>same DEF put_keychange, WriterState
<1>3. CASE put_account(w)
  BY <1>0, <1>3, <1>same DEF put_account, WriterState
<1>4. CASE account_prev(w)
  BY <1>0, <1>4, <1>same DEF account_prev, WriterState
<1>5. CASE put_account_id(w)
  BY <1>0, <1>5, <1>same DEF put_account_id, WriterState
<1>6. CASE account_remove(w)
  BY <1>0, <1>6, <1>same DEF account_remove, WriterState
<1>7. CASE insert_local(w)
  BY <1>0, <1>7, <1>same DEF insert_local, WriterState
<1>8. CASE set_room_state(w)
  BY <1>0, <1>8, <1>same DEF set_room_state, WriterState
<1>9. CASE append_incoming(w)
  BY <1>0, <1>9, <1>same DEF append_incoming, next_count, WriterState
<1>10. CASE insert_incoming(w)
  BY <1>0, <1>10, <1>same DEF insert_incoming, WriterState
<1>11. CASE soft_fail(w)
  BY <1>0, <1>11, <1>same DEF soft_fail, WriterState
<1>12. CASE put_last_typing_update(w)
  <2>1. \A r \in Request : Waken(r)
    BY Zenon, <1>12, WakeEffect DEF put_last_typing_update
  <2>2. ~TypingSettled
    BY Zenon, <1>12 DEF put_last_typing_update, TypingSettled
  <2>3. /\ UNCHANGED <<streams, tokens, client, lost, todeviceid_events>>
        /\ count' = count + 1 /\ last_typing_update' = count + 1 /\ count' >= count
    BY <1>0, <1>12 DEF put_last_typing_update
  <2> QED
    BY Zenon, <2>1, <2>2, <2>3 DEF WriterFlow
<1> QED
  BY <1>1, <1>2, <1>3, <1>4, <1>5, <1>6, <1>7, <1>8, <1>9, <1>10, <1>11, <1>12 DEF WriterStep

\* So are the steps that begin a change.
LEMMA ChangeEffect ==
    ASSUME TypeOK, NEW w \in Writer, Change(w)
    PROVE  WriterFlow
<1> USE DEF db, roomdb, typingdb, accountdb, bounds, Begins
<1>0. /\ writer \in [Writer -> WriterState] /\ count \in Nat
  BY Zenon DEF TypeOK
<1>1. CASE \E u \in TypingUser : typing_add(w, u) \/ typing_remove(w, u)
  <2>1. /\ "typing" \in streams /\ writer'[w].pc = "last_typing_update"
        /\ UNCHANGED <<streams, count, tokens, client, lost, todeviceid_events, last_typing_update, request>>
    BY <1>0, <1>1 DEF typing_add, typing_remove, typing_set, WriterState
  <2>2. ~TypingSettled'
    BY <2>1 DEF TypingSettled
  <2> QED
    BY <1>0, <2>1, <2>2 DEF WriterFlow, Waken
<1>2. CASE ~\E u \in TypingUser : typing_add(w, u) \/ typing_remove(w, u)
  <2>1. /\ UNCHANGED <<streams, tokens, client, lost, todeviceid_events, typing, last_typing_update, request>>
        /\ count' >= count /\ writer[w].pc = "idle" /\ writer'[w].pc # "last_typing_update"
        /\ \A u \in Writer \ {w} : writer'[u] = writer[u]
    <3>1. CASE add_to_device_event(w)
      BY <1>0, <3>1 DEF add_to_device_event, next_count, WriterState
    <3>2. CASE mark_device_key_update(w)
      BY <1>0, <3>2 DEF mark_device_key_update, next_count, WriterState
    <3>3. CASE update_account_data(w)
      BY <1>0, <3>3 DEF update_account_data, next_count, WriterState
    <3>4. CASE \E e \in Event : append_local(w, e)
      BY <1>0, <3>4 DEF append_local, IdleWriter
    <3>5. CASE \E e \in Event : force_state(w, e)
      BY <1>0, <3>5 DEF force_state, IdleWriter
    <3> QED
      BY Zenon, <1>2, <3>1, <3>2, <3>3, <3>4, <3>5 DEF Change
  <2>2. TypingSame /\ (TypingSettled' <=> TypingSettled)
    BY Zenon, <2>1, SettledSame DEF TypingSame, typing_users
  <2> QED
    BY ZenonT(20), <2>1, <2>2 DEF WriterFlow, Waken
<1> QED
  BY <1>1, <1>2

\* And a typing timeout.
LEMMA ExpiresEffect ==
    ASSUME TypeOK, NEW u \in TypingUser, typing_expires(u)
    PROVE  TypeOK' /\ WriterFlow
<1> USE DEF roomdb, accountdb, bounds, typing_expires
<1>1. UNCHANGED <<streams, count, tokens, client, lost, writer, todeviceid_events, last_typing_update, request>>
  BY Zenon
<1>2. TypeOK' /\ typing_users' = typing_users
  BY Zenon DEF TypeOK, typing_users
<1>3. TypingSettled' <=> TypingSettled
  BY ZenonT(20), <1>1 DEF TypingSettled
<1> QED
  BY SMTT(20), <1>1, <1>2, <1>3 DEF WriterFlow, Waken, TypingSame, TypeOK

\* The steps of a request other than reading.
LEMMA RequestEffect ==
    ASSUME TypeOK, NEW q \in Request, RequestStep(q)
    PROVE  \/ build_sync_events(q)
           \/ ReadFlow(q) /\ TypeOK'
           \/ respond(q)
           \/ /\ TypeOK' /\ UNCHANGED <<streams, count, db, writer, client, bounds>> /\ SameAnswer(q)
              /\ \A r \in Request \ {q} : request'[r] = request[r]
              /\ \/ /\ request[q].pc = "read" /\ request[q].todo = {}
                    /\ request'[q].pc = "respond" \/ (request'[q].pc = "watch" /\ ~SendsState(q))
                 \/ request[q].pc \in {"watch", "wait", "woken"} /\ request'[q].pc \in {"wait", "again"}
<1>1. CASE finish_build(q)
  <2>1. PICK to \in {"watch", "respond"} :
           /\ request' = [request EXCEPT ![q].pc = to] /\ UNCHANGED <<streams, count, db, writer, client, bounds>>
           /\ request[q].pc = "read" /\ request[q].todo = {} /\ (to = "watch" => IsEmpty(q))
    BY Zenon, <1>1 DEF finish_build
  <2> QED
    BY Zenon, <2>1, MoveEffect DEF IsEmpty
<1>2. CASE watch(q)
  BY Zenon, <1>2, MoveEffect DEF watch
<1>3. CASE watch_ends(q)
  BY Zenon, <1>3, MoveEffect DEF watch_ends
<1> QED
  BY Zenon, <1>1, <1>2, <1>3, ReadEffect DEF RequestStep

\* Every step keeps the types.
LEMMA NextType ==
    ASSUME TypeOK, [Next]_vars
    PROVE  TypeOK'
<1>1. CASE UNCHANGED vars
  BY Zenon, <1>1 DEF TypeOK, vars
<1>2. ASSUME NEW q \in Request, RequestStep(q) PROVE TypeOK'
  BY Zenon, <1>2, RequestEffect, BuildEffect, RespondEffect
<1> QED
  BY <1>1, <1>2, WriterType, ChangeType, ExpiresEffect, RouteEffect, GiveUpEffect DEF Next

\* The types of the counter, the tables, the writers, the requests and the device (sync_events_route
\* and build_sync_events, and the writers of what they read) are kept by every step.
THEOREM SyncTypeOK == Spec => []TypeOK
BY InitType, NextType, PTL DEF Spec

-----------------------------------------------------------------------------
(* The numbers of an answer *)

\* The types that the arithmetic needs.
LEMMA Types ==
    ASSUME TypeOK
    PROVE  /\ count \in Nat /\ last_typing_update \in Nat /\ client.token \in Nat
           /\ Has(client) \subseteq Nat /\ client.request \in Request \cup {NoRequest}
           /\ \A q \in Request : /\ request[q].since \in Nat /\ request[q].next_batch \in Nat
                                 /\ Has(request[q].got) \subseteq Nat /\ request[q].got \in Answer
BY ZenonT(40) DEF TypeOK, Has, ClientState, RequestState, Answer

\* A request that is left alone or woken keeps to its window.
LEMMA WakenInWindow ==
    ASSUME TypeOK, TypeOK', NEW r \in Request, InWindow(r), Waken(r), count' >= count,
           client' = client
    PROVE  InWindow(r)'
<1>1. /\ request'[r].since = request[r].since /\ request'[r].next_batch = request[r].next_batch
      /\ request'[r].todo = request[r].todo /\ request'[r].got = request[r].got
      /\ request'[r].pc = request[r].pc \/ (request[r].pc = "wait" /\ request'[r].pc = "woken")
  BY Zenon DEF Waken
<1>2. count \in Nat /\ count' \in Nat /\ request[r].next_batch \in Nat
  BY Zenon, Types DEF TypeOK
<1> QED
  BY SMTT(20), <1>1, <1>2 DEF InWindow, Built

\* A writer takes new numbers only, so NumbersInv stays.
LEMMA WriterNumbers ==
    ASSUME TypeOK, TypeOK', NumbersInv, WriterFlow
    PROVE  NumbersInv'
<1>1. \A r \in Request : InWindow(r)'
  BY Zenon, WakenInWindow DEF NumbersInv, WriterFlow
<1>2. client'.token <= count' /\ last_typing_update' <= count'
  <2>1. count \in Nat /\ count' \in Nat /\ last_typing_update \in Nat /\ client.token \in Nat /\ client' = client
    BY Zenon, Types DEF WriterFlow, TypeOK
  <2> QED
    BY <2>1 DEF NumbersInv, WriterFlow, TypingSame
<1> QED
  BY Zenon, <1>1, <1>2 DEF NumbersInv, WriterFlow

\* A read adds numbers of the window only, so NumbersInv stays.
LEMMA ReadNumbers ==
    ASSUME TypeOK, TypeOK', NumbersInv, NEW q \in Request, ReadFlow(q)
    PROVE  NumbersInv'
<1>1. ReadFrame(q) /\ count \in Nat /\ count' \in Nat /\ last_typing_update \in Nat /\ client.token \in Nat
  BY Zenon, Types DEF ReadFlow, TypeOK
<1>2. /\ request'[q].pc = "read" /\ request[q].pc = "read" /\ request'[q].since = request[q].since
      /\ request'[q].next_batch = request[q].next_batch
  BY ZenonT(30) DEF ReadFlow, Reading
<1>3. \A n \in Has(request'[q].got) : n \in Has(request[q].got) \/ n \in Window(q, Nat)
  BY ZenonT(40) DEF ReadFlow, Reading, Has, AnswerField
<1>4. InWindow(q)'
  BY SMTT(20), <1>1, <1>2, <1>3, Types DEF NumbersInv, InWindow, Window, ReadFrame, Built
<1>5. \A r \in Request : InWindow(r)'
  BY Zenon, <1>1, <1>4, WakenInWindow DEF NumbersInv, ReadFrame
<1>6. last_typing_update' <= count'
  BY <1>1 DEF NumbersInv, ReadFrame, TypingSame
<1> QED
  BY <1>1, <1>5, <1>6 DEF NumbersInv, ReadFrame

\* An answer without content has no numbers and no users typing.
LEMMA NoNumbers == Has(Nothing) = {} /\ Nothing.typing = {}
BY Zenon DEF Has, Nothing

\* A request that is left alone keeps to its window if the device has the same token and waits
\* for another.
LEMMA OtherInWindow ==
    ASSUME NEW r \in Request, InWindow(r), request'[r] = request[r], count' = count,
           client'.token = client.token, client'.request # r
    PROVE  InWindow(r)'
BY Zenon DEF InWindow

\* Every step keeps NumbersInv.
LEMMA NextNumbers ==
    ASSUME TypeOK, NumbersInv, [Next]_vars
    PROVE  NumbersInv'
<1>0. TypeOK'
  BY NextType
<1> USE Types DEF TypeOK
<1>1. CASE UNCHANGED vars
  BY ZenonT(40), <1>1 DEF NumbersInv, InWindow, vars, Has
<1>2. ASSUME NEW w \in Writer, Change(w) \/ WriterStep(w) PROVE NumbersInv'
  BY ZenonT(20), <1>0, <1>2, WriterEffect, ChangeEffect, WriterNumbers
<1>3. ASSUME NEW u \in TypingUser, typing_expires(u) PROVE NumbersInv'
  BY Zenon, <1>0, <1>3, ExpiresEffect, WriterNumbers
<1>4. ASSUME NEW q \in Request, NEW full \in BOOLEAN, sync_events_route(q, full) PROVE NumbersInv'
  <2>1. /\ count' = count /\ last_typing_update' = last_typing_update /\ client'.request = q
        /\ request'[q].pc = "start" /\ request'[q].since = client.token /\ request'[q].todo = {}
        /\ request'[q].got = Nothing /\ \A r \in Request \ {q} : request'[r] = request[r]
    BY SMTT(20), <1>4, RouteFrame
  <2>2. client'.token = client.token /\ Has(client') = Has(client)
    BY Zenon, <1>4, RouteFrame
  <2>3. \A r \in Request \ {q} : InWindow(r)'
    BY Zenon, <2>1, <2>2, OtherInWindow DEF NumbersInv
  <2>4. InWindow(q)'
    BY SMTT(20), <2>1, <2>2, NoNumbers DEF InWindow, Built
  <2> QED
    BY Zenon, <2>1, <2>2, <2>3, <2>4 DEF NumbersInv
<1>5. ASSUME NEW q \in Request, give_up(q) PROVE NumbersInv'
  <2>1. /\ count' = count /\ last_typing_update' = last_typing_update /\ request' = request
        /\ client'.token = client.token /\ Has(client') = Has(client) /\ client'.request = NoRequest
    BY ZenonT(40), <1>5, GiveUpEffect DEF db, ClientState, Has
  <2>2. \A r \in Request : InWindow(r)'
    BY Zenon, <2>1, OtherInWindow, SyncAssumption DEF NumbersInv
  <2> QED
    BY Zenon, <2>1, <2>2 DEF NumbersInv
<1>6. ASSUME NEW q \in Request, build_sync_events(q) PROVE NumbersInv'
  <2>1. /\ count' = count /\ last_typing_update' = last_typing_update /\ client' = client
        /\ request'[q].pc = "read" /\ request'[q].since = request[q].since
        /\ request'[q].next_batch = count /\ request'[q].got = Nothing
        /\ \A r \in Request \ {q} : request'[r] = request[r]
    BY ZenonT(20), <1>6, BuildEffect DEF db
  <2>2. \A r \in Request \ {q} : InWindow(r)'
    BY SMTT(20), <2>1, WakenInWindow, <1>0 DEF NumbersInv, Waken
  <2>3. InWindow(q)'
    BY SMTT(20), <2>1, NoNumbers DEF NumbersInv, InWindow, Built
  <2> QED
    BY ZenonT(20), <2>1, <2>2, <2>3 DEF NumbersInv
<1>7. ASSUME NEW q \in Request, respond(q) PROVE NumbersInv'
  <2>1. /\ count' = count /\ last_typing_update' = last_typing_update
        /\ request'[q].pc = "idle" /\ request'[q].since = 0 /\ request'[q].todo = {}
        /\ request'[q].got = Nothing /\ request[q].pc = "respond"
        /\ \A r \in Request \ {q} : request'[r] = request[r]
    BY Zenon, <1>7, RespondEffect DEF db
  <2>2. CASE client.request = q
    <3>1. /\ client'.request = NoRequest /\ client'.token = request[q].next_batch
          /\ Has(client') = Has(client) \cup Has(request[q].got)
      BY ZenonT(40), <1>7, <2>2, RespondEffect DEF Has
    <3>2. /\ client.token <= request[q].next_batch /\ request[q].next_batch <= count
          /\ \A n \in Has(request[q].got) : n <= request[q].next_batch
      BY Zenon, <2>1, <2>2 DEF NumbersInv, InWindow, Built
    <3>3. \A r \in Request \ {q} : InWindow(r)'
      BY SMTT(20), <2>1, <3>1, <3>2, SyncAssumption DEF NumbersInv, InWindow
    <3>4. InWindow(q)'
      BY SMTT(20), <1>0, <2>1, <3>1, NoNumbers, SyncAssumption DEF InWindow, Built
    <3> QED
      BY SMTT(20), <2>1, <3>1, <3>2, <3>3, <3>4 DEF NumbersInv
  <2>3. CASE client.request # q
    <3>1. client' = client
      BY Zenon, <1>7, <2>3, RespondEffect
    <3>2. \A r \in Request \ {q} : InWindow(r)'
      BY SMTT(20), <2>1, <3>1, WakenInWindow, <1>0 DEF NumbersInv, Waken
    <3>3. InWindow(q)'
      BY SMTT(20), <2>1, <2>3, <3>1, NoNumbers DEF InWindow, Built
    <3> QED
      BY Zenon, <2>1, <3>1, <3>2, <3>3 DEF NumbersInv
  <2> QED
    BY Zenon, <2>2, <2>3
<1>8. ASSUME NEW q \in Request, RequestStep(q) PROVE NumbersInv'
  <2>1. CASE ReadFlow(q)
    BY Zenon, <1>0, <2>1, ReadNumbers
  <2>2. CASE /\ UNCHANGED <<streams, count, db, writer, client, bounds>> /\ SameAnswer(q)
             /\ \A r \in Request \ {q} : request'[r] = request[r]
             /\ \/ /\ request[q].pc = "read" /\ request[q].todo = {}
                   /\ request'[q].pc = "respond" \/ (request'[q].pc = "watch" /\ ~SendsState(q))
                \/ request[q].pc \in {"watch", "wait", "woken"} /\ request'[q].pc \in {"wait", "again"}
    <3>1. count' = count /\ last_typing_update' = last_typing_update /\ client' = client
      BY ZenonT(20), <2>2 DEF db
    <3>a. count' >= count
      BY SMTT(20), <3>1
    <3>2. \A r \in Request \ {q} : InWindow(r)'
      BY ZenonT(40), <1>0, <2>2, <3>1, <3>a, WakenInWindow DEF NumbersInv, Waken
    <3>3. InWindow(q)'
      BY ZenonT(40), <2>2, <3>1 DEF NumbersInv, InWindow, Built, SameAnswer
    <3> QED
      BY Zenon, <3>1, <3>2, <3>3 DEF NumbersInv
  <2> QED
    BY ZenonT(20), <1>6, <1>7, <1>8, <2>1, <2>2, RequestEffect
<1> QED
  BY Zenon, <1>1, <1>2, <1>3, <1>4, <1>5, <1>8 DEF Next

\* NumbersInv holds at first.
LEMMA InitNumbers == Init => NumbersInv
<1> SUFFICES ASSUME Init PROVE NumbersInv
  OBVIOUS
<1>1. Has(client) = {} /\ client.token = 0 /\ client.request = NoRequest /\ count = 0 /\ last_typing_update = 0
  BY DEF Init, Has
<1>2. \A q \in Request : /\ request[q].since = 0 /\ request[q].pc = "idle" /\ request[q].got = Nothing
  BY DEF Init, NewRequest
<1> QED
  BY SMTT(20), <1>1, <1>2, NoNumbers, SyncAssumption DEF NumbersInv, InWindow, Built

\* Only an answer is taken in by the device.
LEMMA OnlyAnswers ==
    ASSUME TypeOK, [Next]_vars, NEW q \in Request, Accepts(q)
    PROVE  respond(q)
<1>0. client.request = q /\ client' # client /\ client.request # NoRequest /\ lost' = lost /\ lost \in Nat
  BY Zenon, SyncAssumption DEF Accepts, TypeOK
<1>1. CASE UNCHANGED vars
  BY Zenon, <1>0, <1>1 DEF vars
<1>2. CASE \E w \in Writer : Change(w) \/ WriterStep(w)
  BY Zenon, <1>0, <1>2, WriterEffect, ChangeEffect DEF WriterFlow
<1>3. CASE \E u \in TypingUser : typing_expires(u)
  BY Zenon, <1>0, <1>3, ExpiresEffect DEF WriterFlow
<1>4. ASSUME NEW r \in Request, \/ \E full \in BOOLEAN : sync_events_route(r, full)
                                \/ give_up(r)
      PROVE  FALSE
  BY <1>0, <1>4, RouteEffect, GiveUpEffect
<1>5. ASSUME NEW r \in Request, RequestStep(r) PROVE respond(q)
  <2>1. CASE build_sync_events(r)
    BY Zenon, <1>0, <2>1, BuildEffect
  <2>2. CASE ReadFlow(r)
    BY Zenon, <1>0, <2>2 DEF ReadFlow, ReadFrame
  <2>3. CASE respond(r)
    <3>1. client.request # r => client' = client
      BY Zenon, <2>3, RespondEffect
    <3> QED
      BY Zenon, <1>0, <2>3, <3>1
  <2>4. CASE client' = client
    BY Zenon, <1>0, <2>4
  <2> QED
    BY Zenon, <1>5, <2>1, <2>2, <2>3, <2>4, RequestEffect
<1> QED
  BY Zenon, <1>1, <1>2, <1>3, <1>4, <1>5 DEF Next

\* "Skip the data that's exactly at since, because we sent that last time": whatever the device asks,
\* gives up and asks again, and however the writers and the reads of a response interleave, no
\* timeline event, to-device event, device list change or account data is in two of the answers it
\* takes in.
THEOREM NothingSentTwice == Spec => SentOnce
<1>1. TypeOK /\ NumbersInv /\ [Next]_vars =>
         \A q \in Request : Accepts(q) =>
           LET got == request[q].got IN
           /\ got.timeline \cap client.timeline = {}
           /\ got.todevice \cap client.todevice = {}
           /\ got.keys \cap client.keys = {}
           /\ got.account \cap client.account = {}
  <2> SUFFICES ASSUME TypeOK, NumbersInv, NEW q \in Request, client.request = q
               PROVE  Has(request[q].got) \cap Has(client) = {}
    BY Zenon DEF Has, Accepts
  <2>1. /\ \A n \in Has(request[q].got) : n \in Nat /\ client.token < n
        /\ \A n \in Has(client) : n \in Nat /\ n <= client.token
        /\ client.token \in Nat
    BY Zenon, Types DEF NumbersInv, InWindow
  <2> QED
    BY <2>1
<1>2. Spec => [](TypeOK /\ NumbersInv)
  BY InitType, NextType, InitNumbers, NextNumbers, PTL DEF Spec
<1> QED
  BY <1>1, <1>2, PTL DEF Spec, SentOnce

\* "Remove all to-device events the device received *last time*": remove_to_device_events, even for a
\* request that the device gave up long ago, removes only events up to the token the device has.
THEOREM DeviceKeepsEvents == Spec => UnacknowledgedKept
<1>1. TypeOK /\ NumbersInv /\ [Next]_vars =>
         \A n \in todeviceid_events \ todeviceid_events' : n <= client.token
  <2> SUFFICES ASSUME TypeOK, NumbersInv, [Next]_vars,
                      NEW n \in todeviceid_events, n \notin todeviceid_events'
               PROVE  n <= client.token
    OBVIOUS
  <2>1. CASE UNCHANGED vars
    BY Zenon, <2>1 DEF vars
  <2>2. CASE \E w \in Writer : Change(w) \/ WriterStep(w)
    BY Zenon, <2>2, WriterEffect, ChangeEffect DEF WriterFlow
  <2>3. CASE \E u \in TypingUser : typing_expires(u)
    BY Zenon, <2>3, ExpiresEffect DEF WriterFlow
  <2>4. ASSUME NEW q \in Request, ReadFlow(q) PROVE n <= client.token
    <3>1. n \in 0 .. request[q].since
      BY Zenon, <2>4 DEF ReadFlow, ReadFrame
    <3> QED
      BY SMTT(20), <3>1, Types DEF NumbersInv, InWindow
  <2>5. ASSUME NEW q \in Request, \/ \E full \in BOOLEAN : sync_events_route(q, full)
                                  \/ give_up(q) \/ RequestStep(q)
        PROVE  n <= client.token
    BY Zenon, <2>4, <2>5, RouteEffect, GiveUpEffect, RequestEffect, BuildEffect, RespondEffect DEF db
  <2> QED
    BY Zenon, <2>1, <2>2, <2>3, <2>5 DEF Next
<1>2. Spec => [](TypeOK /\ NumbersInv)
  BY InitType, NextType, InitNumbers, NextNumbers, PTL DEF Spec
<1> QED
  BY <1>1, <1>2, PTL DEF Spec, UnacknowledgedKept

-----------------------------------------------------------------------------
(* What is typed *)

\* The last update is kept from a request that has been built before.
LEMMA WakenTyping ==
    ASSUME TypeOK, NumbersInv, TypingInv, NEW r \in Request, Waken(r), streams' = streams,
           \/ TypingSame /\ (TypingSettled' <=> TypingSettled)
           \/ ~TypingSettled' /\ last_typing_update' = last_typing_update
           \/ last_typing_update' = count + 1
    PROVE  TypingSection(r)'
<1>1. /\ request'[r].since = request[r].since /\ request'[r].next_batch = request[r].next_batch
      /\ request'[r].todo = request[r].todo /\ request'[r].got = request[r].got
      /\ request'[r].pc \in Built <=> request[r].pc \in Built
  BY Zenon DEF Waken, Built
<1>2. TypingSection(r) /\ (request[r].pc \in Built => request[r].next_batch <= count)
  BY Zenon DEF TypingInv, NumbersInv, InWindow
<1>3. count \in Nat /\ request[r].next_batch \in Nat
  BY ZenonT(20), Types
<1>4. CASE TypingSame /\ (TypingSettled' <=> TypingSettled)
  BY ZenonT(20), <1>1, <1>2, <1>4 DEF TypingSection, TypingSame
<1>5. CASE ~TypingSettled' /\ last_typing_update' = last_typing_update
  BY ZenonT(20), <1>1, <1>2, <1>5 DEF TypingSection
<1>6. CASE last_typing_update' = count + 1
  BY SMTT(20), <1>1, <1>2, <1>3, <1>6 DEF TypingSection
<1> QED
  BY <1>4, <1>5, <1>6

\* A writer puts a new number or has still to put it, so TypingInv stays.
LEMMA WriterTyping ==
    ASSUME TypeOK, NumbersInv, TypingInv, WriterFlow
    PROVE  TypingInv'
<1>1. \A r \in Request : TypingSection(r)'
  BY Zenon, WakenTyping DEF WriterFlow
<1>2. count \in Nat /\ client.token \in Nat /\ client.token <= count
  BY Zenon, Types DEF NumbersInv
<1>3. CASE TypingSame /\ (TypingSettled' <=> TypingSettled)
  BY Zenon, <1>1, <1>3 DEF TypingInv, TypingCurrent, TypingSame, WriterFlow, TypingSettled
<1>4. CASE "typing" \in streams /\ ~TypingSettled'
  BY Zenon, <1>1, <1>4 DEF TypingInv, TypingCurrent, WriterFlow, TypingSettled
<1>5. CASE ~TypingSettled /\ last_typing_update' = count + 1
  BY SMTT(20), <1>1, <1>2, <1>5 DEF TypingInv, TypingCurrent, WriterFlow, TypingSettled
<1> QED
  BY Zenon, <1>3, <1>4, <1>5 DEF WriterFlow

\* The typing section is kept right by the reads of its own request: the check, the removal of the
\* users whose timeout has passed, and the list.
LEMMA ReadTypingSection ==
    ASSUME TypeOK, NumbersInv, TypingInv, NEW q \in Request, ReadFlow(q)
    PROVE  TypingSection(q)'
<1>0. /\ TypingSection(q) /\ ReadFrame(q) /\ TypingSettled' = TypingSettled /\ streams' = streams
      /\ request[q].pc = "read" /\ request'[q].pc = "read" /\ request'[q].since = request[q].since
      /\ request'[q].next_batch = request[q].next_batch /\ request[q].next_batch <= count
      /\ "typing" \notin streams => last_typing_update = 0
  BY Zenon DEF TypingInv, ReadFlow, ReadFrame, Reading, TypingSettled, NumbersInv, InWindow, Built
<1>1. /\ count \in Nat /\ request[q].next_batch \in Nat /\ request[q].since \in Nat
      /\ last_typing_update \in Nat
  BY ZenonT(20), Types
<1>2. CASE Reading(q, "maintain_remove", {"last_typing"}, {}) /\ last_typing_update' = count + 1
  BY ZenonT(20), <1>0, <1>1, <1>2 DEF TypingSection, Reading, TypingChecks, AnswerField
<1> SUFFICES ASSUME TypingSame PROVE TypingSection(q)'
  BY ZenonT(20), <1>0, <1>2 DEF ReadFrame
<1>3. ASSUME NEW part \in Part \ (TypingChecks \cup {"typings_all"}), NEW F, "typing" \notin F,
             Reading(q, part, {}, F)
      PROVE  TypingSection(q)'
  <2>1. /\ request'[q].todo \cap TypingChecks = request[q].todo \cap TypingChecks
        /\ "typings_all" \in request'[q].todo <=> "typings_all" \in request[q].todo
        /\ request'[q].got.typing = request[q].got.typing
    BY ZenonT(20), <1>3 DEF Reading, AnswerField
  <2> QED
    BY Zenon, <1>0, <2>1 DEF TypingSection, TypingSame
<1>4. ASSUME NEW next \in {"last_typing", "maintain_remove"}, Reading(q, "maintain", {next}, {"expired"})
      PROVE  TypingSection(q)'
  BY ZenonT(20), <1>0, <1>4 DEF TypingSection, TypingSame, Reading, TypingChecks, AnswerField
<1>5. CASE Reading(q, "last_typing", IF last_typing_update > request[q].since THEN {"typings_all"} ELSE {}, {})
  BY ZenonT(40), <1>0, <1>1, <1>5 DEF TypingSection, TypingSame, Reading, TypingChecks, AnswerField
<1>6. CASE Reading(q, "typings_all", {}, {"typing"}) /\ request'[q].got.typing = {typing_users}
  BY Zenon, <1>0, <1>6 DEF TypingSection, TypingSame, Reading, TypingChecks
<1>7. ASSUME NEW f \in {"timeline", "todevice", "keys", "account", "state", "since_state"}, Reading(q, f, {}, {f})
      PROVE  TypingSection(q)'
  BY Zenon, <1>3, <1>7 DEF Part, TypingChecks
<1>8. ASSUME NEW f \in {"associate", "remove_todevice"}, Reading(q, f, {}, {})
      PROVE  TypingSection(q)'
  BY Zenon, <1>3, <1>8 DEF Part, TypingChecks
<1>9. \/ \E f \in {"timeline", "todevice", "keys", "account", "state", "since_state"} : Reading(q, f, {}, {f})
      \/ \E f \in {"associate", "remove_todevice"} : Reading(q, f, {}, {})
      \/ \E next \in {"last_typing", "maintain_remove"} : Reading(q, "maintain", {next}, {"expired"})
      \/ Reading(q, "maintain_remove", {"last_typing"}, {}) /\ last_typing_update' = count + 1
      \/ Reading(q, "last_typing", IF last_typing_update > request[q].since THEN {"typings_all"} ELSE {}, {})
      \/ Reading(q, "typings_all", {}, {"typing"}) /\ request'[q].got.typing = {typing_users}
  BY ZenonT(20) DEF ReadFlow
<1> QED
  BY Zenon, <1>2, <1>4, <1>5, <1>6, <1>7, <1>8, <1>9

\* Steps that change neither what is typed nor any writer.
TypingQuiet == UNCHANGED <<streams, typing_users, last_typing_update, writer>>

\* Such a step keeps TypingInv if it keeps the sections right.
LEMMA QuietTyping ==
    ASSUME TypingInv, TypingQuiet, client'.token = client.token, client'.users = client.users,
           \A r \in Request : TypingSection(r)'
    PROVE  TypingInv'
BY Zenon DEF TypingInv, TypingQuiet, TypingSettled, TypingCurrent

\* It keeps the section of a request that it leaves alone.
LEMMA SameTyping ==
    ASSUME TypingQuiet, NEW r \in Request, TypingSection(r), request'[r] = request[r]
    PROVE  TypingSection(r)'
BY Zenon DEF TypingSection, TypingQuiet, TypingSettled

\* Every step keeps TypingInv; the answer the device takes in makes it current.
LEMMA NextTyping ==
    ASSUME TypeOK, NumbersInv, TypingInv, [Next]_vars
    PROVE  TypingInv'
<1>0. TypeOK' /\ \A r \in Request : TypingSection(r)
  BY NextType DEF TypingInv
<1>1. CASE UNCHANGED vars
  <2>1. TypingQuiet /\ client' = client /\ request' = request
    BY Zenon, <1>1 DEF vars, TypingQuiet, typing_users
  <2> QED
    BY Zenon, <1>0, <2>1, QuietTyping, SameTyping
<1>2. ASSUME NEW w \in Writer, Change(w) \/ WriterStep(w) PROVE TypingInv'
  BY Zenon, <1>2, WriterEffect, ChangeEffect, WriterTyping
<1>3. ASSUME NEW u \in TypingUser, typing_expires(u) PROVE TypingInv'
  BY <1>3, ExpiresEffect, WriterTyping
<1>4. ASSUME NEW q \in Request, NEW full \in BOOLEAN, sync_events_route(q, full) PROVE TypingInv'
  <2>1. /\ TypingQuiet /\ request'[q].pc = "start" /\ request'[q].todo = {} /\ request'[q].got.typing = {}
        /\ \A r \in Request \ {q} : request'[r] = request[r]
    BY <1>4, RouteEffect, NoNumbers DEF TypingQuiet, typing_users, db
  <2>2. client'.token = client.token /\ client'.users = client.users
    BY SMTT(20), <1>4, RouteEffect DEF TypeOK, ClientState
  <2>3. TypingSection(q)'
    BY Zenon, <2>1 DEF TypingSection, Built
  <2> QED
    BY Zenon, <1>0, <2>1, <2>2, <2>3, QuietTyping, SameTyping
<1>5. ASSUME NEW q \in Request, give_up(q) PROVE TypingInv'
  <2>1. TypingQuiet /\ request' = request
    BY <1>5, GiveUpEffect DEF TypingQuiet, typing_users, db
  <2>2. client'.token = client.token /\ client'.users = client.users
    BY Zenon, <1>5, GiveUpEffect DEF TypeOK, ClientState
  <2> QED
    BY Zenon, <1>0, <2>1, <2>2, QuietTyping, SameTyping
<1>6. ASSUME NEW q \in Request, build_sync_events(q) PROVE TypingInv'
  <2>1. /\ TypingQuiet /\ client' = client /\ request'[q].since = request[q].since
        /\ request'[q].todo = Parts /\ request'[q].got.typing = {}
        /\ \A r \in Request \ {q} : request'[r] = request[r]
    BY Zenon, <1>6, BuildEffect, NoNumbers DEF TypingQuiet, typing_users, db
  <2>2. /\ Parts \cap TypingChecks \subseteq {"maintain"} /\ "typings_all" \notin Parts
        /\ "maintain" \in Parts <=> "typing" \in streams
    BY DEF Parts, TypingChecks
  <2>3. TypingSection(q)'
    <3>1. request[q].since \in Nat /\ ("typing" \notin streams => last_typing_update = 0)
      BY Zenon, Types DEF TypingInv
    <3> QED
      BY SMTT(20), <2>1, <2>2, <3>1 DEF TypingSection, TypingQuiet, TypingChecks
  <2> QED
    BY Zenon, <1>0, <2>1, <2>3, QuietTyping, SameTyping
<1>7. ASSUME NEW q \in Request, respond(q) PROVE TypingInv'
  <2>1. /\ TypingQuiet /\ request'[q].pc = "idle" /\ request'[q].todo = {} /\ request'[q].got.typing = {}
        /\ \A r \in Request \ {q} : request'[r] = request[r]
    <3>1. /\ UNCHANGED <<streams, count, db, writer, bounds>> /\ request'[q].pc = "idle"
          /\ request'[q].todo = {} /\ request'[q].got = Nothing
          /\ \A r \in Request \ {q} : request'[r] = request[r]
      BY Zenon, <1>7, RespondEffect
    <3> QED
      BY Zenon, <3>1, NoNumbers DEF TypingQuiet, typing_users, db
  <2>2. \A r \in Request : TypingSection(r)'
    <3>1. TypingSection(q)'
      BY Zenon, <2>1 DEF TypingSection, Built
    <3> QED
      BY Zenon, <1>0, <2>1, <3>1, SameTyping
  <2>3. CASE client.request # q
    BY Zenon, <1>7, <2>1, <2>2, <2>3, RespondEffect, QuietTyping
  <2>4. CASE client.request = q
    <3>1. /\ client'.token = request[q].next_batch /\ request[q].since = client.token
          /\ client'.users = IF request[q].got.typing = {} THEN client.users ELSE UNION request[q].got.typing
          /\ request[q].todo = {} /\ request[q].pc \in Built
      BY Zenon, <1>7, <2>4, RespondEffect DEF NumbersInv, InWindow, Built
    <3>2. ASSUME last_typing_update <= request[q].next_batch, TypingSettled
          PROVE  client'.users = typing_users
      <4>1. CASE request[q].got.typing = {}
        <5>1. ~(last_typing_update > client.token)
          BY Zenon, <1>0, <3>1, <3>2, <4>1 DEF TypingSection
        <5>2. client.users = typing_users
          BY SMTT(20), <3>2, <5>1, Types DEF TypingInv, TypingCurrent, TypingSettled
        <5> QED
          BY Zenon, <3>1, <4>1, <5>2
      <4>2. CASE request[q].got.typing # {}
        BY SMTT(20), <1>0, <3>1, <3>2, <4>2 DEF TypingSection
      <4> QED
        BY Zenon, <4>1, <4>2
    <3>3. TypingCurrent'
      BY ZenonT(20), <2>1, <3>1, <3>2, Types DEF TypingCurrent, TypingQuiet, TypingSettled
    <3> QED
      BY Zenon, <2>1, <2>2, <3>3 DEF TypingInv, TypingQuiet, TypingSettled
  <2> QED
    BY Zenon, <2>3, <2>4
<1>8. ASSUME NEW q \in Request, RequestStep(q) PROVE TypingInv'
  <2>1. CASE ReadFlow(q)
    <3>1. ReadFrame(q) /\ TypingSettled' = TypingSettled
      BY Zenon, <2>1 DEF ReadFlow, ReadFrame, TypingSettled
    <3>2. \A r \in Request : TypingSection(r)'
      BY Zenon, <2>1, <3>1, ReadTypingSection, WakenTyping DEF ReadFrame
    <3>3. CASE TypingSame
      <4>1. TypingQuiet /\ client' = client
        BY Zenon, <3>1, <3>3 DEF ReadFrame, TypingSame, TypingQuiet
      <4> QED
        BY <3>2, <4>1, QuietTyping
    <3>4. CASE Reading(q, "maintain_remove", {"last_typing"}, {}) /\ last_typing_update' = count + 1
      <4>1. "typing" \in streams /\ streams' = streams /\ client' = client
        BY Zenon, <1>0, <3>1, <3>4 DEF TypingSection, Reading, TypingChecks, ReadFrame
      <4>2. ~(client'.token >= last_typing_update')
        BY SMTT(30), <3>4, <4>1, Types DEF NumbersInv
      <4> QED
        BY ZenonT(20), <3>2, <4>1, <4>2 DEF TypingInv, TypingCurrent
    <3> QED
      BY ZenonT(20), <3>1, <3>3, <3>4 DEF ReadFrame
  <2>2. CASE /\ UNCHANGED <<streams, count, db, writer, client, bounds>> /\ SameAnswer(q)
             /\ \A r \in Request \ {q} : request'[r] = request[r]
             /\ \/ /\ request[q].pc = "read" /\ request[q].todo = {}
                   /\ request'[q].pc = "respond" \/ (request'[q].pc = "watch" /\ ~SendsState(q))
                \/ request[q].pc \in {"watch", "wait", "woken"} /\ request'[q].pc \in {"wait", "again"}
    <3>1. TypingQuiet /\ client' = client
      BY Zenon, <2>2 DEF db, TypingQuiet, typing_users
    <3>2. request[q].pc \in Built
      BY ZenonT(20), <2>2 DEF Built
    <3>3. TypingSection(q)'
      <4>1. /\ TypingSettled' = TypingSettled /\ streams' = streams
            /\ typing_users' = typing_users /\ last_typing_update' = last_typing_update
        BY Zenon, <3>1 DEF TypingQuiet, TypingSettled
      <4> QED
        BY SMTT(20), <1>0, <2>2, <3>2, <4>1 DEF TypingSection, SameAnswer
    <3> QED
      BY Zenon, <1>0, <2>2, <3>1, <3>3, QuietTyping, SameTyping
  <2> QED
    BY Zenon, <1>6, <1>7, <1>8, <2>1, <2>2, RequestEffect
<1> QED
  BY Zenon, <1>1, <1>2, <1>3, <1>4, <1>5, <1>8 DEF Next

\* TypingInv holds at first: nobody is typing.
LEMMA InitTyping == Init => TypingInv
<1> SUFFICES ASSUME Init PROVE TypingInv
  OBVIOUS
<1>1. /\ client.users = {} /\ typing_users = {} /\ last_typing_update = 0 /\ client.token = 0
      /\ \A w \in Writer : writer[w].pc = "idle"
  BY IdleType DEF Init, typing_users
<1>2. \A q \in Request : request[q].pc = "idle" /\ request[q].todo = {} /\ request[q].got.typing = {}
  BY Zenon, NoNumbers DEF Init, NewRequest
<1> QED
  BY Zenon, <1>1, <1>2 DEF TypingInv, TypingSection, TypingCurrent, TypingSettled, Built

\* typing_add, typing_remove and typings_maintain bump last_typing_update after the map: a device whose
\* token is not older than the last update has the users that are typing, in every behaviour.
THEOREM TypingIsCurrent == Spec => []TypingCurrent
<1>1. Init => TypeOK /\ NumbersInv /\ TypingInv
  BY InitType, InitNumbers, InitTyping
<1>2. TypeOK /\ NumbersInv /\ TypingInv /\ [Next]_vars => (TypeOK /\ NumbersInv /\ TypingInv)'
  BY NextType, NextNumbers, NextTyping
<1>3. TypingInv => TypingCurrent
  BY DEF TypingInv
<1> QED
  BY <1>1, <1>2, <1>3, PTL DEF Spec

-----------------------------------------------------------------------------
(* The state sections *)

\* The parts that the state section is made of.
StateParts == {"state", "since_state", "associate"}

\* load_joined_room saves the state it has read.
SavedAs(q) == Saves(request[q].next_batch, request[q].got.state)

\* The state saved under a token, after the step.
NowSaved(n) == IF n \in DOMAIN tokens' THEN tokens'[n] ELSE NoState

\* Saving a state under next_batch changes what is saved there and nowhere else.
LEMMA SavesEffect ==
    ASSUME NEW q \in Request, SavedAs(q)
    PROVE  /\ NowSaved(request[q].next_batch) = request[q].got.state
           /\ \A m : m # request[q].next_batch => NowSaved(m) = Saved(m)
BY ZenonT(20) DEF SavedAs, Saves, Saved, NowSaved

\* The parts of the state section of an answer, after a read.
LEMMA SectionAfterRead ==
    ASSUME NEW q \in Request, request'[q].pc = "read", UNCHANGED <<streams, client>>,
           "associate" \notin request'[q].todo => "state" \notin request'[q].todo /\ "since_state" \notin request'[q].todo,
           "since_state" \notin request'[q].todo => Knows(request'[q].got.since_state),
           "timeline" \in streams /\ "associate" \notin request'[q].todo =>
              NowSaved(request'[q].next_batch) = request'[q].got.state,
           "associate" \in request'[q].todo \/ request'[q].next_batch # request'[q].since =>
              Knows(NowSaved(client.token))
    PROVE  StateSection(q)'
<1>1. "associate" \notin request'[q].todo => request'[q].todo \cap {"state", "since_state"} = {}
  BY ZenonT(20)
<1> QED
  BY Zenon, <1>1 DEF StateSection, Knows, NowSaved, Saved

\* What a read changes of the state section.
StateRead(q) ==
    LET r == request[q]
        s == request'[q] IN
    \/ /\ UNCHANGED tokens /\ s.todo \cap StateParts = r.todo \cap StateParts
       /\ s.got.state = r.got.state /\ s.got.since_state = r.got.since_state
    \/ /\ UNCHANGED tokens /\ "state" \in r.todo /\ s.todo = r.todo \ {"state"}
       /\ s.got.since_state = r.got.since_state
    \/ /\ UNCHANGED tokens /\ "since_state" \in r.todo /\ s.todo = r.todo \ {"since_state"}
       /\ s.got.state = r.got.state /\ s.got.since_state = Saved(r.since)
    \/ /\ SavedAs(q) /\ "associate" \in r.todo /\ s.todo = r.todo \ {"associate"}
       /\ r.todo \cap {"state", "since_state"} = {}
       /\ s.got.state = r.got.state /\ s.got.since_state = r.got.since_state

\* Every read is one of these.
LEMMA ReadStateSection ==
    ASSUME NEW q \in Request, ReadFlow(q)
    PROVE  StateRead(q)
<1>0. ReadFrame(q)
  BY ZenonT(20) DEF ReadFlow
<1>1. ASSUME NEW part, NEW then, NEW F, Reading(q, part, then, F), part \notin StateParts,
             then \cap StateParts = {}, F \cap {"state", "since_state"} = {}
      PROVE  StateRead(q)
  <2>1. /\ request'[q].todo \cap StateParts = request[q].todo \cap StateParts
        /\ request'[q].got.state = request[q].got.state /\ request'[q].got.since_state = request[q].got.since_state
    BY Zenon, <1>1 DEF Reading, AnswerField
  <2>2. UNCHANGED tokens
    <3> SUFFICES ASSUME Reading(q, "associate", {}, {}) PROVE FALSE
      BY ZenonT(20), <1>0 DEF ReadFrame
    <3> QED
      BY Zenon, <2>1 DEF Reading, StateParts
  <2> QED
    BY ZenonT(20), <2>1, <2>2 DEF StateRead
<1>2. CASE Reading(q, "state", {}, {"state"})
  BY ZenonT(20), <1>0, <1>2 DEF StateRead, Reading, ReadFrame, AnswerField
<1>3. CASE Reading(q, "since_state", {}, {"since_state"}) /\ request'[q].got.since_state = Saved(request[q].since)
  BY ZenonT(20), <1>0, <1>3 DEF StateRead, Reading, ReadFrame, AnswerField
<1>4. CASE Reading(q, "associate", {}, {}) /\ request[q].todo \cap {"state", "since_state"} = {}
             /\ Saves(request[q].next_batch, request[q].got.state)
  BY ZenonT(20), <1>4 DEF StateRead, Reading, AnswerField, SavedAs
<1>5. ASSUME NEW f \in {"timeline", "todevice", "keys", "account"}, Reading(q, f, {}, {f}) PROVE StateRead(q)
  BY Zenon, <1>1, <1>5 DEF StateParts
<1>6. CASE Reading(q, "remove_todevice", {}, {})
  BY Zenon, <1>1, <1>6 DEF StateParts
<1>7. ASSUME NEW next \in {"last_typing", "maintain_remove"}, Reading(q, "maintain", {next}, {"expired"})
      PROVE  StateRead(q)
  BY Zenon, <1>1, <1>7 DEF StateParts
<1>8. CASE Reading(q, "maintain_remove", {"last_typing"}, {})
  BY Zenon, <1>1, <1>8 DEF StateParts
<1>9. CASE Reading(q, "last_typing", IF last_typing_update > request[q].since THEN {"typings_all"} ELSE {}, {})
  BY Zenon, <1>1, <1>9 DEF StateParts
<1>10. CASE Reading(q, "typings_all", {}, {"typing"})
  BY Zenon, <1>1, <1>10 DEF StateParts
<1> QED
  BY ZenonT(20), <1>2, <1>3, <1>4, <1>5, <1>6, <1>7, <1>8, <1>9, <1>10 DEF ReadFlow

\* The values for no event and no state are not state events.
LEMMA NoStateEvent == NoEvent \notin StateEvent /\ NoState \notin StateEvent
BY ZenonT(20), SyncAssumption

\* A step that leaves the requests alone or wakes them keeps StateInv.
LEMMA WakenState ==
    ASSUME TypeOK, StateInv, \A r \in Request : Waken(r),
           UNCHANGED <<streams, tokens, client, lost>>
    PROVE  StateInv'
<1>1. \A r \in Request :
         /\ request'[r].since = request[r].since /\ request'[r].next_batch = request[r].next_batch
         /\ request'[r].todo = request[r].todo /\ request'[r].got = request[r].got
         /\ request'[r].pc = request[r].pc \/ (request[r].pc = "wait" /\ request'[r].pc = "woken")
  BY Zenon DEF Waken
<1>2. \A n : Saved(n)' = Saved(n)
  BY ZenonT(20) DEF Saved
<1>3. \A r \in Request : StateSection(r) => StateSection(r)'
  BY ZenonT(40), <1>1, <1>2 DEF StateSection, Knows
<1>4. client.request \in Request \cup {NoRequest}
  BY ZenonT(20), Types
<1> QED
  BY ZenonT(40), <1>1, <1>2, <1>3, <1>4 DEF StateInv, Knows

\* So does a read.
LEMMA ReadState ==
    ASSUME TypeOK, NumbersInv, StateInv, NEW q \in Request, ReadFlow(q)
    PROVE  StateInv'
<1>0. /\ ReadFrame(q) /\ StateRead(q) /\ request[q].pc = "read" /\ request'[q].pc = "read"
      /\ request'[q].since = request[q].since /\ request'[q].next_batch = request[q].next_batch
      /\ UNCHANGED <<streams, client, lost>>
  BY ZenonT(30), ReadStateSection DEF ReadFlow, ReadFrame, Reading
<1>1. \A r \in Request \ {q} : /\ request'[r].todo = request[r].todo
                               /\ request[r].pc = "idle" => request'[r].pc = "idle"
  BY ZenonT(20), <1>0 DEF ReadFrame, Waken
<1>2. request'[q].todo \cap StateParts \subseteq request[q].todo \cap StateParts
  BY ZenonT(20), <1>0 DEF StateRead
<1>3. ASSUME "timeline" \notin streams
      PROVE  DOMAIN tokens' = {} /\ \A r \in Request : request'[r].todo \cap StateParts = {}
  BY ZenonT(20), <1>0, <1>1, <1>2, <1>3 DEF StateInv, StateRead, StateParts
<1>4. ASSUME lost = 0
      PROVE  client.request = q /\ (\A r \in Request \ {q} : request'[r].pc = "idle") /\ StateSection(q)'
  <2>1. client.request = q /\ (\A r \in Request \ {q} : request[r].pc = "idle") /\ StateSection(q)
    BY Zenon, <1>0, <1>4, SyncAssumption DEF StateInv
  <2> SUFFICES StateSection(q)'
    BY ZenonT(20), <1>1, <2>1
  <2>2. /\ request[q].since = client.token
        /\ "associate" \notin request[q].todo => "state" \notin request[q].todo /\ "since_state" \notin request[q].todo
        /\ "since_state" \notin request[q].todo => Knows(request[q].got.since_state)
        /\ "timeline" \in streams /\ "associate" \notin request[q].todo =>
              Saved(request[q].next_batch) = request[q].got.state
        /\ "associate" \in request[q].todo \/ request[q].next_batch # request[q].since => Knows(Saved(client.token))
    BY ZenonT(20), <1>0, <2>1 DEF NumbersInv, InWindow, StateSection
  <2>3. CASE UNCHANGED tokens
    <3>1. \A n : NowSaved(n) = Saved(n)
      BY ZenonT(20), <2>3 DEF NowSaved, Saved
    <3>2. CASE /\ request'[q].todo \cap StateParts = request[q].todo \cap StateParts
               /\ request'[q].got.state = request[q].got.state
               /\ request'[q].got.since_state = request[q].got.since_state
      <4>1. \A p \in StateParts : p \in request'[q].todo <=> p \in request[q].todo
        BY ZenonT(20), <3>2
      <4> QED
        BY ZenonT(20), <1>0, <2>2, <3>1, <3>2, <4>1, SectionAfterRead DEF StateParts
    <3>3. CASE /\ "state" \in request[q].todo /\ request'[q].todo = request[q].todo \ {"state"}
               /\ request'[q].got.since_state = request[q].got.since_state
      BY ZenonT(20), <1>0, <2>2, <3>1, <3>3, SectionAfterRead
    <3>4. CASE /\ "since_state" \in request[q].todo
               /\ request'[q].todo = request[q].todo \ {"since_state"}
               /\ request'[q].got.state = request[q].got.state
               /\ request'[q].got.since_state = Saved(request[q].since)
      BY ZenonT(20), <1>0, <2>2, <3>1, <3>4, SectionAfterRead
    <3>5. CASE SavedAs(q) /\ "associate" \in request[q].todo /\ request'[q].todo = request[q].todo \ {"associate"}
               /\ request[q].todo \cap {"state", "since_state"} = {}
               /\ request'[q].got.state = request[q].got.state
               /\ request'[q].got.since_state = request[q].got.since_state
      BY ZenonT(20), <1>0, <2>2, <3>1, <3>5, SavesEffect, SectionAfterRead
    <3> QED
      BY ZenonT(20), <1>0, <3>2, <3>3, <3>4, <3>5 DEF StateRead
  <2>6. CASE /\ SavedAs(q) /\ "associate" \in request[q].todo
             /\ request'[q].todo = request[q].todo \ {"associate"}
             /\ request[q].todo \cap {"state", "since_state"} = {}
             /\ request'[q].got.state = request[q].got.state
             /\ request'[q].got.since_state = request[q].got.since_state
    BY Zenon, <1>0, <2>2, <2>6, SavesEffect, SectionAfterRead
  <2> QED
    BY ZenonT(20), <1>0, <1>1, <2>1, <2>3, <2>6 DEF StateRead
<1> QED
  BY Zenon, <1>0, <1>3, <1>4, SyncAssumption DEF StateInv, StateParts

\* What was saved is still saved while the table does not change.
LEMMA SavedSame == ASSUME UNCHANGED tokens PROVE \A n : NowSaved(n) = Saved(n)
BY ZenonT(20) DEF NowSaved, Saved

\* An answer that is complete and was not lost: what it says of the state, together with what
\* the device has, is the state it was built from.
LEMMA CompleteAnswer ==
    ASSUME TypeOK, StateInv, lost = 0, NEW q \in Request, client.request = q,
           request[q].pc \in {"read", "respond"}, request[q].todo = {}
    PROVE  /\ "timeline" \in streams => Saved(request[q].next_batch) = request[q].got.state
           /\ "timeline" \notin streams => \A n : Saved(n) = NoState
           /\ ~SendsState(q) => Knows(request[q].got.state)
<1>1. StateSection(q)
  BY Zenon, SyncAssumption DEF StateInv
<1>2. Knows(request[q].got.since_state)
  BY Zenon, <1>1 DEF StateSection
<1>3. "timeline" \notin streams => \A n : Saved(n) = NoState
  BY Zenon DEF StateInv, Saved
<1>4. ASSUME ~SendsState(q) PROVE Knows(request[q].got.state)
  BY Zenon, <1>2, <1>4, NoStateEvent DEF SendsState, Knows
<1> QED
  BY ZenonT(20), <1>1, <1>3, <1>4 DEF StateSection

\* Every step keeps StateInv.
LEMMA NextState ==
    ASSUME TypeOK, NumbersInv, StateInv, [Next]_vars
    PROVE  StateInv'
<1>0. TypeOK' /\ lost \in Nat /\ client.request \in Request \cup {NoRequest}
  BY ZenonT(20), NextType, Types DEF TypeOK
<1>1. CASE UNCHANGED vars
  BY Zenon, <1>1, WakenState DEF vars, Waken
<1>2. ASSUME NEW w \in Writer, Change(w) \/ WriterStep(w) PROVE StateInv'
  BY Zenon, <1>2, WriterEffect, ChangeEffect, WakenState DEF WriterFlow
<1>3. ASSUME NEW u \in TypingUser, typing_expires(u) PROVE StateInv'
  BY ZenonT(20), <1>3, ExpiresEffect, WakenState DEF WriterFlow
<1>4. ASSUME NEW q \in Request, NEW full \in BOOLEAN, sync_events_route(q, full) PROVE StateInv'
  <2>1. /\ UNCHANGED <<streams, tokens, lost>> /\ client.request = NoRequest /\ client'.request = q
        /\ request'[q].pc = "start" /\ request'[q].todo = {}
        /\ \A r \in Request \ {q} : request'[r] = request[r]
    BY <1>4, RouteEffect DEF db, bounds
  <2>2. client'.token = client.token /\ client'.state = client.state
    BY SMTT(20), <1>4, RouteEffect DEF TypeOK, ClientState
  <2>3. ASSUME lost = 0 PROVE Knows(Saved(client.token))
    BY ZenonT(20), <2>1, <2>3 DEF StateInv
  <2>4. lost = 0 => StateSection(q)'
    BY ZenonT(20), <2>1, <2>2, <2>3 DEF StateSection, Knows, Saved
  <2> QED
    BY ZenonT(40), <2>1, <2>4, SyncAssumption DEF StateInv
<1>5. ASSUME NEW q \in Request, give_up(q) PROVE StateInv'
  <2>1. lost' # 0 /\ UNCHANGED <<streams, tokens, request>>
    BY <1>0, <1>5, GiveUpEffect DEF db
  <2> QED
    BY Zenon, <2>1 DEF StateInv
<1>6. ASSUME NEW q \in Request, build_sync_events(q) PROVE StateInv'
  <2>1. /\ UNCHANGED <<streams, tokens, lost, client>> /\ request[q].pc \in {"start", "again"}
        /\ request'[q].pc = "read" /\ request'[q].todo = Parts
        /\ \A r \in Request \ {q} : request'[r] = request[r]
    BY Zenon, <1>6, BuildEffect DEF db, bounds
  <2>2. "timeline" \notin streams => Parts \cap StateParts = {}
    BY Zenon DEF Parts, StateParts
  <2>3. "timeline" \in streams => StateParts \subseteq Parts
    BY Zenon DEF Parts, StateParts
  <2>4. ASSUME lost = 0 PROVE client.request = q /\ StateSection(q)'
    <3>1. client.request = q /\ StateSection(q)
      BY Zenon, <2>1, <2>4, SyncAssumption DEF StateInv
    <3>2. Knows(Saved(client.token))
      BY ZenonT(20), <2>1, <3>1 DEF StateSection
    <3>3. CASE "timeline" \in streams
      <4>1. "state" \in Parts /\ "since_state" \in Parts /\ "associate" \in Parts
        BY ZenonT(20), <2>3, <3>3 DEF StateParts
      <4> QED
        BY Zenon, <2>1, <3>1, <3>2, <4>1, SavedSame, SectionAfterRead
    <3>4. CASE "timeline" \notin streams
      <4>1. "state" \notin Parts /\ "since_state" \notin Parts /\ "associate" \notin Parts
        BY ZenonT(20), <2>2, <3>4 DEF StateParts
      <4>2. request'[q].got.since_state = NoState
        BY SMTT(20), <1>6, BuildEffect DEF Nothing
      <4> QED
        BY Zenon, <2>1, <3>1, <3>2, <3>4, <4>1, <4>2, SavedSame, SectionAfterRead, NoStateEvent DEF Knows
    <3> QED
      BY Zenon, <3>3, <3>4
  <2> QED
    BY ZenonT(40), <2>1, <2>2, <2>4, SyncAssumption DEF StateInv, StateParts
<1>7. ASSUME NEW q \in Request, respond(q) PROVE StateInv'
  <2>1. /\ UNCHANGED <<streams, tokens, lost>> /\ request[q].pc = "respond"
        /\ request'[q].pc = "idle" /\ request'[q].todo = {}
        /\ \A r \in Request \ {q} : request'[r] = request[r]
    BY Zenon, <1>7, RespondEffect DEF db, bounds
  <2>2. ASSUME lost = 0
        PROVE  client.request = q /\ client'.request = NoRequest /\ Knows(Saved(client.token))'
    <3>1. client.request = q /\ request[q].todo = {}
      BY Zenon, <2>1, <2>2 DEF StateInv, NumbersInv, InWindow, Built
    <3>2. /\ client'.request = NoRequest /\ client'.token = request[q].next_batch
          /\ client'.state = IF SendsState(q) THEN request[q].got.state ELSE client.state
      BY ZenonT(30), <1>7, <3>1, RespondEffect
    <3>3. request[q].got.state \in StateEvent => client'.state = request[q].got.state
      BY ZenonT(20), <2>1, <2>2, <3>1, <3>2, CompleteAnswer DEF Knows
    <3>4. NowSaved(request[q].next_batch) \in StateEvent => client'.state = NowSaved(request[q].next_batch)
      BY ZenonT(40), <2>1, <2>2, <3>1, <3>3, CompleteAnswer, SavedSame, NoStateEvent
    <3> QED
      BY ZenonT(20), <3>1, <3>2, <3>4 DEF Knows, NowSaved, Saved
  <2> QED
    BY ZenonT(40), <2>1, <2>2 DEF StateInv
<1>8. ASSUME NEW q \in Request, RequestStep(q) PROVE StateInv'
  <2>1. CASE ReadFlow(q)
    BY ZenonT(20), <2>1, ReadState
  <2>2. CASE /\ UNCHANGED <<streams, count, db, writer, client, bounds>> /\ SameAnswer(q)
             /\ \A r \in Request \ {q} : request'[r] = request[r]
             /\ \/ /\ request[q].pc = "read" /\ request[q].todo = {}
                   /\ request'[q].pc = "respond" \/ (request'[q].pc = "watch" /\ ~SendsState(q))
                \/ request[q].pc \in {"watch", "wait", "woken"} /\ request'[q].pc \in {"wait", "again"}
    <3>1. UNCHANGED <<streams, tokens, client, lost>> /\ request'[q].todo = request[q].todo
      BY ZenonT(20), <2>2 DEF db, bounds, SameAnswer
    <3>2. ASSUME lost = 0 PROVE client.request = q /\ StateSection(q)'
      <4>1. client.request = q /\ StateSection(q)
        BY ZenonT(20), <2>2, <3>2, SyncAssumption DEF StateInv
      <4>2. CASE /\ request[q].pc = "read" /\ request[q].todo = {}
                 /\ request'[q].pc = "respond"
        BY ZenonT(40), <2>2, <3>1, <4>1, <4>2 DEF StateSection, Knows, Saved, SameAnswer
      <4>3. CASE /\ request[q].pc = "read" /\ request[q].todo = {}
                 /\ request'[q].pc = "watch" /\ ~SendsState(q)
        <5>1. request[q].since = client.token
          BY ZenonT(20), <4>1 DEF NumbersInv, InWindow
        <5>2. Knows(Saved(client.token))
          BY ZenonT(40), <3>2, <4>1, <4>3, <5>1, CompleteAnswer, NoStateEvent DEF StateSection, Knows
        <5> QED
          BY Zenon, <3>1, <4>1, <4>3, <5>2 DEF StateSection, Knows, Saved
      <4>4. CASE request[q].pc \in {"watch", "wait", "woken"} /\ request'[q].pc \in {"wait", "again"}
        BY ZenonT(20), <3>1, <4>1, <4>4 DEF StateSection, Knows, Saved
      <4> QED
        BY ZenonT(20), <2>2, <4>1, <4>2, <4>3, <4>4
    <3> QED
      BY ZenonT(40), <2>2, <3>1, <3>2, SyncAssumption DEF StateInv
  <2> QED
    BY SMTT(20), <1>6, <1>7, <1>8, <2>1, <2>2, RequestEffect
<1> QED
  BY ZenonT(20), <1>1, <1>2, <1>3, <1>4, <1>5, <1>8 DEF Next

\* StateInv holds at first.
LEMMA InitState == Init => StateInv
<1> SUFFICES ASSUME Init PROVE StateInv
  OBVIOUS
<1>1. /\ DOMAIN tokens = {} /\ client.request = NoRequest
      /\ \A q \in Request : request[q].pc = "idle" /\ request[q].todo = {}
  BY Zenon DEF Init, NewRequest
<1> QED
  BY Zenon, <1>1, NoStateEvent DEF StateInv, Knows, Saved

\* "Save the state after this sync so we can send the correct state diff next sync": as long as no
\* answer was lost, the state sections the device has taken in give it the state the answer was
\* built from, although the room changes while the parts of the answer are read.
THEOREM StateIsComplete == Spec => StateSectionsComplete
<1>1. TypeOK /\ NumbersInv /\ StateInv /\ [Next]_vars =>
         \A q \in Request : Accepts(q) /\ lost = 0 /\ request[q].got.state \notin {NoEvent, NoState} =>
            client'.state = request[q].got.state
  <2> SUFFICES ASSUME TypeOK, NumbersInv, StateInv, [Next]_vars, NEW q \in Request, Accepts(q), lost = 0,
                      request[q].got.state \notin {NoEvent, NoState}
               PROVE  client'.state = request[q].got.state
    BY Zenon
  <2>1. respond(q) /\ client.request = q /\ request[q].pc = "respond"
    BY Zenon, OnlyAnswers, RespondEffect DEF Accepts
  <2>2. request[q].todo = {}
    BY ZenonT(20), <2>1 DEF NumbersInv, InWindow, Built
  <2>3. request[q].got.state \in StateEvent
    BY Zenon, Types DEF Answer, RoomState
  <2> QED
    BY ZenonT(40), <2>1, <2>2, <2>3, CompleteAnswer, RespondEffect DEF Knows
<1>2. Spec => [](TypeOK /\ NumbersInv /\ StateInv)
  BY InitType, NextType, InitNumbers, NextNumbers, InitState, NextState, PTL DEF Spec
<1> QED
  BY <1>1, <1>2, PTL DEF Spec, StateSectionsComplete
=============================================================================
