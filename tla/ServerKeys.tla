----------------------------- MODULE ServerKeys -----------------------------
(***************************************************************************)
(* The signing keys of servers: our own pair, and a table of the keys that *)
(* other servers and notaries have sent, which signatures are checked      *)
(* with. A row is read, extended and written back over an await, by        *)
(* several tasks at a time. Current and old keys of a server are one set:  *)
(* both are looked up in the same way.                                     *)
(***************************************************************************)
EXTENDS Integers, Sequences, FiniteSets, SequencesExt, Tasks

CONSTANTS Server, Ours,          \* servers; our own
          trusted_servers,       \* the notaries, in the order of the configuration
          KeyConfig,             \* settings: notary_first, notary_first_on_join, notary_only
          Needs,                 \* the keys (server and number) that some event is signed with
          MaxKeyFaults           \* bound: requests that fail

ASSUME KeysAssumption == Ours \in Server /\ \A need \in Needs : \A i \in DOMAIN need : need[i][1] \in Server

VARIABLES key_config,
          server_signingkeys,    \* the keys stored of each server
          keypair, verify_key,   \* our pair in the database (0: none, -1: unusable); the active key (0: not running)
          missing,               \* the keys each task's batch still lacks
          published,             \* the keys each server publishes by now
          verified, raced,       \* keys a signature was checked with; servers whose row was written by overlapping additions
          key_faults

serverKeysVars == <<key_config, server_signingkeys, keypair, verify_key, missing, published, verified, raced, key_faults>>
others_keys == <<key_config, keypair, verify_key, published, key_faults>>

\* A step of a task that only reads.
looks == UNCHANGED <<others_keys, server_signingkeys, missing, raced>>

-----------------------------------------------------------------------------
(* The table.                                                              *)

verify_key_exists(s, k) == k \in server_signingkeys[s]
verify_keys_for(s) == server_signingkeys[s] \cup (IF s = Ours THEN {verify_key} ELSE {})

adds(s, keys) == <<[do |-> "add_signing_keys", server |-> s, keys |-> keys]>>

\* The row is read ...
add_signing_keys(t) ==
    /\ next_is(t, "add_signing_keys")
    /\ LET s == now(t).server
           overlaps == \E u \in Task \ {t} : next_is(u, "put_signing_keys") /\ now(u).server = s
       IN /\ goes_on(t, <<[do |-> "put_signing_keys", server |-> s, keys |-> now(t).keys,
                            row |-> server_signingkeys[s]]>>)
          /\ raced' = IF overlaps THEN raced \cup {s} ELSE raced
    /\ UNCHANGED <<others_keys, server_signingkeys, missing, verified>>

\* ... extended, and written back.
put_signing_keys_new(t) ==
    /\ next_is(t, "put_signing_keys") /\ steps_on(t)
    /\ server_signingkeys' = [server_signingkeys EXCEPT ![now(t).server] = now(t).keys]
    /\ UNCHANGED <<others_keys, missing, verified, raced>>
put_signing_keys(t) ==
    /\ next_is(t, "put_signing_keys") /\ steps_on(t)
    /\ server_signingkeys' = [server_signingkeys EXCEPT ![now(t).server] = now(t).row \cup now(t).keys]
    /\ UNCHANGED <<others_keys, missing, verified, raced>>

-----------------------------------------------------------------------------
(* Requests to other servers. A server answers with what it publishes, a   *)
(* notary with that or with older keys, or with none.                      *)

server_request(s) == IF s = Ours THEN {} ELSE {published[s]}
notary_request(s) == {{1}, published[s]}
fails == key_faults < MaxKeyFaults /\ key_faults' = key_faults + 1

-----------------------------------------------------------------------------
(* One key: the table, then the origin and the notaries in the order of    *)
(* the settings.                                                           *)

asks_for(s, k) == [do |-> "get_verify_key", server |-> s, key |-> k]

\* The key was found: the other sources are not asked.
found(t, s, k, first) ==
    /\ verified' = verified \cup {<<s, k>>}
    /\ ends_with(t, first \o SelectSeq(Tail(work[t]), LAMBDA x : x.do \notin {"from_origin", "from_notary"}))

get_verify_key(t) ==
    /\ next_is(t, "get_verify_key")
    /\ LET s == now(t).server
           k == now(t).key
           from(what, notary) == <<[do |-> what, server |-> s, key |-> k, notary |-> notary]>>
           origin == IF key_config.notary_only THEN <<>> ELSE from("from_origin", Ours)
           notaries == FoldSeq(LAMBDA n, steps : steps \o from("from_notary", n), <<>>, trusted_servers)
       IN IF k \in verify_keys_for(s) THEN found(t, s, k, <<>>)
          ELSE /\ goes_on(t, IF key_config.notary_first THEN notaries \o origin ELSE origin \o notaries)
               /\ UNCHANGED verified
    /\ looks

\* The key of an answer is used once all of the answer has been stored.
takes(t, answers) ==
    /\ \E keys \in answers :
          LET s == now(t).server
              k == now(t).key
          IN IF k \in keys THEN ends_with(t, adds(s, keys) \o <<[do |-> "extract_key", server |-> s, key |-> k]>>
                                                \o Tail(work[t]))
             ELSE goes_on(t, adds(s, keys))
    /\ UNCHANGED verified /\ looks

get_verify_key_from_origin(t) == next_is(t, "from_origin") /\ takes(t, server_request(now(t).server))
get_verify_key_from_notaries(t) == next_is(t, "from_notary") /\ takes(t, notary_request(now(t).server))
extract_key(t) == next_is(t, "extract_key") /\ found(t, now(t).server, now(t).key, <<>>) /\ looks

\* A notary that knows nothing of the server.
no_keys_from_notary(t) == next_is(t, "from_notary") /\ steps_on(t) /\ UNCHANGED verified /\ looks

\* The server or the notary does not answer.
request_fails(t) ==
    /\ \/ next_is(t, "from_origin") \/ next_is(t, "from_notary")
       \/ next_is(t, "acquire_origin") \/ next_is(t, "acquire_notary")
    /\ steps_on(t) /\ fails
    /\ UNCHANGED <<key_config, keypair, verify_key, published, server_signingkeys, missing, verified, raced>>

\* A request to ourselves is refused.
request_to_ourselves(t) ==
    /\ next_is(t, "from_origin") \/ next_is(t, "acquire_origin")
    /\ now(t).server = Ours /\ steps_on(t)
    /\ UNCHANGED verified /\ looks

-----------------------------------------------------------------------------
(* Many keys, for the events of a room that is joined.                     *)

servers_of(keys) == {x[1] : x \in keys}

\* The notaries first or last; each server in a request of its own. (Those run beside each
\* other, but on different rows.)
acquire_pubkeys(t) ==
    /\ next_is(t, "acquire_pubkeys")
    /\ LET lacks == {x \in now(t).batch : ~verify_key_exists(x[1], x[2])}
           notaries == FoldSeq(LAMBDA n, steps : Append(steps, [do |-> "acquire_notary", server |-> n]), <<>>, trusted_servers)
           origins == IF key_config.notary_only THEN <<>> ELSE <<[do |-> "acquire_origins"]>>
           first == key_config.notary_first \/ key_config.notary_first_on_join
       IN /\ missing' = [missing EXCEPT ![t] = lacks]
          /\ goes_on(t, IF lacks = {} THEN <<>> ELSE IF first THEN notaries \o origins ELSE origins \o notaries)
    /\ UNCHANGED <<others_keys, server_signingkeys, verified, raced>>

\* Nothing more is asked once nothing is missing.
acquires(t, steps, lacks) ==
    /\ missing' = [missing EXCEPT ![t] = lacks]
    /\ IF lacks = {}
       THEN ends_with(t, steps \o SelectSeq(Tail(work[t]), LAMBDA x : x.do \notin {"acquire_origins", "acquire_notary"}))
       ELSE goes_on(t, steps)
    /\ UNCHANGED <<others_keys, server_signingkeys, verified, raced>>

acquire_origins(t) ==
    /\ next_is(t, "acquire_origins")
    /\ goes_on(t, SetToSeq({[do |-> "acquire_origin", server |-> s] : s \in servers_of(missing[t])}))
    /\ UNCHANGED verified /\ looks

acquire_origin(t) ==
    /\ next_is(t, "acquire_origin")
    /\ LET s == now(t).server
       IN \E keys \in server_request(s) :
             acquires(t, adds(s, keys), {x \in missing[t] : ~(x[1] = s /\ x[2] \in keys)})

\* Of the servers a notary answers for, the keys it did send stay on the list, and those it
\* did not send are taken off it.
acquire_notary(t) ==
    /\ next_is(t, "acquire_notary")
    /\ \E served \in SUBSET servers_of(missing[t]) :
       \E answer \in [served -> {{1}, {2}, {1, 2}}] :
          /\ \A s \in served : answer[s] \in notary_request(s)
          /\ acquires(t, FlattenSeq(SetToSeq({adds(s, answer[s]) : s \in served})),
                      {x \in missing[t] : x[1] \in served => x[2] \in answer[x[1]]})

-----------------------------------------------------------------------------
(* What the keys are for.                                                  *)

\* An event that arrives: its keys are fetched one after the other.
verify_event(t, need) ==
    /\ verify_key # 0
    /\ begins(t, [i \in DOMAIN need |-> asks_for(need[i][1], need[i][2])])
    /\ UNCHANGED verified /\ looks

\* A request of another server, signed with one key.
auth_server(t, need) ==
    /\ verify_key # 0
    /\ begins(t, <<asks_for(need[1][1], need[1][2])>>)
    /\ UNCHANGED verified /\ looks

\* A join: the keys of all events are fetched at once, and then each event checked without
\* asking anyone again.
join_room(t, need) ==
    /\ verify_key # 0
    /\ begins(t, <<[do |-> "acquire_pubkeys", batch |-> ToSet(need)],
                   [do |-> "validate_no_fetch", need |-> need]>>)
    /\ UNCHANGED verified /\ looks

validate_and_add_event_id_no_fetch(t) ==
    /\ next_is(t, "validate_no_fetch")
    /\ LET need == now(t).need
       IN goes_on(t, IF \A i \in DOMAIN need : verify_key_exists(need[i][1], need[i][2])
                     THEN [i \in DOMAIN need |-> asks_for(need[i][1], need[i][2])] ELSE <<>>)
    /\ missing' = [missing EXCEPT ![t] = {}]
    /\ UNCHANGED <<others_keys, server_signingkeys, verified, raced>>

-----------------------------------------------------------------------------
(* Our own key, and the other servers'.                                    *)

\* The server is started: the pair is loaded, or made; an unusable one is deleted and the
\* start fails.
load(new) ==
    /\ verify_key = 0
    /\ keypair' = IF keypair = 0 THEN new ELSE IF keypair = -1 THEN 0 ELSE keypair
    /\ verify_key' = IF keypair = -1 THEN 0 ELSE keypair'
    /\ UNCHANGED <<key_config, server_signingkeys, missing, published, verified, raced, key_faults, taskVars>>

\* It stops, and with it all tasks.
stops ==
    /\ verify_key # 0 /\ verify_key' = 0
    /\ fails
    /\ work' = [t \in Task |-> <<>>] /\ missing' = [t \in Task |-> {}]
    /\ UNCHANGED <<key_config, keypair, server_signingkeys, published, verified, raced, started>>

\* A server takes a new key, and at some time does not publish the old one any more.
publishes(s) ==
    /\ s # Ours /\ 1 \in published[s]
    /\ published' = [published EXCEPT ![s] = IF @ = {1} THEN {1, 2} ELSE {2}]
    /\ UNCHANGED <<key_config, server_signingkeys, keypair, verify_key, missing, verified, raced, key_faults, taskVars>>

no_server_keys ==
    /\ server_signingkeys = [s \in Server |-> {}] /\ missing = [t \in Task |-> {}]
    /\ published = [s \in Server |-> {1}]
    /\ verified = {} /\ raced = {} /\ key_faults = 0 /\ verify_key = 0
InitServerKeys == no_server_keys /\ key_config \in KeyConfig /\ keypair \in {-1, 0}
IdleServerKeys == no_server_keys /\ key_config = (CHOOSE c \in KeyConfig : TRUE) /\ keypair = 0

serverKeysDone == all_idle /\ started = MaxStarted /\ UNCHANGED <<serverKeysVars, taskVars>>

NextServerKeys ==
    \/ \E t \in Task :
          \/ \E need \in Needs : verify_event(t, need) \/ auth_server(t, need) \/ join_room(t, need)
          \/ add_signing_keys(t) \/ put_signing_keys(t)
          \/ get_verify_key(t) \/ get_verify_key_from_origin(t) \/ get_verify_key_from_notaries(t)
          \/ no_keys_from_notary(t) \/ extract_key(t) \/ request_fails(t) \/ request_to_ourselves(t)
          \/ acquire_pubkeys(t) \/ acquire_origins(t) \/ acquire_origin(t) \/ acquire_notary(t)
          \/ validate_and_add_event_id_no_fetch(t)
    \/ load(1) \/ stops
    \/ \E s \in Server : publishes(s)
    \/ serverKeysDone

\* A key that a signature was checked with is in the table from then on: the signatures it made
\* can be checked again when its server is gone, or publishes other keys. Rows that two tasks
\* extended at the same time are excepted ("Not atomic, but this is not critical"), and our
\* own, whose active key is not in the table.
UsedKeysKept ==
    \A x \in verified : x[1] = Ours \/ x[1] \in raced \/ x[2] \in server_signingkeys[x[1]]
=============================================================================
