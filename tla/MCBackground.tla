---------------------------- MODULE MCBackground ----------------------------
(***************************************************************************)
(* What runs beside the requests, or beneath them: the sender's workers,   *)
(* the threads of the database and the keys of its tables, the workers of  *)
(* all services from start to shutdown, the keys of other servers, and the *)
(* way to their addresses.                                                 *)
(* They share no state that their properties speak of, so a behaviour      *)
(* exercises one of them, the focus.                                       *)
(***************************************************************************)
EXTENDS MCSending, Lifecycle, Pool, ServerKeys, Resolver, DbKeys

VARIABLE focus

backgroundVars == <<vars, lifeVars, poolVars, serverKeysVars, resolverVars, dbKeysVars, taskVars, focus>>

InitBackground ==
    /\ focus \in {"sending", "lifecycle", "pool", "server_keys", "resolver", "db_keys"}
    /\ Init
    /\ IF focus = "lifecycle" THEN InitLifecycle ELSE IdleLifecycle
    /\ IF focus = "pool" THEN InitPool ELSE IdlePool
    /\ IF focus = "server_keys" THEN InitServerKeys ELSE IdleServerKeys
    /\ IF focus = "resolver" THEN InitResolver ELSE IdleResolver
    /\ IF focus = "db_keys" THEN InitDbKeys ELSE IdleDbKeys
    /\ InitTasks(0)

NextBackground ==
    /\ UNCHANGED focus
    /\ IF focus = "sending" THEN Next ELSE UNCHANGED vars
    /\ IF focus = "lifecycle" THEN NextLifecycle ELSE UNCHANGED lifeVars
    /\ IF focus = "pool" THEN NextPool ELSE UNCHANGED poolVars
    /\ IF focus = "server_keys" THEN NextServerKeys ELSE UNCHANGED serverKeysVars
    /\ IF focus = "resolver" THEN NextResolver ELSE UNCHANGED resolverVars
    /\ IF focus = "db_keys" THEN NextDbKeys ELSE UNCHANGED dbKeysVars
    /\ focus \notin {"server_keys", "resolver"} => UNCHANGED taskVars

SpecBackground == InitBackground /\ [][NextBackground]_backgroundVars

MCMq(tags) == << [id |-> 0, cpus |-> {0}, nr_tags |-> tags], [id |-> 1, cpus |-> {1}, nr_tags |-> tags] >>
MCDbSetup == {[mq |-> m, nr_requests |-> 1, db_pool_workers |-> 2, db_pool_workers_limit |-> 2, db_pool_queue_mult |-> 1] :
                 m \in {<<>>, MCMq(0), MCMq(1)}}

MCKeyConfig == {[notary_first |-> x[1], notary_first_on_join |-> x[2], notary_only |-> x[3]] :
                   x \in {<<FALSE, TRUE, FALSE>>, <<TRUE, TRUE, TRUE>>, <<FALSE, FALSE, FALSE>>}}
MCNeeds == {<< <<"s1", 1>> >>, << <<"s1", 2>> >>, << <<"s1", 1>>, <<"us", 1>> >>}
MCNotaries == <<"n1">>

MCServer(h, p) == [host |-> h, port |-> p]
MCNoName == MCServer("none", 0)
MCName == {MCServer("a", 0), MCServer("b", 0), MCServer("b", 443), MCServer("c", 443)}
MCHost == {"a", "b", "c"}
MCWorld == {[well_known |-> [n \in MCName |-> IF n = MCServer("a", 0) THEN d ELSE MCNoName],
             srv |-> [h \in MCHost |-> IF h = x THEN MCServer("c", 7) ELSE MCNoName],
             ip |-> [h \in MCHost |-> IF h = x /\ ~both THEN "" ELSE "address of " \o h]] :
              d \in {MCNoName, MCServer("b", 0), MCServer("c", 5), MCServer("l", 0)}, x \in {"a", "b"}, both \in BOOLEAN}

\* A table: the types of its keys, as they are read, and how many first elements its scans give.
MCTable(ts, rs, p, f, r) == [types |-> ts, reads |-> rs, prefixes |-> p, froms |-> f, revs |-> r]
MCWord == {<<0>>, <<0, 1>>}
MCLayout ==
    {\* todeviceid_events
     MCTable(<<"str", "str", "num">>, <<"str", "str", "num">>, {}, {2}, {2}),
     \* readreceiptid_readreceipt
     MCTable(<<"str", "num", "str">>, <<"str", "num", "str">>, {}, {1}, {}),
     \* roomuserdataid_accountdata
     MCTable(<<"opt", "str", "num", "last">>, <<"opt", "str", "num", "ignore">>, {}, {2}, {}),
     \* backupid_algorithm, and tables of pairs such as userdeviceid_metadata
     MCTable(<<"str", "str">>, <<"str", "str">>, {1}, {}, {1}),
     \* onetimekeyid_onetimekeys and other keys of more strings
     MCTable(<<"str", "str", "str">>, <<"str", "str", "str">>, {1, 2}, {}, {})}
=============================================================================
