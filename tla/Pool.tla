-------------------------------- MODULE Pool --------------------------------
(***************************************************************************)
(* The threads that query the database. A query that is not answered from  *)
(* the cache is a command in one of several bounded queues; a thread takes *)
(* it and answers through a channel of its own. A future that is dropped   *)
(* leaves its command behind. Commands keep the database open: whoever     *)
(* drops the last reference closes the pool and joins its threads.         *)
(***************************************************************************)
EXTENDS Integers, Sequences, FiniteSetsExt

CONSTANTS Reader,      \* queries, one each
          Core,        \* processors, numbered from 0
          DbSetup      \* block devices and settings

ASSUME PoolAssumption ==
    \A c \in DbSetup :
        \* Of each hardware queue: its number, processors and tags; 0 if not known.
        /\ \A i \in DOMAIN c.mq : {c.mq[i].id, c.mq[i].nr_tags, c.nr_requests} \subseteq Nat
        /\ {c.db_pool_workers, c.db_pool_workers_limit, c.db_pool_queue_mult} \subseteq Nat \ {0}

VARIABLES db_setup,
          db_queue,    \* the commands in each queue
          db_thread,   \* the command each thread has, "wait" or "joined"
          query,       \* how far each reader is
          asked_of,    \* the queue its command goes to
          pool,        \* "open", "closing", "closed", or "panicked"
          closer,      \* who closes it: the main thread (0) or one of its own
          held         \* the services still have the database

poolVars == <<db_setup, db_queue, db_thread, query, asked_of, pool, closer, held>>

WORKER_LIMIT == <<1, 1024>>
QUEUE_LIMIT == <<1, 4096>>
clamp(n, limit) == Max({limit[1], Min({n, limit[2]})})
Sums(q) == MapThenSumSet(LAMBDA i : q[i], DOMAIN q)

-----------------------------------------------------------------------------
(* The layout of the pool.                                                 *)

available(mq) == mq.cpus \cap Core # {}

\* Each hardware queue that serves a processor of ours gets threads; without any there is
\* one queue.
worker_counts(c) ==
    LET limit(mq) == c.db_pool_workers_limit * Max({Cardinality(mq.cpus \cap Core), 1})
        count(mq) == Min({Max({mq.nr_tags, WORKER_LIMIT[1]}), limit(mq)}
                         \cup (IF c.nr_requests = 0 THEN {} ELSE {c.nr_requests}))
        served == SelectSeq(c.mq, available)
    IN IF c.mq = <<>> THEN <<c.db_pool_workers>> ELSE [i \in DOMAIN served |-> count(served[i])]

queue_sizes(c) == [i \in DOMAIN worker_counts(c) |-> clamp(worker_counts(c)[i] * c.db_pool_queue_mult, QUEUE_LIMIT)]

\* Queues without a known number of tags do not count towards the maximum.
total_workers(c) ==
    LET tags == Sums([i \in DOMAIN c.mq |-> c.mq[i].nr_tags])
        max_workers == clamp(IF c.mq = <<>> THEN c.db_pool_workers ELSE tags, WORKER_LIMIT)
    IN clamp(Sums(worker_counts(c)), <<WORKER_LIMIT[1], max_workers>>)

\* The number of the hardware queue of a processor, which is taken for an index of ours.
topology(c, core) ==
    LET of == {i \in DOMAIN c.mq : core \in c.mq[i].cpus} IN IF of = {} THEN 0 ELSE c.mq[Max(of)].id

\* "some workers expected", "some queues expected", "positive queue sizes expected".
ASSUME ConfigureAssumption ==
    \A c \in DbSetup : /\ total_workers(c) \in Nat \ {0}
                       /\ queue_sizes(c) \in Seq(Nat \ {0}) /\ queue_sizes(c) # <<>>

queues == DOMAIN queue_sizes(db_setup)
threads == 1 .. total_workers(db_setup)
group(w) == ((w - 1) % Len(queue_sizes(db_setup))) + 1
select_queue(core) == IF topology(db_setup, core) + 1 \in queues THEN topology(db_setup, core) + 1 ELSE 1

\* A queue no thread receives from was closed when the pool was made.
receiver_count(q) == Cardinality({w \in threads : group(w) = q /\ db_thread[w][1] # "joined"})

-----------------------------------------------------------------------------
(* Queries.                                                                *)

asks(r, how) ==
    /\ query[r] = "idle" /\ held
    /\ query' = [query EXCEPT ![r] = how]
    /\ \E core \in Core : asked_of' = [asked_of EXCEPT ![r] = select_queue(core)]
    /\ UNCHANGED <<db_setup, db_queue, db_thread, pool, closer, held>>

\* The cache is tried first, but not for batches; a stream has its iterator by then.
get(r) == asks(r, "answered") \/ asks(r, "execute_get")
get_batch(r) == asks(r, "execute_get")
raw_stream_from(r) == asks(r, "answered") \/ asks(r, "execute_iter")

rev_raw_stream_from(r) == raw_stream_from(r)

\* The command waits for room in the queue.
execute(r) ==
    /\ query[r] \in {"execute_get", "execute_iter"}
    /\ LET q == asked_of[r]
       IN \/ /\ receiver_count(q) = 0
             /\ query' = [query EXCEPT ![r] = "failed"] /\ UNCHANGED db_queue
          \/ /\ receiver_count(q) > 0
             /\ Len(db_queue[q]) < queue_sizes(db_setup)[q]
             /\ db_queue' = [db_queue EXCEPT ![q] = Append(@, r)]
             /\ query' = [query EXCEPT ![r] = "recv"]
    /\ UNCHANGED <<db_setup, db_thread, asked_of, pool, closer, held>>

\* The future is dropped, with the task that waited for it.
drop_query(r) ==
    /\ query[r] \in {"execute_get", "execute_iter", "recv"}
    /\ query' = [query EXCEPT ![r] = "cancelled"]
    /\ UNCHANGED <<db_setup, db_queue, db_thread, asked_of, pool, closer, held>>

-----------------------------------------------------------------------------
(* Threads.                                                                *)

worker_wait(w) ==
    LET q == group(w)
    IN /\ db_thread[w][1] = "wait" /\ db_queue[q] # <<>>
       /\ db_thread' = [db_thread EXCEPT ![w] = <<"handle", Head(db_queue[q])>>]
       /\ db_queue' = [db_queue EXCEPT ![q] = Tail(@)]
       /\ UNCHANGED <<db_setup, query, asked_of, pool, closer, held>>

\* A query nobody waits for is not made. The answer is sent before the command is dropped.
worker_handle(w) ==
    /\ db_thread[w][1] = "handle"
    /\ LET r == db_thread[w][2]
       IN /\ query' = IF query[r] = "cancelled" THEN query ELSE [query EXCEPT ![r] = "answered"]
          /\ db_thread' = [db_thread EXCEPT ![w] = <<"drop", r>>]
    /\ UNCHANGED <<db_setup, db_queue, asked_of, pool, closer, held>>

\* Commands that hold a reference to the database.
outstanding_in_hand(others) == {w \in others : db_thread[w][1] \notin {"wait", "joined"}} # {}
outstanding(others) == \/ \E q \in queues : db_queue[q] # <<>>
                       \/ {w \in others : db_thread[w][1] \notin {"wait", "joined"}} # {}

\* The context closes the pool when it is dropped; a thread of the pool cannot join itself.
close(by) ==
    /\ closer' = by
    /\ pool' = IF by = 0 THEN "closing" ELSE "panicked"

drop_command(w) ==
    /\ db_thread[w][1] = "drop"
    /\ db_thread' = [db_thread EXCEPT ![w] = <<"wait">>]
    /\ IF held \/ outstanding(threads \ {w}) THEN UNCHANGED <<pool, closer>> ELSE close(w)
    /\ UNCHANGED <<db_setup, db_queue, query, asked_of, held>>

\* The services are dropped: no query of theirs is under way any more.
drop_database ==
    /\ held /\ held' = FALSE
    /\ \A r \in Reader : query[r] \notin {"execute_get", "execute_iter", "recv"}
    /\ IF outstanding(threads) THEN UNCHANGED <<pool, closer>> ELSE close(0)
    /\ UNCHANGED <<db_setup, db_queue, db_thread, query, asked_of>>

\* A closed queue is emptied first.
worker_ends(w) ==
    /\ pool = "closing" /\ db_thread[w][1] = "wait" /\ db_queue[group(w)] = <<>>
    /\ db_thread' = [db_thread EXCEPT ![w] = <<"joined">>]
    /\ UNCHANGED <<db_setup, db_queue, query, asked_of, pool, closer, held>>

close_returns ==
    /\ pool = "closing" /\ \A w \in threads : db_thread[w][1] = "joined"
    /\ pool' = "closed"
    /\ UNCHANGED <<db_setup, db_queue, db_thread, query, asked_of, closer, held>>

InitPool ==
    /\ db_setup \in DbSetup
    /\ db_queue = [q \in queues |-> <<>>] /\ db_thread = [w \in threads |-> <<"wait">>]
    /\ query = [r \in Reader |-> "idle"] /\ asked_of = [r \in Reader |-> 1]
    /\ pool = "open" /\ closer = 0 /\ held = TRUE

\* Nothing is asked of the pool.
IdlePool == InitPool /\ db_setup = CHOOSE c \in DbSetup : TRUE

poolDone == pool \in {"closed", "panicked"} /\ UNCHANGED poolVars

NextPool ==
    \/ \E r \in Reader : get(r) \/ get_batch(r) \/ raw_stream_from(r) \/ rev_raw_stream_from(r) \/ execute(r) \/ drop_query(r)
    \/ \E w \in threads : worker_wait(w) \/ worker_handle(w) \/ drop_command(w) \/ worker_ends(w)
    \/ drop_database \/ close_returns \/ poolDone

SpecPool == InitPool /\ [][NextPool]_poolVars

-----------------------------------------------------------------------------
PoolTypeOK ==
    /\ \A q \in queues : Len(db_queue[q]) <= queue_sizes(db_setup)[q]
    /\ query \in [Reader -> {"idle", "execute_get", "execute_iter", "recv", "answered", "failed", "cancelled"}]
    /\ pool \in {"open", "closing", "closed", "panicked"} /\ closer \in {0} \cup threads

\* When the pool is closed, no command is queued or in the hands of a thread, and nobody waits
\* for an answer: "channel must should not have requests queued on drop". It holds although
\* futures are dropped at any time and leave their commands behind, because every command
\* keeps the database open.
NothingQueuedOnClose ==
    pool # "open" =>
        /\ \A q \in queues : db_queue[q] = <<>>
        /\ \A w \in threads : db_thread[w][1] \in {"wait", "joined"}
        /\ \A r \in Reader : query[r] # "recv"

\* Commands keep the database open, and whoever holds the database keeps the pool open: when
\* the services have let go no query is under way, and when the last command is gone nothing
\* is left to queue another.
Unanswered == {"execute_get", "execute_iter", "recv"}
PoolInv ==
    /\ db_setup \in DbSetup
    /\ db_queue \in [queues -> Seq(Reader)]
    /\ db_thread \in [threads -> {<<"wait">>, <<"joined">>} \cup ({"handle", "drop"} \X Reader)]
    /\ query \in [Reader -> {"idle", "answered", "failed", "cancelled"} \cup Unanswered]
    /\ pool # "open" =>
          /\ ~held
          /\ \A q \in queues : db_queue[q] = <<>>
          /\ \A w \in threads : db_thread[w][1] \in {"wait", "joined"}
    /\ ~held => \A r \in Reader : query[r] \notin Unanswered
=============================================================================
