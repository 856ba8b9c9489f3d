-------------------------------- MODULE Sending --------------------------------
(***************************************************************************)
(* The outgoing side of the homeserver (src/src/service/sending): events   *)
(* are first written to a persistent queue, then announced to a sender     *)
(* worker over an in-memory channel.  A worker owns the destinations of    *)
(* its shard, keeps a volatile status per destination, moves queued events *)
(* to the persistent "active" table, sends them as one transaction and     *)
(* deletes the whole active table of the destination once the transaction  *)
(* is acknowledged.                                                        *)
(*                                                                         *)
(* Persistent state: queue (servernameevent_data), active                  *)
(* (servercurrentevent_data).  Everything else but the history variables   *)
(* is lost by a restart.                                                   *)
(***************************************************************************)
EXTENDS Integers, FiniteSets, Sequences

CONSTANTS
    Federation,       \* destinations that are remote servers
    Appservice,       \* destinations that are appservices
    Push,             \* destinations that are push gateways
    Worker,           \* sender workers, one per channel
    Key,              \* keys of events in the two tables, in the tables' order
    Flush,            \* the empty queue id of SendingEvent::Flush
    NoDest,           \* a worker that is between two handlers
    shard_id,         \* the worker that owns a destination
    DEQUEUE_LIMIT,    \* events taken from the queue for one transaction
    startup_netburst, \* config: resend active events at startup
    startup_netburst_keep, \* config: active events kept per destination, -1 all
    ChannelBound,     \* bound: flushes are not issued onto a longer channel
    MaxRestarts       \* bound: restarts and crashes of the process

Dest == Federation \cup Appservice \cup Push

ASSUME KeyAssumption == Key \subseteq Int /\ Flush \notin Key
ASSUME NoDestAssumption == NoDest \notin Dest
ASSUME ShardAssumption == shard_id \in [Dest -> Worker]
ASSUME LimitAssumption == DEQUEUE_LIMIT \in Nat \ {0}
ASSUME ConfigAssumption ==
    startup_netburst \in BOOLEAN /\ startup_netburst_keep \in Int
ASSUME BoundAssumption == ChannelBound \in Nat /\ MaxRestarts \in Nat

VARIABLES
    queue,     \* [Dest -> SUBSET Key]: servernameevent_data
    active,    \* [Dest -> SUBSET Key]: servercurrentevent_data
    calls,     \* queued by a caller that has not reached dispatch() yet
    chan,      \* [Worker -> Seq(Msg)]: the channel of each worker
    closed,    \* interrupt() has closed the channels
    statuses,  \* [Dest -> Status]: CurTransactionStatus, "vacant" for no entry
    hot,       \* [Dest -> BOOLEAN]: the backoff of a failed one still runs
    futures,   \* [Dest -> Seq(Txn)]: transactions in flight
    pc,        \* [Worker -> where the worker's task is]
    cur,       \* [Worker -> Dest]: destination the current handler works on
    batch,     \* [Worker -> SUBSET Key]: events mark_as_active still has to move
    next,      \* [Worker -> SUBSET Key]: events of the transaction being composed
    cleaning,  \* destinations between the two halves of cleanup_events
    restarts,  \* restarts so far (bounded by MaxRestarts)
    accepted,  \* history, [Dest -> SUBSET Key]: events that were queued
    received,  \* history: events the remote side has processed
    acked,     \* history: events of transactions that returned Ok
    dropped    \* history: events deleted by the netburst trim or a cleanup

db == <<queue, active>>
io == <<calls, chan, closed>>
worker == <<pc, cur, batch, next>>
history == <<accepted, received, acked, dropped>>
vars == <<db, io, statuses, hot, futures, worker, cleaning, restarts, history>>

Status == {"vacant", "running", "failed", "retrying"}
Msg == [dest : Dest, key : Key \cup {Flush}]
Txn == [keys : SUBSET Key, arrived : BOOLEAN]
Pc == {"netburst", "idle", "dequeue", "mark", "drain", "stopped", "panicked"}

TypeOK ==
    /\ queue \in [Dest -> SUBSET Key] /\ active \in [Dest -> SUBSET Key]
    /\ calls \subseteq Dest \X Key
    /\ chan \in [Worker -> Seq(Msg)]
    /\ closed \in BOOLEAN
    /\ statuses \in [Dest -> Status] /\ hot \in [Dest -> BOOLEAN]
    /\ futures \in [Dest -> Seq(Txn)]
    /\ pc \in [Worker -> Pc] /\ cur \in [Worker -> Dest \cup {NoDest}]
    /\ \A w \in Worker : pc[w] \in {"dequeue", "mark"} => cur[w] \in Dest
    /\ batch \in [Worker -> SUBSET Key] /\ next \in [Worker -> SUBSET Key]
    /\ cleaning \subseteq Appservice \cup Push
    /\ restarts \in 0 .. MaxRestarts
    /\ accepted \in [Dest -> SUBSET Key] /\ received \in [Dest -> SUBSET Key]
    /\ acked \in [Dest -> SUBSET Key] /\ dropped \in [Dest -> SUBSET Key]

-----------------------------------------------------------------------------
(* Tables and helpers.                                                     *)

Empty == [d \in Dest |-> {}]

\* The first n keys of S in the order of the table.
FirstN(S, n) == {k \in S : Cardinality({j \in S : j < k}) < n}

\* Add keys to a history variable of one destination.
Note(h, d, ks) == [h EXCEPT ![d] = @ \cup ks]

\* The transactions that stay in flight once the i-th is answered.
Without(s, i) == SubSeq(s, 1, i - 1) \o SubSeq(s, i + 1, Len(s))

\* send_events: one more transaction in flight for d.
send_events(d, ks) == [futures EXCEPT ![d] = Append(@, [keys |-> ks, arrived |-> FALSE])]

\* Where a worker goes after a handler: the condition of the work loop.
Loop == IF closed THEN "drain" ELSE "idle"

Init ==
    /\ queue = Empty /\ active = Empty
    /\ calls = {} /\ chan = [w \in Worker |-> <<>>] /\ closed = FALSE
    /\ statuses = [d \in Dest |-> "vacant"] /\ hot = [d \in Dest |-> FALSE]
    /\ futures = [d \in Dest |-> <<>>]
    /\ pc = [w \in Worker |-> "netburst"]
    /\ cur = [w \in Worker |-> NoDest]
    /\ batch = [w \in Worker |-> {}] /\ next = [w \in Worker |-> {}]
    /\ cleaning = {} /\ restarts = 0
    /\ accepted = Empty /\ received = Empty /\ acked = Empty /\ dropped = Empty

-----------------------------------------------------------------------------
(* Callers of the sending service.                                         *)

\* send_pdu_servers, send_edu_servers (D any servers), send_pdu_push,
\* send_pdu_appservice and send_edu_server (D one destination), first half:
\* queue_requests() writes one row per destination in one batch.
queue_requests(D, k) ==
    /\ D # {} /\ (D \subseteq Federation \/ Cardinality(D) = 1)
    /\ \A d \in D : k \notin accepted[d]
    /\ queue' = [d \in Dest |-> IF d \in D THEN queue[d] \cup {k} ELSE queue[d]]
    /\ accepted' = [d \in Dest |-> IF d \in D THEN accepted[d] \cup {k} ELSE accepted[d]]
    /\ calls' = calls \cup (D \X {k})
    /\ UNCHANGED <<active, chan, closed, statuses, hot, futures, worker, cleaning,
                   restarts, received, acked, dropped>>

\* Mutant: the shard is not computed from the destination.
dispatch_any_worker(d, k) ==
    /\ <<d, k>> \in calls
    /\ calls' = calls \ {<<d, k>>}
    /\ \E w \in Worker : chan' = [chan EXCEPT ![w] = Append(@, [dest |-> d, key |-> k])]
    /\ UNCHANGED <<db, closed, statuses, hot, futures, worker, cleaning, restarts, history>>

\* Second half: dispatch() announces one row to the owner's channel; on a
\* closed channel it returns an error and the row stays where it is.
dispatch(d, k) ==
    /\ <<d, k>> \in calls
    /\ calls' = calls \ {<<d, k>>}
    /\ chan' = IF closed THEN chan
               ELSE [chan EXCEPT ![shard_id[d]] = Append(@, [dest |-> d, key |-> k])]
    /\ UNCHANGED <<db, closed, statuses, hot, futures, worker, cleaning, restarts, history>>

\* flush_servers: announces a destination without queueing anything.
flush_servers(d) ==
    /\ d \in Federation /\ ~closed
    /\ Len(chan[shard_id[d]]) < ChannelBound
    /\ chan' = [chan EXCEPT ![shard_id[d]] = Append(@, [dest |-> d, key |-> Flush])]
    /\ UNCHANGED <<db, calls, closed, statuses, hot, futures, worker, cleaning, restarts, history>>

\* cleanup_events, on removal of an appservice or a pusher: its active rows
\* are deleted, and then its queued ones; the workers are not told.
cleanup_active(d) ==
    /\ d \in Appservice \cup Push /\ d \notin cleaning
    /\ active[d] \cup queue[d] # {}
    /\ active' = [active EXCEPT ![d] = {}]
    /\ dropped' = Note(dropped, d, active[d])
    /\ cleaning' = cleaning \cup {d}
    /\ UNCHANGED <<queue, io, statuses, hot, futures, worker, restarts, accepted, received, acked>>

cleanup_queued(d) ==
    /\ d \in cleaning
    /\ queue' = [queue EXCEPT ![d] = {}]
    /\ dropped' = Note(dropped, d, queue[d])
    /\ cleaning' = cleaning \ {d}
    /\ UNCHANGED <<active, io, statuses, hot, futures, worker, restarts, accepted, received, acked>>

\* interrupt: the server is shutting down, to be started again later.
interrupt ==
    /\ ~closed /\ restarts < MaxRestarts
    /\ closed' = TRUE
    /\ UNCHANGED <<db, calls, chan, statuses, hot, futures, worker, cleaning, restarts, history>>

-----------------------------------------------------------------------------
(* The sender worker.                                                      *)

\* What startup_netburst leaves in the active table of a destination.
Kept(d) == IF startup_netburst_keep >= 0 THEN FirstN(active[d], startup_netburst_keep)
           ELSE active[d]

\* startup_netburst: trim the active table of every destination of the shard
\* and, if configured, resend what is left.  The queue is not looked at.
startup_netburst_step(w) ==
    LET mine == {d \in Dest : shard_id[d] = w}
        sent == {d \in mine : startup_netburst /\ Kept(d) # {}}
    IN /\ pc[w] = "netburst"
       /\ active' = [d \in Dest |-> IF d \in mine THEN Kept(d) ELSE active[d]]
       /\ dropped' = [d \in Dest |-> IF d \in mine THEN dropped[d] \cup (active[d] \ Kept(d))
                                     ELSE dropped[d]]
       /\ statuses' = [d \in Dest |-> IF d \in sent THEN "running" ELSE statuses[d]]
       /\ futures' = [d \in Dest |-> IF d \in sent THEN send_events(d, Kept(d))[d] ELSE futures[d]]
       /\ pc' = [pc EXCEPT ![w] = Loop]
       /\ UNCHANGED <<queue, io, hot, cur, batch, next, cleaning, restarts, accepted, received, acked>>

\* Mutant: the error of a transaction is not returned.
MayReturnOk_ignores_errors(d, t) == TRUE

\* When the future of transaction t can return Ok: a federation transaction
\* without content is not sent at all, and the push gateway's errors are ignored.
MayReturnOk(d, t) ==
    \/ t.arrived
    \/ d \in Federation /\ t.keys = {}
    \/ d \in Push

\* handle_response_ok, first half: every active row of the destination goes.
handle_response_ok(w, d, i) ==
    /\ pc[w] = "idle" /\ shard_id[d] = w /\ i \in DOMAIN futures[d]
    /\ MayReturnOk(d, futures[d][i])
    /\ futures' = [futures EXCEPT ![d] = Without(@, i)]
    /\ acked' = Note(acked, d, futures[d][i].keys)
    /\ active' = [active EXCEPT ![d] = {}]
    /\ pc' = [pc EXCEPT ![w] = "dequeue"] /\ cur' = [cur EXCEPT ![w] = d]
    /\ UNCHANGED <<queue, io, statuses, hot, batch, next, cleaning, restarts,
                   accepted, received, dropped>>

\* Mutant: the events queued meanwhile are not picked up.
dequeue_nothing(w) ==
    /\ pc[w] = "dequeue"
    /\ statuses' = [statuses EXCEPT ![cur[w]] = "vacant"]
    /\ pc' = [pc EXCEPT ![w] = Loop] /\ cur' = [cur EXCEPT ![w] = NoDest]
    /\ UNCHANGED <<db, io, hot, futures, batch, next, cleaning, restarts, history>>

\* handle_response_ok, second half: pick up what was queued meanwhile; with
\* nothing queued the destination becomes idle.
dequeue(w) ==
    LET d == cur[w]
        new_events == FirstN(queue[d], DEQUEUE_LIMIT)
    IN /\ pc[w] = "dequeue"
       /\ \/ /\ new_events # {}
             /\ batch' = [batch EXCEPT ![w] = new_events]
             /\ next' = [next EXCEPT ![w] = new_events]
             /\ pc' = [pc EXCEPT ![w] = "mark"]
             /\ UNCHANGED <<statuses, cur>>
          \/ /\ new_events = {}
             /\ statuses' = [statuses EXCEPT ![d] = "vacant"]
             /\ pc' = [pc EXCEPT ![w] = Loop] /\ cur' = [cur EXCEPT ![w] = NoDest]
             /\ UNCHANGED <<batch, next>>
       /\ UNCHANGED <<db, io, hot, futures, cleaning, restarts, history>>

\* Mutant: the row is removed from the queue only.
mark_as_active_without_insert(w) ==
    /\ pc[w] = "mark"
    /\ \E k \in FirstN(batch[w], 1) :
          /\ queue' = [queue EXCEPT ![cur[w]] = @ \ {k}]
          /\ batch' = [batch EXCEPT ![w] = @ \ {k}]
    /\ UNCHANGED <<active, io, statuses, hot, futures, pc, cur, next, cleaning, restarts, history>>

\* mark_as_active, one row: inserted into the active table, then removed from
\* the queue (a crash between the two is part of Restart).
mark_as_active(w) ==
    LET d == cur[w]
    IN /\ pc[w] = "mark"
       /\ \E k \in FirstN(batch[w], 1) :
             /\ active' = [active EXCEPT ![d] = @ \cup {k}]
             /\ queue' = [queue EXCEPT ![d] = @ \ {k}]
             /\ batch' = [batch EXCEPT ![w] = @ \ {k}]
       /\ UNCHANGED <<io, statuses, hot, futures, pc, cur, next, cleaning, restarts, history>>

\* All rows are marked: push the future that sends them.
push_future(w) ==
    /\ pc[w] = "mark" /\ batch[w] = {}
    /\ futures' = send_events(cur[w], next[w])
    /\ next' = [next EXCEPT ![w] = {}]
    /\ pc' = [pc EXCEPT ![w] = Loop] /\ cur' = [cur EXCEPT ![w] = NoDest]
    /\ UNCHANGED <<db, io, statuses, hot, batch, cleaning, restarts, history>>

\* handle_response_err: the transaction failed and its rows stay active.
handle_response_err(w, d, i) ==
    /\ pc[w] = "idle" /\ shard_id[d] = w /\ i \in DOMAIN futures[d]
    /\ futures' = [futures EXCEPT ![d] = Without(@, i)]
    /\ \/ /\ statuses[d] \in {"running", "retrying"}
          /\ statuses' = [statuses EXCEPT ![d] = "failed"]
          /\ hot' = [hot EXCEPT ![d] = TRUE]
          /\ pc' = [pc EXCEPT ![w] = Loop]
       \/ /\ statuses[d] = "vacant"
          /\ pc' = [pc EXCEPT ![w] = Loop]
          /\ UNCHANGED <<statuses, hot>>
       \/ /\ statuses[d] = "failed"
          /\ pc' = [pc EXCEPT ![w] = "panicked"]
          /\ UNCHANGED <<statuses, hot>>
    /\ UNCHANGED <<db, io, cur, batch, next, cleaning, restarts, history>>

\* Mutant: a running destination is not refused.
Allowed_while_running(d) == statuses[d] # "failed" \/ ~hot[d] \/ d \in Appservice

\* select_events_current: what may be done for a destination.
Allowed(d) ==
    \/ statuses[d] = "vacant"
    \/ statuses[d] = "failed" /\ (~hot[d] \/ d \in Appservice)

\* Mutant: the status of a retried destination stays "failed".
StatusAfterRetry_not_set(d) == IF active[d] = {} THEN "vacant" ELSE "failed"

\* The status a retry leaves: handle_request removes it again when there was
\* nothing to retry.
StatusAfterRetry(d) == IF active[d] = {} THEN "vacant" ELSE "retrying"

\* The rows of a message: a flush has the empty key, which mark_as_active skips.
NewEvents(m) == IF m.key = Flush THEN {} ELSE {m.key}

\* handle_request: the first message of the channel.  A message for a busy or
\* backed-off destination is dropped; a failed destination retries its active
\* rows and leaves the new event in the queue; an idle one composes a
\* transaction of the new event.
handle_request(w) ==
    LET m == Head(chan[w])
        d == m.dest
    IN /\ pc[w] = "idle" /\ chan[w] # <<>>
       /\ chan' = [chan EXCEPT ![w] = Tail(@)]
       /\ \/ /\ ~Allowed(d)
             /\ pc' = [pc EXCEPT ![w] = Loop]
             /\ UNCHANGED <<statuses, futures, cur, batch, next>>
          \/ /\ Allowed(d) /\ statuses[d] = "failed"
             /\ statuses' = [statuses EXCEPT ![d] = StatusAfterRetry(d)]
             /\ futures' = IF active[d] = {} THEN futures ELSE send_events(d, active[d])
             /\ pc' = [pc EXCEPT ![w] = Loop]
             /\ UNCHANGED <<cur, batch, next>>
          \/ /\ Allowed(d) /\ statuses[d] # "failed"
             /\ statuses' = [statuses EXCEPT ![d] = "running"]
             /\ batch' = [batch EXCEPT ![w] = NewEvents(m)]
             /\ next' = [next EXCEPT ![w] = NewEvents(m)]
             /\ pc' = [pc EXCEPT ![w] = "mark"] /\ cur' = [cur EXCEPT ![w] = d]
             /\ UNCHANGED futures
       /\ UNCHANGED <<db, calls, closed, hot, cleaning, restarts, history>>

\* The work loop ends when the channel is closed.
leave_work_loop(w) ==
    /\ pc[w] = "idle" /\ closed
    /\ pc' = [pc EXCEPT ![w] = "drain"]
    /\ UNCHANGED <<db, io, statuses, hot, futures, cur, batch, next, cleaning, restarts, history>>

\* finish_responses: take the answers that still arrive before the deadline;
\* an acknowledged transaction deletes the active rows, nothing is dequeued.
finish_response(w, d, i) ==
    /\ pc[w] = "drain" /\ shard_id[d] = w /\ i \in DOMAIN futures[d]
    /\ futures' = [futures EXCEPT ![d] = Without(@, i)]
    /\ \/ /\ MayReturnOk(d, futures[d][i])
          /\ active' = [active EXCEPT ![d] = {}]
          /\ acked' = Note(acked, d, futures[d][i].keys)
       \/ UNCHANGED <<active, acked>>
    /\ UNCHANGED <<queue, io, statuses, hot, worker, cleaning, restarts, accepted, received, dropped>>

\* The deadline passed, or nothing is in flight any more.
finish_responses_return(w) ==
    /\ pc[w] = "drain"
    /\ pc' = [pc EXCEPT ![w] = "stopped"]
    /\ futures' = [d \in Dest |-> IF shard_id[d] = w THEN <<>> ELSE futures[d]]
    /\ UNCHANGED <<db, io, statuses, hot, cur, batch, next, cleaning, restarts, history>>

-----------------------------------------------------------------------------
(* The world outside.                                                      *)

\* A remote server, appservice or push gateway processes a transaction.
RemoteReceives(d, i) ==
    /\ i \in DOMAIN futures[d] /\ ~futures[d][i].arrived
    /\ futures' = [futures EXCEPT ![d][i].arrived = TRUE]
    /\ received' = Note(received, d, futures[d][i].keys)
    /\ UNCHANGED <<db, io, statuses, hot, worker, cleaning, restarts, accepted, acked, dropped>>

\* continue_exponential_backoff_secs() becomes false for a destination.
BackoffExpires(d) ==
    /\ hot[d]
    /\ hot' = [hot EXCEPT ![d] = FALSE]
    /\ UNCHANGED <<db, io, statuses, futures, worker, cleaning, restarts, history>>

\* The process crashes, or stops, and starts again.  A crash inside
\* mark_as_active leaves one row in both tables.
Restart ==
    /\ restarts < MaxRestarts
    /\ restarts' = restarts + 1
    /\ \E W \in SUBSET {w \in Worker : pc[w] = "mark"} :
          active' = [d \in Dest |-> active[d] \cup
                        UNION {FirstN(batch[w], 1) : w \in {v \in W : cur[v] = d}}]
    /\ calls' = {} /\ chan' = [w \in Worker |-> <<>>] /\ closed' = FALSE
    /\ statuses' = [d \in Dest |-> "vacant"] /\ hot' = [d \in Dest |-> FALSE]
    /\ futures' = [d \in Dest |-> <<>>]
    /\ pc' = [w \in Worker |-> "netburst"] /\ cur' = [w \in Worker |-> NoDest]
    /\ batch' = [w \in Worker |-> {}] /\ next' = [w \in Worker |-> {}]
    /\ cleaning' = {}
    /\ UNCHANGED <<queue, history>>

WorkerStep(w) ==
    \/ startup_netburst_step(w)
    \/ dequeue(w)
    \/ mark_as_active(w)
    \/ push_future(w)
    \/ handle_request(w)
    \/ leave_work_loop(w)
    \/ finish_responses_return(w)

Response(w, d) ==
    \E i \in DOMAIN futures[d] :
        \/ handle_response_ok(w, d, i)
        \/ handle_response_err(w, d, i)
        \/ finish_response(w, d, i)

Next ==
    \/ \E D \in SUBSET Dest, k \in Key : queue_requests(D, k)
    \/ \E d \in Dest, k \in Key : dispatch(d, k)
    \/ \E d \in Dest : flush_servers(d)
    \/ \E d \in Appservice \cup Push : cleanup_active(d) \/ cleanup_queued(d)
    \/ interrupt
    \/ \E w \in Worker : WorkerStep(w)
    \/ \E w \in Worker, d \in Dest : Response(w, d)
    \/ \E d \in Dest : \E i \in DOMAIN futures[d] : RemoteReceives(d, i)
    \/ \E d \in Dest : BackoffExpires(d)
    \/ Restart

Spec == Init /\ [][Next]_vars

\* Fairness.  The worker's task is scheduled; a caller that queued a row goes
\* on to dispatch it; federation traffic for a destination does not stop for
\* ever (typing, receipts and presence flush the servers of a room); time
\* passes; a stopped server is started again; and a remote server that is
\* tried again and again answers in the end.
Fairness ==
    /\ \A w \in Worker : WF_vars(WorkerStep(w))
    /\ \A d \in Dest, k \in Key : WF_vars(dispatch(d, k))
    /\ \A d \in Dest : WF_vars(flush_servers(d)) /\ WF_vars(BackoffExpires(d))
    /\ \A d \in Dest : SF_vars(\E i \in DOMAIN futures[d] : RemoteReceives(d, i))
    /\ \A w \in Worker, d \in Dest :
          SF_vars(\E i \in DOMAIN futures[d] : handle_response_ok(w, d, i))
    /\ WF_vars((\A w \in Worker : pc[w] = "stopped") /\ Restart)

FairSpec == Spec /\ Fairness

-----------------------------------------------------------------------------
(* Properties.                                                             *)

\* An answer only ever arrives for a destination that is running or retrying:
\* the panic!("Request that was not even running failed?!") of
\* handle_response_err is unreachable.
NoPanic == \A w \in Worker : pc[w] # "panicked"

\* A destination has at most one transaction in flight, whatever mix of
\* requests, answers, retries and restarts the worker sees.
OneTransactionPerDest == \A d \in Dest : Len(futures[d]) <= 1

\* No event is lost: one that was queued is in one of the two tables until a
\* transaction that contains it is acknowledged, through failures, crashes in
\* the middle of mark_as_active and shutdowns.  The only deletions are the
\* trim of startup_netburst and cleanup_events.  It holds because
\* delete_all_active_requests_for() never meets a row that was not part of
\* the acknowledged transaction.
EventsAccounted ==
    \A d \in Dest : accepted[d] \subseteq queue[d] \cup active[d] \cup acked[d] \cup dropped[d]

\* Every event queued for a remote server is acknowledged in the end, through
\* failures, retries, shutdowns and restarts.
EventuallyAcked ==
    \A d \in Federation, k \in Key : k \in accepted[d] ~> k \in acked[d]

(* Why events are never lost: the strengthening that makes EventsAccounted *)
(* inductive when startup_netburst is on.                                  *)

\* A destination has at most one transaction in flight, and none while it is
\* idle, failed, not yet started or in the hands of a handler.
DestFlight(d) ==
    /\ Len(futures[d]) \in {0, 1}
    /\ pc[shard_id[d]] = "netburst" => statuses[d] = "vacant"
    /\ cur[shard_id[d]] = d => statuses[d] \in {"running", "retrying"} /\ Len(futures[d]) = 0
    /\ statuses[d] \in {"vacant", "failed"} => Len(futures[d]) = 0

FlightInv ==
    /\ NoPanic
    /\ \A w \in Worker : cur[w] \in Dest => pc[w] \in {"dequeue", "mark"} /\ shard_id[cur[w]] = w
    /\ \A d \in Dest : DestFlight(d)

\* A message is only ever in the channel of the worker that owns its
\* destination, so no two workers serve one destination.
MsgOf(w) == {m \in Msg : shard_id[m.dest] = w}

RouteInv == \A w \in Worker : chan[w] \in Seq(MsgOf(w))

\* The active rows of a destination are part of the transaction in flight, or
\* of the one being composed; an idle destination has none.
DestActive(d) ==
    /\ Len(futures[d]) = 1 => active[d] \subseteq futures[d][1].keys
    /\ statuses[d] = "vacant" /\ pc[shard_id[d]] # "netburst" => active[d] = {}
    /\ cur[shard_id[d]] = d /\ pc[shard_id[d]] = "dequeue" => active[d] = {}
    /\ cur[shard_id[d]] = d /\ pc[shard_id[d]] = "mark" =>
          active[d] \cup batch[shard_id[d]] \subseteq next[shard_id[d]]

ActiveInv == \A d \in Dest : DestActive(d)

\* Only accepted events are in the tables, in the hands of a caller or of a
\* worker, in the channels and in flight, and what has arrived was received.
KnownRows ==
    /\ \A d \in Dest : queue[d] \subseteq accepted[d] /\ active[d] \subseteq accepted[d]
    /\ \A c \in calls : c[2] \in accepted[c[1]]
    /\ \A w \in Worker : pc[w] = "mark" =>
          batch[w] \subseteq accepted[cur[w]] /\ next[w] \subseteq accepted[cur[w]]

KnownMsgs ==
    \A w \in Worker : \A i \in DOMAIN chan[w] :
        chan[w][i].key = Flush \/ chan[w][i].key \in accepted[chan[w][i].dest]

KnownTxns ==
    \A d \in Dest : Len(futures[d]) = 1 =>
        /\ futures[d][1].keys \subseteq accepted[d]
        /\ futures[d][1].arrived => futures[d][1].keys \subseteq received[d]

KnownInv == KnownRows /\ KnownMsgs /\ KnownTxns

InductiveInv == RouteInv /\ FlightInv /\ ActiveInv /\ KnownInv /\ EventsAccounted

\* The sender is an at-least-once channel: Delivery states what that means,
\* the pending events being those in either table.
Abstract == INSTANCE Delivery WITH
    pending <- [d \in Dest |-> queue[d] \cup active[d]],
    Droppable <- IF startup_netburst_keep >= 0 THEN Dest ELSE Appservice \cup Push

AtLeastOnce == Abstract!Spec
=============================================================================
