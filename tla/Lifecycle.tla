------------------------------ MODULE Lifecycle ------------------------------
(***************************************************************************)
(* The server from its start to its end: signals, the main task, the       *)
(* listener and its requests, the service manager and the workers of the   *)
(* services. A shutdown is a flag and a message to those who listen at     *)
(* that moment; whoever checks the flag before and listens after it waits  *)
(* for another message.                                                    *)
(***************************************************************************)
EXTENDS Integers, FiniteSets

CONSTANTS Queued,     \* services whose worker ends when its channel is closed (sending, admin, presence)
          Timer,      \* ... when it is notified (updates)
          Reloader,   \* ... when it hears of the shutdown (config)
          Once,       \* ... by itself (emergency)
          Client,     \* requests of clients
          MaxSignals, MaxFailures   \* bounds: signals received; workers that fail

ASSUME LifecycleAssumption == MaxSignals \in Nat /\ MaxFailures \in Nat

VARIABLES stopping, restarting,
          caller,       \* where each caller of shutdown() is
          hears,        \* what each task that waits for the shutdown is doing
          workers, interrupted,  \* what each service's worker does; whether it was interrupted
          manager, again,  \* the manager, and the service it is about to restart
          main, listener, answering,
          gave_up,      \* the manager ended because of a worker: before the shutdown, or unable to restart it
          signals, failures

lifeVars == <<stopping, restarting, caller, hears, workers, interrupted, manager, again, main,
              listener, answering, gave_up, signals, failures>>
serverVars == <<stopping, restarting, caller>>
managerVars == <<manager, again, gave_up>>
mainVars == <<main, listener>>

ServiceName == Queued \cup Timer \cup Reloader \cup Once
Caller == {"os", "run"}
\* Who waits for the shutdown in a loop: the signal task of the main loop, config workers,
\* and requests.
Waiter == {"sigs"} \cup Reloader \cup Client
Nothing == "nothing"
running == ~stopping

-----------------------------------------------------------------------------
(* Server: the flags and the signal.                                       *)

\* A message reaches those who are subscribed; it fails if nobody is.
subscribed == {x \in Waiter : hears[x] = "recv"}
listening == subscribed # {} \/ \E w \in Queued : workers[w] = "run"
sends_signal == hears' = [x \in Waiter |-> IF x \in subscribed THEN "check" ELSE hears[x]]

shutdown(c) ==
    /\ ~stopping /\ caller[c] = "idle"
    /\ stopping' = TRUE
    /\ caller' = [caller EXCEPT ![c] = "signal"]

shutdown_signal(c) ==
    /\ caller[c] = "signal"
    /\ caller' = [caller EXCEPT ![c] = "idle"]
    /\ IF listening THEN sends_signal /\ UNCHANGED <<stopping, restarting>>
       ELSE stopping' = FALSE /\ restarting' = FALSE /\ UNCHANGED hears
    /\ UNCHANGED <<workers, interrupted, managerVars, mainVars, answering, signals, failures>>

\* SIGTERM and the like, or the admin's command to restart; other signals are passed on.
signal_received(restart) ==
    /\ signals < MaxSignals /\ signals' = signals + 1
    /\ ~(restart /\ restarting)
    /\ shutdown("os")
    /\ restarting' = (restarting \/ restart)
    /\ UNCHANGED <<hears, workers, interrupted, managerVars, mainVars, answering, failures>>

other_signal ==
    /\ signals < MaxSignals /\ signals' = signals + 1
    /\ caller["os"] = "idle" /\ listening
    /\ sends_signal
    /\ UNCHANGED <<serverVars, workers, interrupted, managerVars, mainVars, answering, failures>>

\* until_shutdown: the flag is looked at, then the signal subscribed to.
until_shutdown(x) ==
    /\ \/ hears[x] = "check" /\ hears' = [hears EXCEPT ![x] = IF stopping THEN "shutdown" ELSE "subscribe"]
       \/ hears[x] = "subscribe" /\ hears' = [hears EXCEPT ![x] = "recv"]
    /\ UNCHANGED <<serverVars, workers, interrupted, managerVars, mainVars, answering, signals, failures>>

-----------------------------------------------------------------------------
(* The workers.                                                            *)

\* The worker of a service is started; callers see to it that the server is running.
start_worker(w) == /\ workers' = [workers EXCEPT ![w] = "run"]
                   /\ hears' = IF w \in Reloader THEN [hears EXCEPT ![w] = "check"] ELSE hears

\* A worker returns from its loop, once it finds its channel closed, or the flag set.
worker_returns(w) ==
    /\ workers[w] = "run"
    /\ \/ w \in Once
       \/ w \in Queued /\ interrupted[w]
       \/ w \in Reloader /\ hears[w] = "shutdown"
    /\ workers' = [workers EXCEPT ![w] = "ok"]
    /\ hears' = IF w \in Reloader THEN [hears EXCEPT ![w] = Nothing] ELSE hears
    /\ UNCHANGED <<serverVars, interrupted, managerVars, mainVars, answering, signals, failures>>

\* It may also panic, or return an error.
worker_fails(w, how) ==
    /\ failures < MaxFailures /\ failures' = failures + 1
    /\ workers[w] \in {"run", "busy"}
    /\ workers' = [workers EXCEPT ![w] = how]
    /\ hears' = IF w \in Reloader THEN [hears EXCEPT ![w] = Nothing] ELSE hears
    /\ UNCHANGED <<serverVars, interrupted, managerVars, mainVars, answering, signals>>

\* The check for updates: while it is under way, nobody waits to be notified.
updates_check(w) ==
    /\ w \in Timer
    /\ \/ workers[w] = "run" /\ workers' = [workers EXCEPT ![w] = "busy"]
       \/ workers[w] = "busy" /\ workers' = [workers EXCEPT ![w] = "run"]
    /\ UNCHANGED <<serverVars, hears, interrupted, managerVars, mainVars, answering, signals, failures>>

\* Channels are closed for good; notify_waiters ends those that wait now. The manager's task is
\* awaited next, which panics if it was awaited to its end before.
interrupt_services ==
    /\ main \in {"stop", "stop_again"} /\ main' = IF main = "stop" THEN "wait" ELSE "failed"
    /\ interrupted' = [w \in ServiceName |-> TRUE]
    /\ workers' = [w \in ServiceName |-> IF w \in Timer /\ workers[w] = "run" THEN "ok" ELSE workers[w]]
    /\ UNCHANGED <<serverVars, hears, managerVars, listener, answering, signals, failures>>

-----------------------------------------------------------------------------
(* The manager joins the workers one after the other.                      *)

\* The starting task holds the lock of the workers.
managing == manager = "join" /\ again = Nothing /\ main # "start"

handle_finished(w) ==
    /\ managing /\ workers[w] = "ok"
    /\ workers' = [workers EXCEPT ![w] = "joined"]
    /\ UNCHANGED <<serverVars, hears, interrupted, managerVars, mainVars, answering, signals, failures>>

\* An error ends the manager; after a panic the worker is started again, after a delay. Both
\* are ignored once the server is stopping.
handle_error_always(w) ==
    /\ managing /\ workers[w] \in {"err", "panic"}
    /\ workers' = [workers EXCEPT ![w] = "joined"]
    /\ IF workers[w] = "err" THEN manager' = "failed" /\ gave_up' = running /\ UNCHANGED again
       ELSE again' = w /\ UNCHANGED <<manager, gave_up>>
    /\ UNCHANGED <<serverVars, hears, interrupted, mainVars, answering, signals, failures>>
handle_error(w) ==
    /\ managing /\ workers[w] \in {"err", "panic"}
    /\ workers' = [workers EXCEPT ![w] = "joined"]
    /\ IF stopping THEN UNCHANGED managerVars
       ELSE IF workers[w] = "err" THEN manager' = "failed" /\ gave_up' = TRUE /\ UNCHANGED again
       ELSE again' = w /\ UNCHANGED <<manager, gave_up>>
    /\ UNCHANGED <<serverVars, hears, interrupted, mainVars, answering, signals, failures>>

\* The delay is over. A worker is not started during a shutdown, which ends the manager.
restart_worker ==
    /\ manager = "join" /\ again # Nothing
    /\ again' = Nothing
    /\ IF stopping THEN manager' = "failed" /\ gave_up' = TRUE /\ UNCHANGED <<workers, hears>>
       ELSE start_worker(again) /\ UNCHANGED <<manager, gave_up>>
    /\ UNCHANGED <<serverVars, interrupted, mainVars, answering, signals, failures>>

manager_finishes ==
    /\ managing /\ \A w \in ServiceName : workers[w] = "joined"
    /\ manager' = "done"
    /\ UNCHANGED <<serverVars, hears, workers, interrupted, again, gave_up, mainVars, answering, signals, failures>>

-----------------------------------------------------------------------------
(* Requests.                                                               *)

\* Requests are refused during a shutdown. Each runs beside a wait for the shutdown.
handle(c) ==
    /\ listener = "serving" /\ answering[c] = "none"
    /\ IF stopping THEN answering' = [answering EXCEPT ![c] = "ended"] /\ UNCHANGED hears
       ELSE answering' = [answering EXCEPT ![c] = "run"] /\ hears' = [hears EXCEPT ![c] = "check"]
    /\ UNCHANGED <<serverVars, workers, interrupted, managerVars, mainVars, signals, failures>>

\* It is answered, or given up some time after the shutdown was heard of.
request_ends(c) ==
    /\ answering[c] = "run"
    /\ answering' = [answering EXCEPT ![c] = "ended"]
    /\ hears' = [hears EXCEPT ![c] = Nothing]
    /\ UNCHANGED <<serverVars, workers, interrupted, managerVars, mainVars, signals, failures>>

\* handle_shutdown: the listener takes no more connections, and ends when those it has are
\* closed or their time is up.
handle_shutdown ==
    /\ hears["sigs"] = "shutdown" /\ hears' = [hears EXCEPT !["sigs"] = Nothing]
    /\ listener' = "closing"
    /\ UNCHANGED <<serverVars, workers, interrupted, managerVars, main, answering, signals, failures>>

listener_ends ==
    /\ listener = "closing" /\ listener' = "done"
    /\ UNCHANGED <<serverVars, hears, workers, interrupted, managerVars, main, answering, signals, failures>>

-----------------------------------------------------------------------------
(* The main task.                                                          *)

\* The manager's task, then the workers in the order of their names, as long as no shutdown
\* comes between.
start ==
    /\ main = "start" /\ \E w \in ServiceName : workers[w] = "off"
    /\ IF stopping THEN main' = "failed" /\ UNCHANGED <<workers, hears>>
       ELSE start_worker(CHOOSE w \in ServiceName : workers[w] = "off") /\ UNCHANGED main
    /\ UNCHANGED <<serverVars, interrupted, managerVars, listener, answering, signals, failures>>

run ==
    /\ main = "start" /\ \A w \in ServiceName : workers[w] # "off"
    /\ main' = "run" /\ listener' = "serving"
    /\ hears' = [hears EXCEPT !["sigs"] = "check"]
    /\ UNCHANGED <<serverVars, workers, interrupted, managerVars, answering, signals, failures>>

\* The listener ended first: the services are stopped. The signal task is aborted.
run_listener_ended ==
    /\ main = "run" /\ listener = "done"
    /\ main' = "stop" /\ hears' = [hears EXCEPT !["sigs"] = Nothing]
    /\ UNCHANGED <<serverVars, workers, interrupted, managerVars, listener, answering, signals, failures>>

\* The manager ended first: the server is told to shut down, and the listener waited for.
handle_services_poll ==
    /\ main = "run" /\ manager \in {"done", "failed"}
    /\ main' = "polled"
    /\ IF stopping THEN UNCHANGED <<stopping, caller>> ELSE shutdown("run")
    /\ UNCHANGED <<restarting, hears, workers, interrupted, managerVars, listener, answering, signals, failures>>

\* An error of the manager ends the program without stopping the services.
run_polled_ended ==
    /\ main = "polled" /\ caller["run"] = "idle" /\ listener = "done"
    /\ main' = IF manager = "failed" THEN "failed" ELSE "stop_again"
    /\ hears' = [hears EXCEPT !["sigs"] = Nothing]
    /\ UNCHANGED <<serverVars, workers, interrupted, managerVars, listener, answering, signals, failures>>

\* Manager::stop waits for the manager; then the services go, and tasks that still run with them.
stop ==
    /\ main = "wait" /\ manager \in {"done", "failed"}
    /\ main' = "dropped"
    /\ UNCHANGED <<serverVars, hears, workers, interrupted, managerVars, listener, answering, signals, failures>>

-----------------------------------------------------------------------------
lifecycle_idle ==
    /\ stopping = FALSE /\ restarting = FALSE
    /\ caller = [c \in Caller |-> "idle"]
    /\ hears = [x \in Waiter |-> Nothing]
    /\ workers = [w \in ServiceName |-> "off"] /\ interrupted = [w \in ServiceName |-> FALSE]
    /\ again = Nothing /\ gave_up = FALSE
    /\ listener = "none" /\ answering = [c \in Client |-> "none"]
    /\ signals = 0 /\ failures = 0

InitLifecycle == lifecycle_idle /\ main = "start" /\ manager = "join"
IdleLifecycle == lifecycle_idle /\ main = "dropped" /\ manager = "done"

\* The program has ended, runs on without another signal, or waits for a task that missed its
\* wake-up.
missed == \/ \E x \in {"sigs"} \cup Reloader : stopping /\ hears[x] = "recv" /\ caller = [c \in Caller |-> "idle"]
          \/ main = "wait" /\ \E w \in Timer : workers[w] \in {"run", "busy"}
lifecycleDone == main \in {"dropped", "failed"} \/ (running /\ signals = MaxSignals) \/ missed

NextLifecycle ==
    \/ /\ main \notin {"dropped", "failed"}
       /\ \/ \E restart \in BOOLEAN : signal_received(restart)
          \/ other_signal
          \/ \E c \in Caller : shutdown_signal(c)
          \/ \E x \in Waiter : until_shutdown(x)
          \/ \E w \in ServiceName :
                \/ worker_returns(w) \/ updates_check(w)
                \/ \E how \in {"err", "panic"} : worker_fails(w, how)
                \/ handle_finished(w) \/ handle_error(w)
          \/ interrupt_services \/ start \/ restart_worker \/ manager_finishes
          \/ \E c \in Client : handle(c) \/ request_ends(c)
          \/ handle_shutdown \/ listener_ends
          \/ run \/ run_listener_ended \/ handle_services_poll \/ run_polled_ended \/ stop
    \/ lifecycleDone /\ UNCHANGED lifeVars

SpecLifecycle == InitLifecycle /\ [][NextLifecycle]_lifeVars

-----------------------------------------------------------------------------
LifecycleTypeOK ==
    /\ stopping \in BOOLEAN /\ restarting \in BOOLEAN /\ gave_up \in BOOLEAN
    /\ caller \in [Caller -> {"idle", "signal"}]
    /\ hears \in [Waiter -> {Nothing, "check", "subscribe", "recv", "shutdown"}]
    /\ workers \in [ServiceName -> {"off", "run", "busy", "ok", "err", "panic", "joined"}]
    /\ interrupted \in [ServiceName -> BOOLEAN]
    /\ manager \in {"join", "done", "failed"} /\ again \in ServiceName \cup {Nothing}
    /\ main \in {"start", "run", "polled", "stop", "stop_again", "wait", "dropped", "failed"}
    /\ listener \in {"none", "serving", "closing", "done"}
    /\ answering \in [Client -> {"none", "run", "ended"}]
    /\ signals \in 0 .. MaxSignals /\ failures \in 0 .. MaxFailures

\* Services::stop interrupts the services and waits for the manager before the services are
\* dropped: no worker is still running then, unless the manager had given up before: on a
\* worker's error while the server was running, or because the shutdown kept it from restarting
\* a worker.
WorkersWaitedFor ==
    main = "dropped" /\ ~gave_up =>
        \A w \in ServiceName : workers[w] \in {"off", "joined"}

\* The manager is done only when it has joined every worker, after the start, so that none is
\* started again; it fails only by giving up; and the services are dropped after either.
LifecycleInv ==
    /\ LifecycleTypeOK
    /\ manager = "done" => main # "start" /\ \A w \in ServiceName : workers[w] = "joined"
    /\ manager = "failed" => gave_up
    /\ main = "dropped" => manager # "join"
=============================================================================
