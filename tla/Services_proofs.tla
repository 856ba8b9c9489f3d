--------------------------- MODULE Services_proofs --------------------------
(***************************************************************************)
(* Proofs for the map of mutexes, the lifecycle of the services and the    *)
(* pool of the database's workers. Each has an inductive invariant of its  *)
(* own, stated in its module.                                              *)
(***************************************************************************)
EXTENDS MutexMap, Pool, Lifecycle, FiniteSetTheorems, TLAPS

-----------------------------------------------------------------------------
(* The map of mutexes excludes. The strong count enters the argument       *)
(* twice: a count of 0 means that nobody refers to the mutex (a new        *)
(* entry), and a count of at most 2 seen under the map's lock means that   *)
(* only the map and the dropping guard do (the removal of an entry).       *)

\* A mutex without references: no task has it and no entry.
LEMMA Unreferenced ==
    ASSUME NEW m, strong_count(m) = 0
    PROVE  (\A t \in Locker : val[t] # m) /\ (\A k \in Key : map[k] # m)
<1> DEFINE T == {t \in Locker : val[t] = m}
           K == {k \in Key : map[k] = m}
<1>1. IsFiniteSet(T) /\ IsFiniteSet(K)
  BY FiniteAssumption, FS_Subset
<1>2. Cardinality(T) \in Nat /\ Cardinality(K) \in Nat
  BY <1>1, FS_CardinalityType
<1>3. Cardinality(T) + Cardinality(K) = 0
  BY DEF strong_count
<1>4. Cardinality(T) = 0 /\ Cardinality(K) = 0
  BY <1>2, <1>3
<1>5. T = {} /\ K = {}
  BY <1>1, <1>4, FS_EmptySet
<1> QED
  BY Zenon, <1>5

\* A mutex in the map with at most two references: one task has it.
LEMMA OnlyReference ==
    ASSUME NEW m, strong_count(m) <= 2, NEW k \in Key, map[k] = m,
           NEW t \in Locker, val[t] = m
    PROVE  \A u \in Locker : val[u] = m => u = t
<1> DEFINE T == {u \in Locker : val[u] = m}
           K == {l \in Key : map[l] = m}
<1>1. IsFiniteSet(T) /\ IsFiniteSet(K)
  BY FiniteAssumption, FS_Subset
<1>2. Cardinality(T) \in Nat /\ Cardinality(K) \in Nat
  BY <1>1, FS_CardinalityType
<1>3. Cardinality(T) + Cardinality(K) <= 2
  BY DEF strong_count
<1>4. T # {} /\ K # {}
  OBVIOUS
<1>5. Cardinality(T) # 0 /\ Cardinality(K) # 0
  BY Zenon, <1>1, <1>4, FS_EmptySet
<1>6. Cardinality(T) = 1
  BY <1>2, <1>3, <1>5
<1>7. \E x : T = {x}
  BY Zenon, <1>1, <1>6, FS_Singleton
<1> QED
  BY <1>7

\* lock and try_lock: the task joins the mutex of the entry, or a new one.
LEMMA CloneInv ==
    ASSUME InductiveInv, NEW t \in Locker, NEW k \in Key, NEW p \in {"cloned", "trying"},
           clone(t, k, p)
    PROVE  InductiveInv'
<1> USE DEF InductiveInv
<1>1. PICK m \in Mutex :
         /\ IF map[k] = NoMutex THEN strong_count(m) = 0 ELSE m = map[k]
         /\ map' = [map EXCEPT ![k] = m] /\ val' = [val EXCEPT ![t] = m]
  BY Zenon DEF clone
<1>2. /\ pc[t] = "idle" /\ key' = [key EXCEPT ![t] = k] /\ pc' = [pc EXCEPT ![t] = p]
      /\ UNCHANGED owner
  BY DEF clone
<1>3. /\ map[k] \in {m, NoMutex}
      /\ map[k] = NoMutex => (\A u \in Locker : val[u] # m) /\ (\A l \in Key : map[l] # m)
  BY <1>1, Unreferenced
<1>4. val[t] = NoMutex
  BY Zenon, <1>2 DEF TypeOK
<1>5. TypeOK'
  BY Zenon, <1>1, <1>2 DEF TypeOK, Before, After
<1>6. InUseIsInMap'
  <2> SUFFICES ASSUME NEW u \in Locker, pc'[u] \in Before \cup {"held", "cleanup"}
               PROVE  map'[key'[u]] = val'[u]
    BY Zenon DEF InUseIsInMap
  <2>1. CASE u = t
    BY Zenon, <2>1, <1>1, <1>2 DEF TypeOK
  <2>2. CASE u # t
    <3>1. key'[u] = key[u] /\ val'[u] = val[u] /\ pc'[u] = pc[u]
      BY Zenon, <2>2, <1>1, <1>2 DEF TypeOK
    <3>2. map[key[u]] = val[u] /\ key[u] \in Key /\ val[u] \in Mutex
      BY Zenon, <3>1 DEF InUseIsInMap, TypeOK, Before
    <3> QED
      BY <3>1, <3>2, <1>1, <1>3, NoneAssumption DEF TypeOK
  <2> QED
    BY Zenon, <2>1, <2>2
<1>7. OwnerInv'
  BY <1>1, <1>2, <1>4, NoneAssumption DEF OwnerInv, TypeOK
<1>8. OneKeyPerMutex'
  BY <1>1, <1>2, <1>3, NoneAssumption DEF OneKeyPerMutex, TypeOK
<1> QED
  BY <1>5, <1>6, <1>7, <1>8

\* Steps that only move a task, or a permit, leave the map and the Arcs alone.
LEMMA MoveInv ==
    ASSUME InductiveInv, NEW t \in Locker,
           \/ lock_owned(t) \/ wake(t) \/ try_lock_owned(t)
           \/ cancel(t) \/ drop_check(t) \/ drop_release(t)
    PROVE  InductiveInv'
<1> USE DEF InductiveInv
<1>1. CASE lock_owned(t) \/ try_lock_owned(t)
  <2>1. TypeOK' /\ OneKeyPerMutex'
    BY SMTT(20), <1>1 DEF lock_owned, try_lock_owned, TypeOK, OneKeyPerMutex, Before, After
  <2>2. InUseIsInMap'
    BY Zenon, <1>1 DEF lock_owned, try_lock_owned, TypeOK, InUseIsInMap, Before
  <2>3. OwnerInv'
    BY SMTT(20), <1>1, NoneAssumption DEF lock_owned, try_lock_owned, TypeOK, OwnerInv, Before, After
  <2> QED
    BY <2>1, <2>2, <2>3
<1>2. CASE wake(t) \/ cancel(t) \/ drop_check(t)
  <2>1. TypeOK' /\ OneKeyPerMutex'
    BY SMTT(20), <1>2 DEF wake, cancel, drop_check, TypeOK, OneKeyPerMutex, Before, After
  <2>2. InUseIsInMap'
    BY Zenon, <1>2 DEF wake, cancel, drop_check, TypeOK, InUseIsInMap, Before
  <2>3. OwnerInv'
    BY SMTT(20), <1>2 DEF wake, cancel, drop_check, TypeOK, OwnerInv
  <2> QED
    BY <2>1, <2>2, <2>3
<1>3. CASE drop_release(t)
  <2>1. PICK u \in Waiters(val[t]) \cup {NoLocker} :
           /\ owner' = [owner EXCEPT ![val[t]] = u]
           /\ pc[t] = "release" /\ pc' = [pc EXCEPT ![t] = "unlocked"]
           /\ UNCHANGED <<map, key, val>>
    BY Zenon, <1>3 DEF drop_release
  <2>2. TypeOK' /\ OneKeyPerMutex' /\ InUseIsInMap'
    BY Zenon, <2>1 DEF TypeOK, OneKeyPerMutex, InUseIsInMap, Before, After, Waiters
  <2>3. OwnerInv'
    BY <2>1, NoneAssumption DEF TypeOK, OwnerInv, Waiters
  <2> QED
    BY <2>2, <2>3
<1> QED
  BY Zenon, <1>1, <1>2, <1>3

\* The removal of an entry: the count says that nobody else uses its mutex.
LEMMA RetainInv ==
    ASSUME InductiveInv, NEW t \in Locker, drop_retain(t)
    PROVE  InductiveInv'
<1> USE DEF InductiveInv
<1>1. /\ pc[t] = "cleanup" /\ map' = Retained(t)
      /\ pc' = [pc EXCEPT ![t] = "release"] /\ UNCHANGED <<owner, key, val>>
  BY DEF drop_retain
<1>2. \A k \in Key : map'[k] \in {map[k], NoMutex}
  BY Zenon, <1>1 DEF Retained
<1>3. \A k \in Key : map'[k] # map[k]
                     => map[k] = val[t] /\ \A u \in Locker : val[u] = map[k] => u = t
  BY Zenon, <1>1, OnlyReference DEF Retained
<1>4. TypeOK'
  BY Zenon, <1>1 DEF TypeOK, Retained, Before, After
<1>5. InUseIsInMap'
  <2> SUFFICES ASSUME NEW u \in Locker, pc'[u] \in Before \cup {"held", "cleanup"}
               PROVE  map'[key'[u]] = val'[u]
    BY Zenon DEF InUseIsInMap
  <2>1. u # t /\ pc[u] \in Before \cup {"held", "cleanup"}
    BY Zenon, <1>1 DEF TypeOK, Before
  <2>2. map[key[u]] = val[u] /\ key[u] \in Key
    BY Zenon, <2>1 DEF InUseIsInMap, TypeOK, Before
  <2>3. map'[key[u]] = map[key[u]]
    BY Zenon, <1>3, <2>1, <2>2
  <2> QED
    BY Zenon, <1>1, <2>2, <2>3
<1>6. OwnerInv'
  BY <1>1 DEF OwnerInv, TypeOK
<1>7. OneKeyPerMutex'
  BY ZenonT(40), <1>1, <1>2 DEF OneKeyPerMutex, TypeOK
<1> QED
  BY <1>4, <1>5, <1>6, <1>7

\* The last step of a guard gives its reference back.
LEMMA DropArcInv ==
    ASSUME InductiveInv, NEW t \in Locker, drop_arc(t)
    PROVE  InductiveInv'
<1> USE DEF InductiveInv
<1>1. TypeOK'
  BY Zenon DEF drop_arc, TypeOK, Before, After
<1>2. InUseIsInMap' /\ OneKeyPerMutex'
  BY ZenonT(40), NoneAssumption DEF drop_arc, TypeOK, InUseIsInMap, OneKeyPerMutex, Before
<1>3. OwnerInv'
  BY NoneAssumption DEF drop_arc, TypeOK, OwnerInv
<1> QED
  BY <1>1, <1>2, <1>3

\* The invariant that ties the tasks, the map and the permits together holds in
\* every behaviour of MutexMap, for any number of tasks, keys and addresses.
THEOREM MutexMapInductive == Spec => []InductiveInv
<1>1. Init => InductiveInv
  BY ZenonT(40), NoneAssumption
     DEF Init, InductiveInv, TypeOK, InUseIsInMap, OwnerInv, OneKeyPerMutex, Before
<1>2. ASSUME InductiveInv, [Next]_vars PROVE InductiveInv'
  <2>1. ASSUME NEW t \in Locker, Step(t) PROVE InductiveInv'
    BY Zenon, <1>2, <2>1, CloneInv, MoveInv, RetainInv, DropArcInv DEF Step, lock, try_lock
  <2>2. CASE UNCHANGED vars
    BY Zenon, <1>2, <2>2
       DEF vars, InductiveInv, TypeOK, InUseIsInMap, OwnerInv, OneKeyPerMutex
  <2> QED
    BY <1>2, <2>1, <2>2 DEF Next
<1> QED
  BY <1>1, <1>2, PTL DEF Spec

\* The guard of a key is held by one task at a time: what every user of
\* `mutex.lock(room_id)` relies on.
THEOREM MutexMapExcludes == Spec => []MutualExclusion
<1>1. InductiveInv => MutualExclusion
  <2> SUFFICES ASSUME InductiveInv, NEW t \in Locker, NEW u \in Locker,
                      pc[t] = "held", pc[u] = "held", key[t] = key[u]
               PROVE  t = u
    BY Zenon DEF MutualExclusion
  <2>1. val[t] = val[u]
    BY Zenon DEF InductiveInv, InUseIsInMap
  <2>2. owner[val[t]] = t /\ owner[val[u]] = u
    BY Zenon DEF InductiveInv, OwnerInv
  <2> QED
    BY Zenon, <2>1, <2>2
<1> QED
  BY <1>1, MutexMapInductive, PTL

\* A key that is locked or waited for stays in the map under the same mutex.
THEOREM MutexMapKeepsKeys == Spec => []InUseIsInMap
BY MutexMapInductive, PTL DEF InductiveInv

-----------------------------------------------------------------------------
(* Start, shutdown and restart of the services.                            *)

\* Before the server starts, nothing runs.
LEMMA InitLifecycleInv == InitLifecycle => LifecycleInv
<1>1. InitLifecycle => signals \in 0 .. MaxSignals /\ failures \in 0 .. MaxFailures
  BY LifecycleAssumption DEF InitLifecycle, lifecycle_idle
<1> QED
  BY ZenonT(40), <1>1 DEF InitLifecycle, lifecycle_idle, LifecycleInv, LifecycleTypeOK

\* Server::shutdown sets the flag and leaves a caller about to signal.
LEMMA ShutdownInv ==
    ASSUME LifecycleInv, NEW c \in Caller, shutdown(c) PROVE stopping' \in BOOLEAN /\ caller' \in [Caller -> {"idle", "signal"}]
BY Zenon DEF shutdown, LifecycleInv, LifecycleTypeOK

\* A signal reaches whoever waits for one.
LEMMA SignalType ==
    ASSUME LifecycleInv, sends_signal
    PROVE  hears' \in [Waiter -> {Nothing, "check", "subscribe", "recv", "shutdown"}]
BY Zenon DEF sends_signal, LifecycleInv, LifecycleTypeOK

\* Manager::start_worker: the worker runs, and waits for the shutdown.
LEMMA StartWorker ==
    ASSUME LifecycleInv, NEW w \in ServiceName, start_worker(w)
    PROVE  /\ workers' \in [ServiceName -> {"off", "run", "busy", "ok", "err", "panic", "joined"}]
           /\ hears' \in [Waiter -> {Nothing, "check", "subscribe", "recv", "shutdown"}]
BY Zenon DEF start_worker, LifecycleInv, LifecycleTypeOK

\* Steps that concern only what is listened to and answered.
LEMMA FrameInv ==
    ASSUME LifecycleInv, UNCHANGED <<stopping, restarting, caller, workers, interrupted, manager, again,
                                     gave_up, main, signals, failures>>,
           hears' \in [Waiter -> {Nothing, "check", "subscribe", "recv", "shutdown"}],
           listener' \in {"none", "serving", "closing", "done"},
           answering' \in [Client -> {"none", "run", "ended"}]
    PROVE  LifecycleInv'
BY ZenonT(40) DEF LifecycleInv, LifecycleTypeOK

\* The signals of the operating system and of admin commands, and those who wait for the shutdown.
LEMMA ServerStep ==
    ASSUME LifecycleInv, \/ \E restart \in BOOLEAN : signal_received(restart)
                         \/ other_signal
                         \/ \E c \in Caller : shutdown_signal(c)
                         \/ \E x \in Waiter : until_shutdown(x)
    PROVE  LifecycleInv'
<1> USE DEF LifecycleInv, LifecycleTypeOK, serverVars, managerVars, mainVars
<1>1. ASSUME NEW restart \in BOOLEAN, signal_received(restart) PROVE LifecycleInv'
  <2>1. /\ signals' \in 0 .. MaxSignals /\ restarting' \in BOOLEAN
        /\ UNCHANGED <<hears, workers, interrupted, managerVars, mainVars, answering, failures>>
    BY <1>1, LifecycleAssumption DEF signal_received
  <2>2. stopping' \in BOOLEAN /\ caller' \in [Caller -> {"idle", "signal"}]
    BY Zenon, <1>1, ShutdownInv DEF signal_received, Caller
  <2> QED
    BY ZenonT(40), <2>1, <2>2
<1>2. CASE other_signal
  <2>1. signals' \in 0 .. MaxSignals /\ hears' \in [Waiter -> {Nothing, "check", "subscribe", "recv", "shutdown"}]
    BY <1>2, LifecycleAssumption, SignalType DEF other_signal
  <2>2. UNCHANGED <<stopping, restarting, caller, workers, interrupted, manager, again, gave_up, main,
                    listener, answering, failures>>
    BY Zenon, <1>2 DEF other_signal
  <2> QED
    BY <2>1, <2>2
<1>3. ASSUME NEW c \in Caller, shutdown_signal(c) PROVE LifecycleInv'
  <2>1. stopping' \in BOOLEAN /\ restarting' \in BOOLEAN
    BY Zenon, <1>3 DEF shutdown_signal
  <2>3. caller' \in [Caller -> {"idle", "signal"}]
    BY Zenon, <1>3 DEF shutdown_signal
  <2>2. hears' \in [Waiter -> {Nothing, "check", "subscribe", "recv", "shutdown"}]
    BY Zenon, <1>3, SignalType DEF shutdown_signal
  <2> QED
    BY ZenonT(40), <1>3, <2>1, <2>2, <2>3 DEF shutdown_signal
<1>4. ASSUME NEW x \in Waiter, until_shutdown(x) PROVE LifecycleInv'
  <2>1. hears' \in [Waiter -> {Nothing, "check", "subscribe", "recv", "shutdown"}]
    BY SMTT(20), <1>4 DEF until_shutdown
  <2> QED
    BY Zenon, <1>4, <2>1, FrameInv DEF until_shutdown
<1> QED
  BY Zenon, <1>1, <1>2, <1>3, <1>4

\* A worker returns, fails or checks: none of those the manager has joined, so the manager is not done.
LEMMA WorkerStep ==
    ASSUME LifecycleInv, NEW w \in ServiceName,
           \/ worker_returns(w) \/ updates_check(w)
           \/ \E how \in {"err", "panic"} : worker_fails(w, how)
    PROVE  LifecycleInv'
<1> USE DEF LifecycleInv, LifecycleTypeOK, serverVars, managerVars, mainVars
<1>1. workers[w] # "joined" /\ workers' \in [ServiceName -> {"off", "run", "busy", "ok", "err", "panic", "joined"}]
  BY SMTT(20) DEF worker_returns, updates_check, worker_fails
<1>2. hears' \in [Waiter -> {Nothing, "check", "subscribe", "recv", "shutdown"}]
  BY ZenonT(40) DEF worker_returns, updates_check, worker_fails
<1>3. failures' \in 0 .. MaxFailures
  BY SMTT(20), LifecycleAssumption DEF worker_returns, updates_check, worker_fails
<1>4. /\ UNCHANGED <<serverVars, interrupted, managerVars, mainVars, answering, signals>>
      /\ manager # "done"
  BY Zenon, <1>1 DEF worker_returns, updates_check, worker_fails
<1> QED
  BY ZenonT(40), <1>1, <1>2, <1>3, <1>4

\* The manager: it is done only when it has joined every worker and restarts none.
LEMMA ManagerStep ==
    ASSUME LifecycleInv, \/ \E w \in ServiceName : handle_finished(w) \/ handle_error(w)
                         \/ interrupt_services \/ restart_worker \/ manager_finishes
    PROVE  LifecycleInv'
<1> USE DEF LifecycleInv, LifecycleTypeOK, serverVars, managerVars, mainVars
<1>1. ASSUME NEW w \in ServiceName, handle_finished(w) \/ handle_error(w) PROVE LifecycleInv'
  <2>1. workers' \in [ServiceName -> {"off", "run", "busy", "ok", "err", "panic", "joined"}]
    BY SMTT(20), <1>1 DEF handle_finished, handle_error
  <2>2. /\ manager = "join" /\ main # "start"
        /\ \/ UNCHANGED managerVars
           \/ manager' = "failed" /\ gave_up' = TRUE /\ again' = again
           \/ again' = w /\ manager' = manager /\ gave_up' = gave_up
        /\ UNCHANGED <<serverVars, hears, interrupted, mainVars, answering, signals, failures>>
    BY Zenon, <1>1 DEF handle_finished, handle_error, managing
  <2> QED
    BY ZenonT(40), <2>1, <2>2
<1>2. CASE interrupt_services
  <2>1. workers' \in [ServiceName -> {"off", "run", "busy", "ok", "err", "panic", "joined"}]
    BY Zenon, <1>2 DEF interrupt_services
  <2>2. interrupted' \in [ServiceName -> BOOLEAN]
    BY Zenon, <1>2 DEF interrupt_services
  <2>3. \A w \in ServiceName : workers[w] = "joined" => workers'[w] = "joined"
    BY Zenon, <1>2 DEF interrupt_services
  <2> QED
    BY ZenonT(40), <1>2, <2>1, <2>2, <2>3 DEF interrupt_services
<1>3. CASE restart_worker
  <2>1. again \in ServiceName /\ manager = "join"
    BY Zenon, <1>3 DEF restart_worker
  <2>2. CASE stopping
    BY Zenon, <1>3, <2>1, <2>2 DEF restart_worker
  <2>3. CASE ~stopping
    BY ZenonT(40), <1>3, <2>1, <2>3, StartWorker DEF restart_worker
  <2> QED
    BY Zenon, <2>2, <2>3
<1>4. CASE manager_finishes
  BY ZenonT(40), <1>4 DEF manager_finishes, managing
<1> QED
  BY Zenon, <1>1, <1>2, <1>3, <1>4

\* The main task and the router. Services are dropped only after the manager is done.
LEMMA MainStep ==
    ASSUME LifecycleInv,
           \/ start \/ run \/ run_listener_ended \/ handle_services_poll \/ run_polled_ended \/ stop
           \/ handle_shutdown \/ listener_ends
           \/ \E c \in Client : handle(c) \/ request_ends(c)
    PROVE  LifecycleInv'
<1> USE DEF LifecycleInv, LifecycleTypeOK, serverVars, managerVars, mainVars
<1>1. CASE start
  <2>1. main = "start" /\ manager # "done"
    BY Zenon, <1>1 DEF start
  <2>2. CASE stopping
    BY Zenon, <1>1, <2>1, <2>2 DEF start
  <2>3. CASE ~stopping
    <3>1. PICK w \in ServiceName : start_worker(w)
      BY Zenon, <1>1, <2>3 DEF start
    <3> QED
      BY Zenon, <1>1, <2>1, <2>3, <3>1, StartWorker DEF start
  <2> QED
    BY Zenon, <2>2, <2>3
<1>2. CASE run \/ run_listener_ended \/ run_polled_ended \/ handle_shutdown
  <2>1. hears' \in [Waiter -> {Nothing, "check", "subscribe", "recv", "shutdown"}]
    BY Zenon, <1>2 DEF run, run_listener_ended, run_polled_ended, handle_shutdown, Waiter
  <2>2. /\ UNCHANGED <<serverVars, workers, interrupted, managerVars, answering, signals, failures>>
        /\ listener' \in {"none", "serving", "closing", "done"}
        /\ \/ main' \in {"run", "stop", "stop_again", "failed"}
           \/ main' = main
    BY Zenon, <1>2 DEF run, run_listener_ended, run_polled_ended, handle_shutdown
  <2> QED
    BY ZenonT(40), <2>1, <2>2
<1>3. CASE handle_services_poll
  <2>1. stopping' \in BOOLEAN /\ caller' \in [Caller -> {"idle", "signal"}]
    BY Zenon, <1>3, ShutdownInv DEF handle_services_poll, Caller
  <2> QED
    BY ZenonT(40), <1>3, <2>1 DEF handle_services_poll
<1>4. CASE stop
  BY ZenonT(40), <1>4 DEF stop
<1>5. CASE listener_ends
  BY ZenonT(40), <1>5 DEF listener_ends
<1>6. ASSUME NEW c \in Client, handle(c) \/ request_ends(c) PROVE LifecycleInv'
  <2>1. /\ answering' \in [Client -> {"none", "run", "ended"}]
        /\ hears' \in [Waiter -> {Nothing, "check", "subscribe", "recv", "shutdown"}]
    <3>1. CASE handle(c)
      BY ZenonT(40), <3>1 DEF handle, Waiter
    <3>2. CASE request_ends(c)
      BY Zenon, <3>2 DEF request_ends, Waiter
    <3> QED
      BY Zenon, <1>6, <3>1, <3>2
  <2> QED
    BY Zenon, <1>6, <2>1, FrameInv DEF handle, request_ends
<1> QED
  BY Zenon, <1>1, <1>2, <1>3, <1>4, <1>5, <1>6

\* The services are stopped, and after them dropped, only when every worker has ended and was
\* joined, unless the manager has given up after a worker's failure (Manager::stop and poll in
\* service/manager.rs, run and stop in main/): for any number of services and any signals and
\* failures. LifecycleInv says why: the manager is done only with every worker joined and none to
\* be restarted, and the main task waits for the manager before it goes on.
THEOREM ServicesOutliveWorkers == SpecLifecycle => []WorkersWaitedFor
<1>1. LifecycleInv /\ [NextLifecycle]_lifeVars => LifecycleInv'
  <2> SUFFICES ASSUME LifecycleInv, [NextLifecycle]_lifeVars PROVE LifecycleInv'
    OBVIOUS
  <2>1. CASE UNCHANGED lifeVars
    BY Zenon, <2>1, FrameInv DEF lifeVars, LifecycleInv, LifecycleTypeOK
  <2>2. CASE ~UNCHANGED lifeVars
    BY Zenon, <2>2, ServerStep, WorkerStep, ManagerStep, MainStep DEF NextLifecycle
  <2> QED
    BY Zenon, <2>1, <2>2
<1>2. LifecycleInv => WorkersWaitedFor
  BY Zenon DEF LifecycleInv, LifecycleTypeOK, WorkersWaitedFor
<1> QED
  BY <1>1, <1>2, InitLifecycleInv, PTL DEF SpecLifecycle

-----------------------------------------------------------------------------
(* The pool of the database's workers.                                     *)

\* Pool::configure gives every worker a queue: their number modulo that of the queues.
LEMMA GroupIsQueue == PoolInv => \A w \in threads : group(w) \in queues
<1> SUFFICES ASSUME PoolInv, NEW w \in threads PROVE group(w) \in queues
  OBVIOUS
<1> DEFINE sizes == queue_sizes(db_setup)
           n == Len(sizes)
<1>1. sizes \in Seq(Nat \ {0}) /\ sizes # <<>> /\ total_workers(db_setup) \in Nat
  BY Zenon, ConfigureAssumption DEF PoolInv
<1> HIDE DEF sizes
<1>2. n \in Nat \ {0} /\ DOMAIN sizes = 1 .. n
  BY <1>1
<1>3. w \in Nat \ {0}
  BY <1>1 DEF threads
<1>4. ((w - 1) % n) + 1 \in 1 .. n
  BY <1>2, <1>3
<1> QED
  BY Zenon, <1>2, <1>4 DEF group, queues, sizes

\* The pool is spawned with empty queues and waiting workers.
LEMMA InitPoolInv == InitPool => PoolInv
<1> SUFFICES ASSUME InitPool PROVE PoolInv
  OBVIOUS
<1>1. db_queue \in [queues -> Seq(Reader)]
  BY DEF InitPool
<1>2. db_thread \in [threads -> {<<"wait">>, <<"joined">>} \cup ({"handle", "drop"} \X Reader)]
  BY Zenon DEF InitPool
<1>3. query \in [Reader -> {"idle", "answered", "failed", "cancelled"} \cup Unanswered]
  BY Zenon DEF InitPool
<1> QED
  BY Zenon, <1>1, <1>2, <1>3 DEF InitPool, PoolInv

\* A step that leaves the queues and the threads alone.
LEMMA QueryInv ==
    ASSUME PoolInv, UNCHANGED <<db_setup, db_queue, db_thread, pool, held>>,
           NEW r \in Reader, NEW to \in {"idle", "answered", "failed", "cancelled"} \cup Unanswered,
           query' = [query EXCEPT ![r] = to],
           held \/ to \notin Unanswered
    PROVE  PoolInv'
<1>1. query' \in [Reader -> {"idle", "answered", "failed", "cancelled"} \cup Unanswered]
  BY Zenon DEF PoolInv
<1>2. ~held => \A x \in Reader : query'[x] \notin Unanswered
  BY Zenon DEF PoolInv
<1>3. queues' = queues /\ threads' = threads
  BY Zenon DEF queues, threads
<1> QED
  BY Zenon, <1>1, <1>2, <1>3 DEF PoolInv

\* The reads of the database: a cached one is answered at once, the others are queued.
LEMMA ReaderStep ==
    ASSUME PoolInv, NEW r \in Reader,
           \/ get(r) \/ get_batch(r) \/ raw_stream_from(r) \/ rev_raw_stream_from(r)
           \/ execute(r) \/ drop_query(r)
    PROVE  PoolInv'
<1>1. ASSUME NEW how \in {"answered", "execute_get", "execute_iter"}, asks(r, how) PROVE PoolInv'
  BY Zenon, <1>1, QueryInv DEF asks, Unanswered
<1>2. CASE drop_query(r)
  <2>1. "cancelled" \notin Unanswered
    BY Zenon DEF Unanswered
  <2> QED
    BY Zenon, <1>2, <2>1, QueryInv DEF drop_query
<1>3. CASE execute(r)
  <2>1. held /\ pool = "open"
    BY Zenon, <1>3 DEF execute, PoolInv, Unanswered
  <2>2. CASE UNCHANGED db_queue /\ query' = [query EXCEPT ![r] = "failed"]
    BY Zenon, <1>3, <2>1, <2>2, QueryInv DEF execute
  <2>3. CASE ~(UNCHANGED db_queue /\ query' = [query EXCEPT ![r] = "failed"])
    <3>1. /\ db_queue' = [db_queue EXCEPT ![asked_of[r]] = Append(@, r)]
          /\ query' = [query EXCEPT ![r] = "recv"]
          /\ UNCHANGED <<db_setup, db_thread, asked_of, pool, closer, held>>
      BY Zenon, <1>3, <2>3 DEF execute
    <3>2. queues' = queues /\ threads' = threads
      BY Zenon, <3>1 DEF queues, threads
    <3>3. db_queue' \in [queues -> Seq(Reader)]
      <4>1. \A q \in queues : Append(db_queue[q], r) \in Seq(Reader)
        BY DEF PoolInv
      <4> QED
        BY Zenon, <3>1, <4>1 DEF PoolInv
    <3>4. query' \in [Reader -> {"idle", "answered", "failed", "cancelled"} \cup Unanswered]
      BY Zenon, <3>1 DEF PoolInv, Unanswered
    <3> QED
      BY Zenon, <2>1, <3>1, <3>2, <3>3, <3>4 DEF PoolInv
  <2> QED
    BY Zenon, <2>2, <2>3
<1> QED
  BY Zenon, <1>1, <1>2, <1>3 DEF get, get_batch, raw_stream_from, rev_raw_stream_from

\* A worker that handles a command has one.
LEMMA ThreadTypes ==
    ASSUME PoolInv, NEW w \in threads
    PROVE  /\ db_thread[w][1] \in {"wait", "joined", "handle", "drop"}
           /\ db_thread[w][1] \in {"handle", "drop"} => db_thread[w][2] \in Reader
           /\ <<"wait">>[1] = "wait" /\ <<"joined">>[1] = "joined"
BY DEF PoolInv

\* The workers. The last one to drop a command may close the pool, with nothing left in it.
LEMMA ThreadStep ==
    ASSUME PoolInv, NEW w \in threads,
           worker_wait(w) \/ worker_handle(w) \/ drop_command(w) \/ worker_ends(w)
    PROVE  PoolInv'
<1> DEFINE State == {<<"wait">>, <<"joined">>} \cup ({"handle", "drop"} \X Reader)
<1>0. /\ db_queue \in [queues -> Seq(Reader)] /\ db_thread \in [threads -> State]
      /\ query \in [Reader -> {"idle", "answered", "failed", "cancelled"} \cup Unanswered]
  BY Zenon DEF PoolInv
<1>1. UNCHANGED <<db_setup, held>> /\ queues' = queues /\ threads' = threads
  BY Zenon DEF worker_wait, worker_handle, drop_command, worker_ends, queues, threads
<1>2. CASE worker_wait(w)
  <2>1. group(w) \in queues /\ db_queue[group(w)] # <<>>
    BY Zenon, <1>2, GroupIsQueue DEF worker_wait
  <2>2. pool = "open" /\ pool' = pool /\ query' = query
    BY Zenon, <1>2, <2>1 DEF PoolInv, worker_wait
  <2>3. /\ db_thread' = [db_thread EXCEPT ![w] = <<"handle", Head(db_queue[group(w)])>>]
        /\ db_queue' = [db_queue EXCEPT ![group(w)] = Tail(db_queue[group(w)])]
    BY Zenon, <1>2 DEF worker_wait
  <2>4. Head(db_queue[group(w)]) \in Reader /\ Tail(db_queue[group(w)]) \in Seq(Reader)
    BY <1>0, <2>1
  <2>5. db_thread' \in [threads -> State] /\ db_queue' \in [queues -> Seq(Reader)]
    BY Zenon, <1>0, <2>3, <2>4
  <2> QED
    BY Zenon, <1>1, <2>2, <2>5 DEF PoolInv
<1>3. CASE worker_handle(w)
  <2>1. db_thread[w][1] = "handle" /\ db_thread[w][2] \in Reader
    BY Zenon, <1>3, ThreadTypes DEF worker_handle
  <2>2. pool = "open" /\ pool' = pool /\ db_queue' = db_queue
    <3>1. db_thread[w][1] \notin {"wait", "joined"}
      BY Zenon, <2>1
    <3> QED
      BY Zenon, <1>3, <3>1 DEF PoolInv, worker_handle
  <2>3. /\ db_thread' = [db_thread EXCEPT ![w] = <<"drop", db_thread[w][2]>>]
        /\ query' = query \/ query' = [query EXCEPT ![db_thread[w][2]] = "answered"]
    BY Zenon, <1>3 DEF worker_handle
  <2>4. db_thread' \in [threads -> State]
    BY Zenon, <1>0, <2>1, <2>3
  <2>5. query' \in [Reader -> {"idle", "answered", "failed", "cancelled"} \cup Unanswered]
    BY Zenon, <1>0, <2>3
  <2>6. ~held => \A r \in Reader : query'[r] \notin Unanswered
    BY ZenonT(40), <1>0, <2>3 DEF PoolInv, Unanswered
  <2> QED
    BY Zenon, <1>1, <2>2, <2>4, <2>5, <2>6 DEF PoolInv
<1>4. CASE drop_command(w)
  <2>1. db_thread' = [db_thread EXCEPT ![w] = <<"wait">>] /\ query' = query /\ db_queue' = db_queue
    BY Zenon, <1>4 DEF drop_command
  <2>2. db_thread' \in [threads -> State]
    BY Zenon, <1>0, <2>1
  <2>3. \/ pool' = pool
        \/ /\ ~held /\ \A q \in queues : db_queue[q] = <<>>
           /\ \A u \in threads \ {w} : db_thread[u][1] \in {"wait", "joined"}
    BY Zenon, <1>4 DEF drop_command, outstanding
  <2>4. db_thread'[w][1] = "wait" /\ \A u \in threads \ {w} : db_thread'[u] = db_thread[u]
    BY Zenon, <1>0, <2>1
  <2>5. pool' # "open" => /\ ~held /\ \A q \in queues : db_queue[q] = <<>>
                          /\ \A u \in threads : db_thread'[u][1] \in {"wait", "joined"}
    BY Zenon, <2>3, <2>4 DEF PoolInv
  <2> QED
    BY Zenon, <1>1, <2>1, <2>2, <2>5 DEF PoolInv
<1>5. CASE worker_ends(w)
  <2>1. db_thread' = [db_thread EXCEPT ![w] = <<"joined">>] /\ query' = query /\ db_queue' = db_queue /\ pool' = pool
    BY Zenon, <1>5 DEF worker_ends
  <2>2. db_thread' \in [threads -> State]
    BY Zenon, <1>0, <2>1
  <2>3. db_thread'[w][1] = "joined" /\ \A u \in threads \ {w} : db_thread'[u] = db_thread[u]
    BY Zenon, <1>0, <2>1
  <2>4. pool' # "open" => \A u \in threads : db_thread'[u][1] \in {"wait", "joined"}
    BY Zenon, <2>1, <2>3 DEF PoolInv
  <2> QED
    BY Zenon, <1>1, <2>1, <2>2, <2>4 DEF PoolInv
<1> QED
  BY Zenon, <1>2, <1>3, <1>4, <1>5

\* The database is dropped by its last user, and the pool with it.
LEMMA CloseStep == ASSUME PoolInv, drop_database \/ close_returns PROVE PoolInv'
<1>1. UNCHANGED <<db_setup, db_queue, db_thread, query>> /\ queues' = queues /\ threads' = threads
  BY Zenon DEF drop_database, close_returns, queues, threads
<1>2. CASE drop_database
  <2>1. held /\ ~held' /\ \A r \in Reader : query[r] \notin Unanswered
    BY Zenon, <1>2 DEF drop_database, Unanswered
  <2>2. \/ pool' = pool
        \/ /\ \A q \in queues : db_queue[q] = <<>>
           /\ \A u \in threads : db_thread[u][1] \in {"wait", "joined"}
    BY Zenon, <1>2 DEF drop_database, outstanding
  <2> QED
    BY Zenon, <1>1, <2>1, <2>2 DEF PoolInv
<1>3. CASE close_returns
  <2>1. pool # "open" /\ pool' # "open" /\ held' = held
    BY Zenon, <1>3 DEF close_returns
  <2> QED
    BY Zenon, <1>1, <2>1 DEF PoolInv
<1> QED
  BY Zenon, <1>2, <1>3

\* When the pool is closed, no command is queued and nobody waits for an answer: for every
\* topology that Pool::configure accepts and any number of readers. PoolInv says that a closed
\* pool has no references left, neither of readers nor in its queues nor with its workers.
THEOREM PoolClosesEmpty == SpecPool => []NothingQueuedOnClose
<1>1. PoolInv /\ [NextPool]_poolVars => PoolInv'
  <2>1. PoolInv /\ UNCHANGED poolVars => PoolInv'
    <3>1. UNCHANGED poolVars => UNCHANGED <<db_setup, db_queue, db_thread, query, pool, held, queues, threads>>
      BY Zenon DEF poolVars, queues, threads
    <3> QED
      BY Zenon, <3>1 DEF PoolInv
  <2> QED
    BY Zenon, <2>1, ReaderStep, ThreadStep, CloseStep DEF NextPool, poolDone
<1>2. PoolInv => NothingQueuedOnClose
  BY Zenon DEF PoolInv, NothingQueuedOnClose, Unanswered
<1> QED
  BY <1>1, <1>2, InitPoolInv, PTL DEF SpecPool
=============================================================================
