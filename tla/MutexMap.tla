------------------------------ MODULE MutexMap ------------------------------
(***************************************************************************)
(* MutexMap (src/src/core/utils/mutex_map.rs): one tokio mutex per key,    *)
(* created on first use and removed from the map by the guard that finds   *)
(* itself alone.  It serialises the rooms' state, inserts and federation   *)
(* traffic, the resolver and the URL previews.                             *)
(*                                                                         *)
(* The map's own std::sync::Mutex is only held inside one step, so what    *)
(* happens under it is one action.  The strong count of an Arc is read     *)
(* without it in Guard::drop and changes at any moment.  A freed Arc may   *)
(* be allocated again.  tokio serves waiters in order; here any waiter may *)
(* be next, which allows more.                                             *)
(***************************************************************************)
EXTENDS Integers, FiniteSets

CONSTANTS
    Locker,       \* the tasks that lock keys
    Key,        \* the keys: room ids, server names, URLs
    Mutex,      \* the addresses of Arc<tokio::sync::Mutex<Val>>
    NoMutex, NoKey, NoLocker

ASSUME FiniteAssumption == IsFiniteSet(Locker) /\ IsFiniteSet(Key)
ASSUME NoneAssumption == NoMutex \notin Mutex /\ NoKey \notin Key /\ NoLocker \notin Locker

VARIABLES
    map,        \* Key -> the mutex of its entry
    owner,      \* Mutex -> the task that has its permit
    pc,         \* Locker -> where it is in lock, try_lock or Guard::drop
    key,        \* Locker -> the key it asked for
    val         \* Locker -> the Arc it holds

vars == <<map, owner, pc, key, val>>

\* The steps of a task before it has the lock, and after.
Before == {"cloned", "trying", "waiting"}
After  == {"cleanup", "release", "unlocked"}

\* The type invariant; only an idle task has no Arc, and Arcs come with a key.
TypeOK ==
    /\ map   \in [Key -> Mutex \cup {NoMutex}]
    /\ owner \in [Mutex -> Locker \cup {NoLocker}]
    /\ pc    \in [Locker -> {"idle", "held"} \cup Before \cup After]
    /\ key   \in [Locker -> Key \cup {NoKey}]
    /\ val   \in [Locker -> Mutex \cup {NoMutex}]
    /\ \A t \in Locker : pc[t] # "idle" => val[t] \in Mutex /\ key[t] \in Key
    /\ \A t \in Locker : pc[t] = "idle" => val[t] = NoMutex

Init ==
    /\ map   = [k \in Key |-> NoMutex]
    /\ owner = [m \in Mutex |-> NoLocker]
    /\ pc    = [t \in Locker |-> "idle"]
    /\ key   = [t \in Locker |-> NoKey]
    /\ val   = [t \in Locker |-> NoMutex]

\* Arc::strong_count: the map's own reference and one per task.
strong_count(m) ==
    Cardinality({t \in Locker : val[t] = m}) + Cardinality({k \in Key : map[k] = m})

Waiters(m) == {t \in Locker : pc[t] = "waiting" /\ val[t] = m /\ owner[m] # t}

\* entry(k).or_default().clone(), under the map's lock.
clone(t, k, then) ==
    /\ pc[t] = "idle"
    /\ \E m \in Mutex :
          /\ IF map[k] = NoMutex THEN strong_count(m) = 0 ELSE m = map[k]
          /\ map' = [map EXCEPT ![k] = m]
          /\ val' = [val EXCEPT ![t] = m]
    /\ key' = [key EXCEPT ![t] = k]
    /\ pc'  = [pc EXCEPT ![t] = then]
    /\ UNCHANGED owner

lock(t, k) == clone(t, k, "cloned")

\* try_try_lock differs only in that it may give up before it looks at the map.
try_lock(t, k) == clone(t, k, "trying")

\* The first poll of val.lock_owned(): take the permit or wait for it.
lock_owned(t) ==
    /\ pc[t] = "cloned"
    /\ IF owner[val[t]] = NoLocker
       THEN owner' = [owner EXCEPT ![val[t]] = t] /\ pc' = [pc EXCEPT ![t] = "held"]
       ELSE pc' = [pc EXCEPT ![t] = "waiting"] /\ UNCHANGED owner
    /\ UNCHANGED <<map, key, val>>

\* The waiter that was given the permit runs again.
wake(t) ==
    /\ pc[t] = "waiting" /\ owner[val[t]] = t
    /\ pc' = [pc EXCEPT ![t] = "held"]
    /\ UNCHANGED <<map, owner, key, val>>

\* val.try_lock_owned(): the permit now, or the Arc is dropped ("would yield").
try_lock_owned(t) ==
    /\ pc[t] = "trying"
    /\ IF owner[val[t]] = NoLocker
       THEN owner' = [owner EXCEPT ![val[t]] = t] /\ pc' = [pc EXCEPT ![t] = "held"]
       ELSE pc' = [pc EXCEPT ![t] = "unlocked"] /\ UNCHANGED owner
    /\ UNCHANGED <<map, key, val>>

\* The future of lock() is dropped before it is done: a permit that was already
\* assigned goes back, and the Arc is dropped; there is no Guard and no cleanup.
cancel(t) ==
    /\ pc[t] = "waiting"
    /\ pc' = [pc EXCEPT ![t] = IF owner[val[t]] = t THEN "release" ELSE "unlocked"]
    /\ UNCHANGED <<map, owner, key, val>>

\* Guard::drop looks at the count without the map's lock.
drop_check(t) ==
    /\ pc[t] = "held"
    /\ pc' = [pc EXCEPT ![t] = IF strong_count(val[t]) <= 2 THEN "cleanup" ELSE "release"]
    /\ UNCHANGED <<map, owner, key, val>>

Retained_unchecked(t) ==
    [k \in Key |-> IF map[k] = val[t] THEN NoMutex ELSE map[k]]

\* What retain() keeps: every entry but the guard's own, and that one too when
\* somebody cloned it since the first look.
Retained(t) ==
    [k \in Key |-> IF map[k] = val[t] /\ strong_count(map[k]) <= 2 THEN NoMutex ELSE map[k]]

\* Guard::drop under the map's lock.
drop_retain(t) ==
    /\ pc[t] = "cleanup"
    /\ map' = Retained(t)
    /\ pc'  = [pc EXCEPT ![t] = "release"]
    /\ UNCHANGED <<owner, key, val>>

\* The OwnedMutexGuard's own drop: the permit goes to a waiter if there is one ...
drop_release(t) ==
    /\ pc[t] = "release"
    /\ \E u \in IF Waiters(val[t]) = {} THEN {NoLocker} ELSE Waiters(val[t]) :
          owner' = [owner EXCEPT ![val[t]] = u]
    /\ pc' = [pc EXCEPT ![t] = "unlocked"]
    /\ UNCHANGED <<map, key, val>>

\* ... and then its Arc.
drop_arc(t) ==
    /\ pc[t] = "unlocked"
    /\ val' = [val EXCEPT ![t] = NoMutex]
    /\ key' = [key EXCEPT ![t] = NoKey]
    /\ pc'  = [pc EXCEPT ![t] = "idle"]
    /\ UNCHANGED <<map, owner>>

Step(t) ==
    \/ \E k \in Key : lock(t, k)
    \/ \E k \in Key : try_lock(t, k)
    \/ lock_owned(t)
    \/ wake(t)
    \/ try_lock_owned(t)
    \/ cancel(t)
    \/ drop_check(t)
    \/ drop_retain(t)
    \/ drop_release(t)
    \/ drop_arc(t)

Next == \E t \in Locker : Step(t)

Spec == Init /\ [][Next]_vars

-----------------------------------------------------------------------------
(* Correctness                                                             *)

\* Two tasks never hold the guard of one key at once, although the mutex behind
\* the key may be removed and made anew between any two of their steps: this is
\* what every `mutex.lock(room_id)` in the services relies on.
MutualExclusion ==
    \A t, u \in Locker : pc[t] = "held" /\ pc[u] = "held" /\ key[t] = key[u] => t = u

\* A key that is locked or waited for is in the map, under the very mutex the
\* task holds (the "must contain key" assertions of the mutex_map_contend test):
\* an entry taken away too early would send the next caller to a new mutex.
InUseIsInMap ==
    \A t \in Locker : pc[t] \in Before \cup {"held", "cleanup"} => map[key[t]] = val[t]

\* The permit of a mutex is held by exactly the task that is past lock_owned.
OwnerInv ==
    /\ \A t \in Locker : pc[t] \in {"held", "cleanup", "release"} => owner[val[t]] = t
    /\ \A m \in Mutex, t \in Locker :
          owner[m] = t => val[t] = m /\ pc[t] \in {"waiting", "held", "cleanup", "release"}

\* An Arc belongs to one key, in the map and in the hands of the tasks.
OneKeyPerMutex ==
    /\ \A k, l \in Key : map[k] = map[l] /\ map[k] # NoMutex => k = l
    /\ \A t \in Locker, k \in Key : val[t] # NoMutex /\ map[k] = val[t] => key[t] = k

\* The inductive invariant behind MutualExclusion.
InductiveInv == TypeOK /\ InUseIsInMap /\ OwnerInv /\ OneKeyPerMutex
=============================================================================
