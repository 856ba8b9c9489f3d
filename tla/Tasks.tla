-------------------------------- MODULE Tasks --------------------------------
(***************************************************************************)
(* Requests served concurrently. Each is a task of the runtime: a list of  *)
(* the steps it still has to take, one database write, lock or answer each. *)
(* Tasks are scheduled in any order, so that their steps interleave freely. *)
(***************************************************************************)
EXTENDS Integers, Sequences, FiniteSets

CONSTANTS Task,        \* tasks that may run at the same time
          MaxStarted   \* bound: requests begun in a behaviour

VARIABLES work,        \* the steps each task still has to take
          started      \* requests begun so far

taskVars == <<work, started>>

idle(t) == work[t] = <<>>
all_idle == \A t \in Task : idle(t)
next_is(t, what) == ~idle(t) /\ Head(work[t]).do = what
now(t) == Head(work[t])

\* Some task has yet to take a step of one of these kinds.
pending(kinds) == \E t \in Task : \E i \in 1 .. Len(work[t]) : work[t][i].do \in kinds

\* An idle task takes a request on.
begins(t, steps) ==
    /\ idle(t) /\ started < MaxStarted /\ steps # <<>>
    /\ started' = started + 1
    /\ work' = [work EXCEPT ![t] = steps]

\* A task takes its next step, which may turn out to consist of others.
goes_on(t, steps) ==
    /\ work' = [work EXCEPT ![t] = steps \o Tail(@)]
    /\ UNCHANGED started

steps_on(t) == goes_on(t, <<>>)

\* A task gives up what it still had to do and takes these steps instead.
ends_with(t, steps) ==
    /\ work' = [work EXCEPT ![t] = steps]
    /\ UNCHANGED started

\* No task has work. An instance may leave fewer requests than the bound to begin.
InitTasks(spent) == work = [t \in Task |-> <<>>] /\ started = spent
=============================================================================
