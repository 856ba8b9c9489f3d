-------------------------- MODULE Presence_proofs --------------------------
(***************************************************************************)
(* Proofs for the presence. A task reads the number of a presence, then    *)
(* the presence, and writes another one in up to four steps, while other   *)
(* tasks do the same and timers end. The inductive invariant, PresenceInv, *)
(* says of every user shown online what will time them out: which timer,   *)
(* or which task at which step. Each step of the task that is to do so     *)
(* hands this on to its next one.                                          *)
(***************************************************************************)
EXTENDS Presence, TLAPS

-----------------------------------------------------------------------------
(* Lists of steps, and what a task makes of its own.                       *)

\* Lists that are equal step by step are equal.
LEMMA StepByStep ==
    ASSUME NEW S, NEW a \in Seq(S), NEW b \in Seq(S), Len(a) = Len(b), \A i \in 1 .. Len(a) : a[i] = b[i]
    PROVE  a = b
BY SMTT(20)

\* A list of no steps.
LEMMA NoSteps ==
    ASSUME NEW S
    PROVE  <<>> \in Seq(S)
OBVIOUS

\* The steps of a list are its first one and the later ones.
LEMMA FirstAndRest ==
    ASSUME NEW S, NEW q \in Seq(S), q # <<>>
    PROVE  steps_in(q) = {Head(q)} \cup steps_in(Tail(q))
<1>1. /\ Tail(q) \in Seq(S) /\ Len(Tail(q)) = Len(q) - 1 /\ Len(q) >= 1 /\ Head(q) = q[1]
      /\ \A i \in 1 .. Len(q) - 1 : Tail(q)[i] = q[i + 1]
  OBVIOUS
<1>2. \A i \in DOMAIN q : i # 1 => i - 1 \in DOMAIN Tail(q) /\ q[i] = Tail(q)[i - 1]
  BY <1>1
<1>3. \A i \in DOMAIN Tail(q) : i + 1 \in DOMAIN q /\ Tail(q)[i] = q[i + 1]
  BY <1>1
<1>4. 1 \in DOMAIN q
  BY <1>1
<1>a. Head(q) = q[1]
  BY Zenon, <1>1
<1>5. ASSUME NEW x \in steps_in(q) PROVE x \in {Head(q)} \cup steps_in(Tail(q))
  <2>1. PICK i \in DOMAIN q : x = q[i]
    BY Zenon DEF steps_in
  <2>2. CASE i = 1
    BY Zenon, <1>a, <2>1, <2>2
  <2>3. CASE i # 1
    BY Zenon, <1>2, <2>1, <2>3 DEF steps_in
  <2> QED
    BY Zenon, <2>2, <2>3
<1>6. ASSUME NEW x \in {Head(q)} \cup steps_in(Tail(q)) PROVE x \in steps_in(q)
  <2>1. CASE x = Head(q)
    BY Zenon, <1>4, <1>a, <2>1 DEF steps_in
  <2>2. CASE x \in steps_in(Tail(q))
    BY Zenon, <1>3, <2>2 DEF steps_in
  <2> QED
    BY Zenon, <2>1, <2>2
<1> QED
  BY Zenon, <1>5, <1>6

\* The steps of two lists.
LEMMA StepsOfBoth ==
    ASSUME NEW S, NEW a \in Seq(S), NEW b \in Seq(S)
    PROVE  steps_in(a \o b) = steps_in(a) \cup steps_in(b)
<1>1. /\ a \o b \in Seq(S) /\ Len(a \o b) = Len(a) + Len(b) /\ DOMAIN a = 1 .. Len(a) /\ DOMAIN b = 1 .. Len(b)
      /\ DOMAIN (a \o b) = 1 .. Len(a) + Len(b) /\ Len(a) \in Nat /\ Len(b) \in Nat
  OBVIOUS
<1>2. \A i \in DOMAIN (a \o b) : \/ i \in DOMAIN a /\ (a \o b)[i] = a[i]
                                 \/ i - Len(a) \in DOMAIN b /\ (a \o b)[i] = b[i - Len(a)]
  BY <1>1
<1>3. \A i \in DOMAIN a : i \in DOMAIN (a \o b) /\ (a \o b)[i] = a[i]
  BY <1>1
<1>4. \A i \in DOMAIN b : i + Len(a) \in DOMAIN (a \o b) /\ (a \o b)[i + Len(a)] = b[i]
  BY <1>1
<1>5. ASSUME NEW x PROVE x \in steps_in(a \o b) => x \in steps_in(a) \cup steps_in(b)
  BY Zenon, <1>2 DEF steps_in
<1>6. ASSUME NEW x PROVE x \in steps_in(a) \cup steps_in(b) => x \in steps_in(a \o b)
  BY Zenon, <1>3, <1>4 DEF steps_in
<1> QED
  BY Zenon, <1>5, <1>6

\* Steps put before others.
LEMMA PutBefore ==
    ASSUME NEW S, NEW a \in Seq(S), a # <<>>, NEW b \in Seq(S)
    PROVE  /\ a \o b # <<>> /\ Head(a \o b) = Head(a) /\ Tail(a \o b) = Tail(a) \o b
<1>1. /\ a \o b \in Seq(S) /\ Len(a \o b) = Len(a) + Len(b) /\ Len(a) >= 1 /\ (a \o b)[1] = a[1]
      /\ Len(a) \in Nat /\ Len(b) \in Nat
  OBVIOUS
<1>2. a \o b # <<>> /\ Head(a \o b) = Head(a)
  BY <1>1
<1>3. /\ Tail(a \o b) \in Seq(S) /\ Tail(a) \in Seq(S) /\ Tail(a) \o b \in Seq(S)
      /\ Len(Tail(a)) = Len(a) - 1 /\ Len(Tail(a \o b)) = Len(a) + Len(b) - 1
  BY <1>1, <1>2
<1>4. Len(Tail(a) \o b) = Len(a) + Len(b) - 1
  BY <1>1, <1>3
<1>5. ASSUME NEW i \in 1 .. Len(a) + Len(b) - 1 PROVE Tail(a \o b)[i] = (Tail(a) \o b)[i]
  <2>1. Tail(a \o b)[i] = (a \o b)[i + 1]
    BY <1>1, <1>2, <1>3
  <2>2. CASE i <= Len(a) - 1
    <3>1. (a \o b)[i + 1] = a[i + 1]
      BY <1>1, <2>2
    <3>2. Tail(a)[i] = a[i + 1]
      BY <1>1, <2>2
    <3>3. (Tail(a) \o b)[i] = Tail(a)[i]
      BY <1>1, <1>3, <2>2
    <3> QED
      BY Zenon, <2>1, <3>1, <3>2, <3>3
  <2>3. CASE i > Len(a) - 1
    <3>1. (a \o b)[i + 1] = b[i + 1 - Len(a)]
      BY <1>1, <2>3
    <3>2. (Tail(a) \o b)[i] = b[i - Len(Tail(a))]
      BY <1>1, <1>3, <2>3
    <3>3. i + 1 - Len(a) = i - Len(Tail(a))
      BY <1>1, <1>3
    <3> QED
      BY Zenon, <2>1, <3>1, <3>2, <3>3
  <2> QED
    BY <1>1, <2>2, <2>3
<1>6. Tail(a \o b) = Tail(a) \o b
  BY <1>3, <1>4, <1>5, StepByStep
<1> QED
  BY Zenon, <1>2, <1>6

\* A list of steps that a task may take next.
Steps(q) == q = <<>> \/ (q \in Seq(NextStep) /\ Tail(q) \in Seq(LaterStep))

\* A task takes its next step, which may turn out to consist of others.
LEMMA PresencePlanOn ==
    ASSUME NEW q, PresencePlan(q), q # <<>>, NEW p, Steps(p), \A x \in steps_in(p) : x.do # "serves"
    PROVE  /\ PresencePlan(p \o Tail(q))
           /\ steps_in(q) = {Head(q)} \cup steps_in(Tail(q))
           /\ steps_in(p \o Tail(q)) = steps_in(p) \cup steps_in(Tail(q))
           /\ p # <<>> => /\ p \o Tail(q) # <<>> /\ Head(p \o Tail(q)) = Head(p)
                          /\ steps_in(Tail(p \o Tail(q))) = steps_in(Tail(p)) \cup steps_in(Tail(q))
<1> DEFINE rest == Tail(q)
<1>1. LaterStep \subseteq NextStep
  BY Zenon DEF NextStep
<1>2. /\ q \in Seq(NextStep) /\ rest \in Seq(LaterStep)
      /\ \A i \in DOMAIN q : q[i].do = "serves" => i = Len(q)
  BY Zenon DEF PresencePlan
<1>3. rest \in Seq(NextStep)
  BY <1>1, <1>2
<1>4. p \in Seq(NextStep)
  BY Zenon, NoSteps DEF Steps
<1>5. steps_in(q) = {Head(q)} \cup steps_in(rest)
  BY Zenon, <1>2, FirstAndRest
<1>6. steps_in(p \o rest) = steps_in(p) \cup steps_in(rest)
  BY ZenonT(40), <1>3, <1>4, StepsOfBoth
<1>7. ASSUME p # <<>>
      PROVE  /\ p \o rest # <<>> /\ Head(p \o rest) = Head(p) /\ Tail(p \o rest) = Tail(p) \o rest
             /\ Tail(p) \in Seq(LaterStep)
             /\ steps_in(Tail(p \o rest)) = steps_in(Tail(p)) \cup steps_in(rest)
  <2>1. p \o rest # <<>> /\ Head(p \o rest) = Head(p) /\ Tail(p \o rest) = Tail(p) \o rest
    BY ZenonT(40), <1>3, <1>4, <1>7, PutBefore
  <2>2. Tail(p) \in Seq(LaterStep)
    BY Zenon, <1>7 DEF Steps
  <2>3. steps_in(Tail(p) \o rest) = steps_in(Tail(p)) \cup steps_in(rest)
    <3>1. \A a, b \in Seq(LaterStep) : steps_in(a \o b) = steps_in(a) \cup steps_in(b)
      BY Zenon, StepsOfBoth
    <3>2. rest \in Seq(LaterStep)
      BY Zenon, <1>2
    <3> QED
      BY Zenon, <2>2, <3>1, <3>2
  <2> QED
    BY Zenon, <2>1, <2>2, <2>3
<1>8. p \o rest \in Seq(NextStep)
  BY <1>3, <1>4
<1>9. p \o rest # <<>> => Tail(p \o rest) \in Seq(LaterStep)
  <2>1. CASE p = <<>>
    <3>1. p \o rest = rest
      BY <1>3, <2>1
    <3>2. rest # <<>> => Tail(rest) \in Seq(LaterStep)
      BY <1>2
    <3> QED
      BY Zenon, <3>1, <3>2
  <2>2. CASE p # <<>>
    <3>1. Tail(p) \o rest \in Seq(LaterStep)
      BY <1>2, <1>7, <2>2
    <3> QED
      BY Zenon, <1>7, <2>2, <3>1
  <2> QED
    BY Zenon, <2>1, <2>2
<1>10. ASSUME NEW i \in DOMAIN (p \o rest), (p \o rest)[i].do = "serves" PROVE i = Len(p \o rest)
  <2>1. /\ Len(p) \in Nat /\ Len(rest) \in Nat /\ Len(rest) = Len(q) - 1 /\ Len(p \o rest) = Len(p) + Len(rest)
        /\ i \in 1 .. Len(p) + Len(rest)
    BY <1>2, <1>3, <1>4
  <2>2. CASE i <= Len(p)
    <3>1. (p \o rest)[i] = p[i] /\ i \in DOMAIN p
      BY <1>3, <1>4, <2>1, <2>2
    <3> QED
      BY Zenon, <1>10, <3>1 DEF steps_in
  <2>3. CASE i > Len(p)
    <3>1. (p \o rest)[i] = rest[i - Len(p)] /\ i - Len(p) \in 1 .. Len(rest)
      BY <1>3, <1>4, <2>1, <2>3
    <3>2. rest[i - Len(p)] = q[i - Len(p) + 1] /\ i - Len(p) + 1 \in DOMAIN q
      BY <1>2, <2>1, <3>1
    <3>3. i - Len(p) + 1 = Len(q)
      BY Zenon, <1>2, <1>10, <3>1, <3>2
    <3> QED
      BY <2>1, <3>3
  <2> QED
    BY <2>1, <2>2, <2>3
<1> HIDE DEF rest
<1>11. PresencePlan(p \o rest)
  BY Zenon, <1>8, <1>9, <1>10 DEF PresencePlan
<1> QED
  BY Zenon, <1>5, <1>6, <1>7, <1>11 DEF rest

\* Requests are served unless some task has yet to say so.
LEMMA WhenServing ==
    ASSUME \A t \in Task : work[t] \in Seq(NextStep)
    PROVE  serving <=> \A t \in Task : \A x \in steps_in(work[t]) : x.do # "serves"
<1>1. ASSUME NEW t \in Task PROVE DOMAIN work[t] = 1 .. Len(work[t])
  OBVIOUS
<1>2. pending({"serves"}) <=> \E t \in Task : \E i \in DOMAIN work[t] : work[t][i].do = "serves"
  BY Zenon, <1>1 DEF pending
<1> QED
  BY Zenon, <1>2 DEF serving, steps_in

\* Only the task's own steps change.
StepOf(t) ==
    /\ DOMAIN work' = Task /\ \A s \in Task \ {t} : work'[s] = work[s]
    /\ \A s \in Task : PresencePlan(work'[s])
    /\ serving' <=> serving

\* The task has other steps from then on, and its plan is still a plan.
LEMMA GoesOn ==
    ASSUME PresencePlans, NEW t \in Task, ~idle(t), now(t).do # "serves",
           NEW p, Steps(p), \A x \in steps_in(p) : x.do # "serves", goes_on(t, p)
    PROVE  /\ StepOf(t) /\ steps_in(work[t]) = {now(t)} \cup later(t) /\ steps_in(work'[t]) = steps_in(p) \cup later(t)
           /\ p # <<>> => /\ ~idle(t)' /\ now(t)' = Head(p)
                          /\ later(t)' = steps_in(Tail(p)) \cup later(t)
<1>1. /\ DOMAIN work = Task /\ \A s \in Task : PresencePlan(work[s])
  BY Zenon DEF PresencePlans
<1>2. work' = [work EXCEPT ![t] = p \o Tail(work[t])] /\ work[t] # <<>>
  BY Zenon DEF goes_on, idle
<1>3. /\ DOMAIN work' = Task /\ \A s \in Task \ {t} : work'[s] = work[s]
      /\ work'[t] = p \o Tail(work[t])
  BY Zenon, <1>1, <1>2
<1>4. /\ PresencePlan(work'[t]) /\ steps_in(work[t]) = {now(t)} \cup later(t)
      /\ steps_in(work'[t]) = steps_in(p) \cup later(t)
      /\ p # <<>> => /\ work'[t] # <<>> /\ Head(work'[t]) = Head(p)
                     /\ steps_in(Tail(work'[t])) = steps_in(Tail(p)) \cup later(t)
  <2>1. PresencePlan(work[t]) /\ work[t] # <<>>
    BY Zenon, <1>1, <1>2
  <2>2. /\ PresencePlan(p \o Tail(work[t]))
        /\ steps_in(work[t]) = {Head(work[t])} \cup steps_in(Tail(work[t]))
        /\ steps_in(p \o Tail(work[t])) = steps_in(p) \cup steps_in(Tail(work[t]))
        /\ p # <<>> => /\ p \o Tail(work[t]) # <<>> /\ Head(p \o Tail(work[t])) = Head(p)
                       /\ steps_in(Tail(p \o Tail(work[t]))) = steps_in(Tail(p)) \cup steps_in(Tail(work[t]))
    BY Zenon, <2>1, PresencePlanOn
  <2> QED
    BY Zenon, <1>3, <2>2 DEF now, later
<1>5. \A s \in Task : PresencePlan(work'[s])
  BY Zenon, <1>1, <1>3, <1>4
<1>6. serving <=> \A s \in Task : \A x \in steps_in(work[s]) : x.do # "serves"
  <2>1. \A s \in Task : work[s] \in Seq(NextStep)
    BY Zenon, <1>1 DEF PresencePlan
  <2> QED
    BY Zenon, <2>1, WhenServing
<1>7. serving' <=> \A s \in Task : \A x \in steps_in(work'[s]) : x.do # "serves"
  <2>1. \A s \in Task : work'[s] \in Seq(NextStep)
    BY Zenon, <1>5 DEF PresencePlan
  <2>2. \A s \in Task : DOMAIN work'[s] = 1 .. Len(work'[s])
    BY <2>1
  <2>3. pending({"serves"})' <=> \E s \in Task : \E i \in DOMAIN work'[s] : work'[s][i].do = "serves"
    BY Zenon, <2>2 DEF pending
  <2> QED
    BY Zenon, <2>3 DEF serving, steps_in
<1>8. (\A s \in Task : \A x \in steps_in(work'[s]) : x.do # "serves")
      <=> \A s \in Task : \A x \in steps_in(work[s]) : x.do # "serves"
  <2>1. (\A x \in steps_in(work'[t]) : x.do # "serves") <=> \A x \in steps_in(work[t]) : x.do # "serves"
    BY Zenon, <1>4
  <2> QED
    BY Zenon, <1>3, <2>1
<1>9. serving' <=> serving
  BY Zenon, <1>6, <1>7, <1>8
<1>10. StepOf(t)
  BY Zenon, <1>3, <1>4, <1>5, <1>9 DEF StepOf
<1> QED
  BY Zenon, <1>4, <1>10 DEF idle, now, later

\* A single step.
LEMMA OneStep ==
    ASSUME NEW x \in NextStep
    PROVE  /\ <<x>> # <<>> /\ Head(<<x>>) = x /\ Steps(<<x>>)
           /\ steps_in(<<x>>) = {x} /\ steps_in(Tail(<<x>>)) = {}
<1>1. /\ <<x>> # <<>> /\ Head(<<x>>) = x /\ <<x>> \in Seq(NextStep)
      /\ DOMAIN <<x>> = {1} /\ <<x>>[1] = x
  OBVIOUS
<1>2. Tail(<<x>>) = <<>>
  OBVIOUS
<1>3. <<>> \in Seq(LaterStep) /\ DOMAIN <<>> = {}
  OBVIOUS
<1>4. steps_in(<<x>>) = {x}
  BY Zenon, <1>1 DEF steps_in
<1>5. steps_in(<<>>) = {}
  BY Zenon, <1>3 DEF steps_in
<1> QED
  BY Zenon, <1>1, <1>2, <1>3, <1>4, <1>5 DEF Steps

\* A task whose next step turns out to be another one.
LEMMA TakesOne ==
    ASSUME PresencePlans, NEW t \in Task, ~idle(t), now(t).do # "serves",
           NEW x \in NextStep, x.do # "serves", goes_on(t, <<x>>)
    PROVE  /\ StepOf(t) /\ steps_in(work[t]) = {now(t)} \cup later(t) /\ steps_in(work'[t]) = {x} \cup later(t)
           /\ ~idle(t)' /\ now(t)' = x /\ later(t)' = later(t)
<1>1. /\ <<x>> # <<>> /\ Head(<<x>>) = x /\ Steps(<<x>>)
      /\ steps_in(<<x>>) = {x} /\ steps_in(Tail(<<x>>)) = {}
  BY Zenon, OneStep
<1>2. \A y \in steps_in(<<x>>) : y.do # "serves"
  BY Zenon, <1>1
<1>3. /\ StepOf(t) /\ steps_in(work[t]) = {now(t)} \cup later(t) /\ steps_in(work'[t]) = steps_in(<<x>>) \cup later(t)
      /\ ~idle(t)' /\ now(t)' = Head(<<x>>)
      /\ later(t)' = steps_in(Tail(<<x>>)) \cup later(t)
  BY Zenon, <1>1, <1>2, GoesOn
<1>4. {} \cup later(t) = later(t)
  OBVIOUS
<1> QED
  BY Zenon, <1>1, <1>3, <1>4

\* A task that is done with its next step.
LEMMA TakesNone ==
    ASSUME PresencePlans, NEW t \in Task, ~idle(t), now(t).do # "serves", steps_on(t)
    PROVE  /\ StepOf(t) /\ steps_in(work[t]) = {now(t)} \cup later(t) /\ steps_in(work'[t]) = later(t)
<1>1. Steps(<<>>) /\ steps_in(<<>>) = {}
  <2>1. DOMAIN <<>> = {}
    OBVIOUS
  <2> QED
    BY Zenon, <2>1 DEF Steps, steps_in
<1>2. \A y \in steps_in(<<>>) : y.do # "serves"
  BY Zenon, <1>1
<1>3. /\ StepOf(t) /\ steps_in(work[t]) = {now(t)} \cup later(t) /\ steps_in(work'[t]) = steps_in(<<>>) \cup later(t)
  BY Zenon, <1>1, <1>2, GoesOn DEF steps_on
<1>4. {} \cup later(t) = later(t)
  OBVIOUS
<1> QED
  BY Zenon, <1>1, <1>3, <1>4

-----------------------------------------------------------------------------
(* Steps of a task that put no number in userid_presenceid.                *)

\* What other tasks do for a user.
LEMMA OthersCover ==
    ASSUME NEW s, work'[s] = work[s], time' = time, NEW u, NEW r, Covers(s, u, r)
    PROVE  Covers(s, u, r)'
BY Zenon DEF Covers, Replaces, Looks, Has, Puts, next_is, idle, now, later, Until, Starts, Done

\* Presences with the numbers given before a step.
LEMMA OldPresence ==
    ASSUME \A r \in presenceid_presence' : r \in presenceid_presence \/ r.id > presence_count,
           presence_count \in Nat
    PROVE  \A r \in presenceid_presence' : r.id \in 0 .. presence_count => r \in presenceid_presence
OBVIOUS

\* A step of a task that puts no number.
LEMMA QuietStep ==
    ASSUME PresenceInv, NEW t \in Task, serving \/ ~idle(t), StepOf(t), PresenceData',
           time' = time, userid_presenceid' = userid_presenceid, presence_count <= presence_count',
           \A r \in presenceid_presence' : r \in presenceid_presence \/ r.id > presence_count,
           \A u \in Chatter : \A at \in DOMAIN timers[u] :
               timers[u][at] > 0 => at \in DOMAIN timers'[u] /\ timers'[u][at] > 0,
           PutBeforeTimer(t)', ~idle(t) /\ SetsOffline(t) => SetsOffline(t)',
           \A u \in Chatter : \A r \in Awake(u) : r \in presenceid_presence' =>
               /\ Covers(t, u, r) => WillTimeOut(u, r)'
               /\ ~idle(t) /\ SetsOffline(t) /\ WillBeUnset(t, u, r) => WillBeUnset(t, u, r)'
    PROVE  PresenceInv'
<1>1. /\ PresenceData /\ PresencePlans /\ \A s \in Task : PutBeforeTimer(s)
  BY Zenon DEF PresenceInv
<1>2. PresencePlans'
  BY Zenon DEF StepOf, PresencePlans
<1>3. ASSUME NEW s \in Task \ {t} PROVE PutBeforeTimer(s)'
  <2>1. work'[s] = work[s]
    BY Zenon DEF StepOf
  <2> SUFFICES ASSUME next_is(s, "put_presenceid")
               PROVE  /\ now(s).id \in 1 .. presence_count'
                      /\ \E state \in PresenceState : Starts(now(s).user, state) \in later(s)
                      /\ \A r \in presence_of(now(s).user, now(s).id)' : Starts(now(s).user, r.state) \in later(s)
    BY Zenon, <2>1 DEF PutBeforeTimer, next_is, idle, now, later, Starts, presence_of
  <2>2. /\ now(s).id \in 1 .. presence_count
        /\ \E state \in PresenceState : Starts(now(s).user, state) \in later(s)
        /\ \A r \in presence_of(now(s).user, now(s).id) : Starts(now(s).user, r.state) \in later(s)
    BY Zenon, <1>1 DEF PutBeforeTimer
  <2>3. presence_count \in Nat /\ presence_count' \in Nat
    BY Zenon, <1>1 DEF PresenceData
  <2>4. now(s).id \in 1 .. presence_count' /\ now(s).id \in 0 .. presence_count
    BY <2>2, <2>3
  <2>5. \A r \in presence_of(now(s).user, now(s).id)' : r \in presence_of(now(s).user, now(s).id)
    BY Zenon, <2>1, <2>3, <2>4, OldPresence DEF now, presence_of
  <2> QED
    BY Zenon, <2>2, <2>4, <2>5
<1>4. ASSUME NEW u \in Chatter, NEW r \in Awake(u)' PROVE r \in Awake(u) /\ r \in presenceid_presence'
  <2>1. r \in present(u)' /\ r.state \in {"online", "unavailable"} /\ r \in presenceid_presence'
    BY Zenon DEF Awake, present, presence_of
  <2>2. userid_presenceid[u] \in 0 .. presence_count /\ presence_count \in Nat
    BY Zenon, <1>1 DEF PresenceData, Seen
  <2>3. \A s \in presence_of(u, userid_presenceid[u])' : s \in presence_of(u, userid_presenceid[u])
    BY Zenon, <2>2, OldPresence DEF presence_of
  <2> QED
    BY Zenon, <2>1, <2>3 DEF Awake, present
<1>5. ASSUME serving', NEW u \in Chatter, NEW r \in Awake(u)' PROVE WillTimeOut(u, r)'
  <2>1. r \in Awake(u) /\ r \in presenceid_presence'
    BY Zenon, <1>4
  <2>2. serving /\ WillTimeOut(u, r)
    BY Zenon, <1>5, <2>1 DEF StepOf, PresenceInv
  <2>3. CASE \E at \in DOMAIN timers[u] : timers[u][at] > 0 /\ at >= Until(r)
    BY Zenon, <2>3 DEF WillTimeOut, Until
  <2>4. ASSUME NEW s \in Task, Covers(s, u, r) PROVE WillTimeOut(u, r)'
    <3>1. CASE s = t
      BY Zenon, <2>1, <2>4, <3>1
    <3>2. CASE s # t
      <4>1. work'[s] = work[s]
        BY Zenon, <3>2 DEF StepOf
      <4>2. Covers(s, u, r)'
        BY Zenon, <2>4, <4>1, OthersCover
      <4> QED
        BY Zenon, <4>2 DEF WillTimeOut
    <3> QED
      BY Zenon, <3>1, <3>2
  <2> QED
    BY Zenon, <2>2, <2>3, <2>4 DEF WillTimeOut
<1>6. ASSUME ~serving'
      PROVE  \E s \in Task : /\ SetsOffline(s)' /\ \A q \in Task \ {s} : idle(q)'
                            /\ \A u \in Chatter : \A r \in Awake(u)' : WillBeUnset(s, u, r)'
  <2>1. ~serving /\ ~idle(t)
    BY Zenon, <1>6 DEF StepOf
  <2>2. PICK s \in Task : /\ SetsOffline(s) /\ \A q \in Task \ {s} : idle(q)
                          /\ \A u \in Chatter : \A r \in Awake(u) : WillBeUnset(s, u, r)
    BY Zenon, <2>1 DEF PresenceInv
  <2>3. s = t
    BY Zenon, <2>1, <2>2
  <2>4. SetsOffline(t)' /\ \A q \in Task \ {t} : idle(q)'
    BY Zenon, <2>2, <2>1, <2>3 DEF StepOf, idle
  <2>5. \A u \in Chatter : \A r \in Awake(u)' : WillBeUnset(t, u, r)'
    BY Zenon, <1>4, <2>1, <2>2, <2>3
  <2> QED
    BY Zenon, <2>4, <2>5
<1>7. \A s \in Task : PutBeforeTimer(s)'
  BY Zenon, <1>3
<1> QED
  BY Zenon, <1>2, <1>5, <1>6, <1>7 DEF PresenceInv

\* What the steps are made of.
LEMMA LookupFields ==
    ASSUME NEW x \in Lookup
    PROVE  /\ x.do \in {"ping_presence", "set_presence", "process_presence_timer", "unset_presence"}
           /\ x.user \in Seen /\ x.id \in Nat
           /\ x.do \in {"ping_presence", "set_presence"} => x.state \in PresenceState
           /\ x.do = "set_presence" => x.ago \in {Now} \cup Nat /\ x.msg \in StatusMsg
BY DEF Lookup

\* What the later steps are made of.
LEMMA LaterFields ==
    ASSUME NEW x \in LaterStep
    PROVE  /\ x.do \in {"get_presence", "remove_last", "start_timer", "timer_done", "serves"}
           /\ x.do = "get_presence" => x.what \in Lookup /\ x.what.do = "unset_presence"
           /\ x.do \in {"remove_last", "start_timer", "timer_done"} => x.user \in Seen
           /\ x.do = "remove_last" => x.id \in Nat
           /\ x.do = "start_timer" => x.state \in PresenceState /\ x = Starts(x.user, x.state)
           /\ x.do = "timer_done" => x = Done(x.user)
BY DEF LaterStep, Lookup, Starts, Done

\* What the next step is made of.
LEMMA NextFields ==
    ASSUME NEW x \in NextStep
    PROVE  /\ x.do = "get_presence" => x.what \in Lookup
           /\ x.do \in {"ping_presence", "set_presence", "process_presence_timer", "unset_presence"} => x \in Lookup
           /\ x.do = "put_presenceid" => x.user \in Seen /\ x.id \in Nat
           /\ x.do \in {"remove_last", "start_timer", "timer_done", "serves"} => x \in LaterStep
<1>1. CASE x \in LaterStep
  BY Zenon, <1>1, LaterFields
<1>2. CASE x \in Lookup
  BY Zenon, <1>2, LookupFields
<1>3. CASE x \in [do : {"get_presence"}, what : Lookup]
  BY <1>3
<1>4. CASE x \in [do : {"put_presenceid"}, user : Seen, id : Nat]
  BY <1>4
<1> QED
  BY Zenon, <1>1, <1>2, <1>3, <1>4 DEF NextStep

\* A presence is looked up.
LEMMA LookedUp ==
    ASSUME NEW w \in Lookup, NEW n \in Nat
    PROVE  /\ [w EXCEPT !.id = n] \in Lookup
           /\ [w EXCEPT !.id = n].do = w.do /\ [w EXCEPT !.id = n].user = w.user /\ [w EXCEPT !.id = n].id = n
           /\ w.do = "set_presence" => [w EXCEPT !.id = n].state = w.state
BY DEF Lookup

\* The steps that look a presence up.
LEMMA LooksUp ==
    ASSUME NEW w \in Lookup
    PROVE  /\ looks_up(w) = <<[do |-> "get_presence", what |-> w]>>
           /\ [do |-> "get_presence", what |-> w] \in NextStep
           /\ [do |-> "get_presence", what |-> w].do # "serves"
BY Zenon DEF looks_up, NextStep

\* The steps that set a presence.
LEMMA Sets ==
    ASSUME NEW u \in Seen, NEW state \in PresenceState, NEW ago \in {Now} \cup Nat, NEW msg \in StatusMsg
    PROVE  /\ sets(u, state, ago, msg)
              = <<[do |-> "get_presence", what |-> [do |-> "set_presence", user |-> u, state |-> state,
                                                    ago |-> ago, msg |-> msg, id |-> 0]]>>
           /\ [do |-> "set_presence", user |-> u, state |-> state, ago |-> ago, msg |-> msg, id |-> 0] \in Lookup
<1>1. 0 \in Nat
  OBVIOUS
<1> QED
  BY Zenon, <1>1 DEF sets, looks_up, Lookup

\* A task's next step, and later ones.
LEMMA NowAndLater ==
    ASSUME PresencePlans, NEW t \in Task, ~idle(t)
    PROVE  now(t) \in NextStep /\ \A x \in later(t) : x \in LaterStep
<1>1. work[t] \in Seq(NextStep) /\ work[t] # <<>> /\ Tail(work[t]) \in Seq(LaterStep)
  BY Zenon DEF PresencePlans, PresencePlan, idle
<1>2. Head(work[t]) \in NextStep
  BY <1>1
<1>3. \A i \in DOMAIN Tail(work[t]) : Tail(work[t])[i] \in LaterStep
  <2> DEFINE q == Tail(work[t])
  <2> HIDE DEF q
  <2>1. q \in Seq(LaterStep)
    BY Zenon, <1>1 DEF q
  <2>2. \A i \in DOMAIN q : q[i] \in LaterStep
    BY <2>1
  <2> QED
    BY Zenon, <2>2 DEF q
<1> QED
  BY Zenon, <1>2, <1>3 DEF now, later, steps_in

\* The later steps put no number.
LEMMA PutsNone ==
    ASSUME PresencePlans, NEW t \in Task, ~idle(t), StepOf(t), steps_in(work'[t]) = later(t)
    PROVE  PutBeforeTimer(t)' /\ SetsOffline(t)'
<1> SUFFICES ASSUME work'[t] # <<>>
             PROVE  /\ Head(work'[t]).do \notin {"put_presenceid", "set_presence", "ping_presence", "process_presence_timer"}
                    /\ Head(work'[t]).do = "get_presence" => Head(work'[t]).what.do = "unset_presence"
  BY Zenon DEF PutBeforeTimer, SetsOffline, next_is, idle, now
<1>1. work'[t] \in Seq(NextStep)
  BY Zenon DEF StepOf, PresencePlan
<1>2. Head(work'[t]) = work'[t][1] /\ 1 \in DOMAIN work'[t]
  BY <1>1
<1>3. Head(work'[t]) \in later(t)
  BY Zenon, <1>2 DEF steps_in
<1>4. Head(work'[t]) \in LaterStep
  BY Zenon, <1>3, NowAndLater
<1> QED
  BY <1>4, LaterFields

\* A step that changes no table.
LEMMA SameData ==
    ASSUME PresenceInv, NEW t \in Task, serving \/ ~idle(t), StepOf(t), UNCHANGED presenceVars, PutBeforeTimer(t)',
           ~idle(t) /\ SetsOffline(t) => SetsOffline(t)',
           \A u \in Chatter : \A r \in Awake(u) :
               /\ Covers(t, u, r) => WillTimeOut(u, r)'
               /\ ~idle(t) /\ SetsOffline(t) /\ WillBeUnset(t, u, r) => WillBeUnset(t, u, r)'
    PROVE  PresenceInv'
<1>1. /\ time' = time /\ userid_presenceid' = userid_presenceid /\ presence_count' = presence_count
      /\ presenceid_presence' = presenceid_presence /\ timers' = timers
  BY Zenon DEF presenceVars
<1>2. PresenceData
  BY Zenon DEF PresenceInv
<1>3. PresenceData'
  BY Zenon, <1>1, <1>2 DEF PresenceData
<1>4. presence_count <= presence_count'
  <2>1. presence_count \in Nat
    BY Zenon, <1>2 DEF PresenceData
  <2> QED
    BY <1>1, <2>1
<1> QED
  BY Zenon, <1>1, <1>3, <1>4, QuietStep

-----------------------------------------------------------------------------
(* The steps that read a presence, and the worker's.                       *)

\* A presence that is shown has the number of its user.
LEMMA AwakeRow ==
    ASSUME PresenceData, NEW u \in Chatter, NEW r \in Awake(u)
    PROVE  /\ r \in presenceid_presence /\ r.user = u /\ r.id = userid_presenceid[u]
           /\ u \in Seen /\ r.id \in 1 .. presence_count
           /\ r.state \in {"online", "unavailable"} /\ r.last_active_ts \in 0 .. time
           /\ \A s \in presence_of(u, r.id) : s = r
<1>1. /\ r \in presenceid_presence /\ r.user = u /\ r.id = userid_presenceid[u] /\ u \in Seen
      /\ r.state \in {"online", "unavailable"}
  BY Zenon DEF Awake, present, presence_of, Seen
<1>2. r.id \in 1 .. presence_count /\ r.last_active_ts \in 0 .. time
  BY <1>1 DEF PresenceData
<1>3. \A s \in presence_of(u, r.id) : s = r
  BY Zenon, <1>1 DEF presence_of, PresenceData
<1> QED
  BY Zenon, <1>1, <1>2, <1>3

\* get_presence: the number that is looked up is the one of the user's presence, at this time.
LEMMA GetStep ==
    ASSUME PresenceInv, NEW t \in Task, get_presence(t)
    PROVE  PresenceInv'
<1> DEFINE w == now(t).what
           n == userid_presenceid[w.user]
           x == [w EXCEPT !.id = n]
<1>1. /\ ~idle(t) /\ now(t).do = "get_presence" /\ goes_on(t, <<x>>) /\ UNCHANGED presenceVars
  BY Zenon DEF get_presence, next_is, now
<1>2. PresenceData /\ PresencePlans
  BY Zenon DEF PresenceInv
<1>3. w \in Lookup /\ w.user \in Seen /\ now(t) \in NextStep
  BY Zenon, <1>1, <1>2, NowAndLater, NextFields, LookupFields
<1>4. n \in Nat
  BY <1>2, <1>3 DEF PresenceData
<1>5. /\ x \in Lookup /\ x.do = w.do /\ x.user = w.user /\ x.id = n
      /\ w.do = "set_presence" => x.state = w.state
  <2> HIDE DEF w, n
  <2> QED
    BY Zenon, <1>3, <1>4, LookedUp
<1>6. x \in NextStep /\ x.do # "serves" /\ x.do \notin {"put_presenceid", "get_presence"}
  <2> HIDE DEF x
  <2>1. x.do \in {"ping_presence", "set_presence", "process_presence_timer", "unset_presence"}
    BY Zenon, <1>5, LookupFields
  <2> QED
    BY Zenon, <1>5, <2>1 DEF NextStep
<1>7. now(t).do # "serves"
  BY Zenon, <1>1
<1>8. /\ StepOf(t) /\ steps_in(work[t]) = {now(t)} \cup later(t) /\ steps_in(work'[t]) = {x} \cup later(t)
      /\ ~idle(t)' /\ now(t)' = x /\ later(t)' = later(t)
  <2> HIDE DEF x
  <2> QED
    BY Zenon, <1>1, <1>2, <1>6, <1>7, TakesOne
<1>9. \A what : next_is(t, what)' <=> x.do = what
  <2> HIDE DEF x
  <2> QED
    BY Zenon, <1>8 DEF next_is, now
<1>10. PutBeforeTimer(t)'
  <2> HIDE DEF x
  <2> QED
    BY Zenon, <1>6, <1>9 DEF PutBeforeTimer
<1>a. SetsOffline(t) => SetsOffline(t)'
  <2> SUFFICES ASSUME SetsOffline(t) PROVE SetsOffline(t)'
    OBVIOUS
  <2>1. w.do = "unset_presence" \/ (w.do = "set_presence" /\ w.state = "offline")
    BY Zenon, <1>1 DEF SetsOffline, next_is, now
  <2>2. x.do = "unset_presence" \/ (x.do = "set_presence" /\ x.state = "offline")
    <3> HIDE DEF x, w
    <3> QED
      BY Zenon, <1>5, <2>1
  <2> HIDE DEF x, w
  <2> QED
    BY Zenon, <1>6, <1>8, <1>9, <2>2 DEF SetsOffline
<1>11. ASSUME NEW u \in Chatter, NEW r \in Awake(u)
       PROVE  /\ Covers(t, u, r) => Covers(t, u, r)'
              /\ WillBeUnset(t, u, r) => WillBeUnset(t, u, r)'
  <2>1. r.id = userid_presenceid[u]
    BY Zenon, <1>2, AwakeRow
  <2>2. \A what : Looks(t, what, u) => Has(t, what, u, r.id)'
    <3>1. ASSUME NEW what, Looks(t, what, u) PROVE Has(t, what, u, r.id)'
      <4>1. w.do = what /\ w.user = u
        BY Zenon, <3>1 DEF Looks
      <4>2. x.do = what /\ x.user = u /\ x.id = r.id
        <5>1. n = userid_presenceid[u]
          BY Zenon, <4>1
        <5> HIDE DEF x, n, w
        <5> QED
          BY Zenon, <1>5, <2>1, <4>1, <5>1
      <4> HIDE DEF x, n, w
      <4> QED
        BY Zenon, <1>8, <1>9, <4>2 DEF Has
    <3> QED
      BY Zenon, <3>1
  <2>3. \A what, v, id : next_is(t, what) => what = "get_presence"
    BY Zenon, <1>1 DEF next_is, now
  <2>4. time' = time
    BY Zenon, <1>1 DEF presenceVars
  <2>5. Covers(t, u, r) => Covers(t, u, r)'
    <3>1. CASE Starts(u, r.state) \in steps_in(work[t])
      <4>1. Starts(u, r.state) # now(t)
        BY <1>1 DEF Starts
      <4>2. Starts(u, r.state) \in later(t)
        BY Zenon, <1>8, <3>1, <4>1
      <4> HIDE DEF x
      <4> QED
        BY Zenon, <1>8, <4>2 DEF Covers, Starts
    <3>2. CASE Replaces(t, u, r)
      <4>1. \/ Looks(t, "process_presence_timer", u) /\ Done(u) \in later(t) /\ time >= Until(r)
            \/ Looks(t, "set_presence", u)
        BY Zenon, <2>3, <3>2 DEF Replaces, Has, Puts
      <4>2. Until(r)' = Until(r) /\ Done(u)' = Done(u)
        BY Zenon DEF Until, Done
      <4> QED
        BY Zenon, <1>8, <2>2, <2>4, <4>1, <4>2 DEF Covers, Replaces
    <3> QED
      BY Zenon, <3>1, <3>2 DEF Covers
  <2>6. WillBeUnset(t, u, r) => WillBeUnset(t, u, r)'
    <3>1. ASSUME NEW y \in steps_in(work[t]), y \in LaterStep, y.do = "get_presence", y.what.user = u
          PROVE  WillBeUnset(t, u, r)'
      <4>1. CASE y \in later(t)
        <5> HIDE DEF x
        <5> QED
          BY Zenon, <1>8, <3>1, <4>1 DEF WillBeUnset
      <4>2. CASE y = now(t)
        <5>1. Looks(t, "unset_presence", u)
          BY Zenon, <1>1, <3>1, <4>2, LaterFields DEF Looks, next_is, now
        <5> QED
          BY Zenon, <2>2, <5>1 DEF WillBeUnset
      <4> QED
        BY Zenon, <1>8, <4>1, <4>2
    <3>2. ASSUME Looks(t, "set_presence", u) PROVE WillBeUnset(t, u, r)'
      BY Zenon, <2>2, <3>2 DEF WillBeUnset
    <3> QED
      BY Zenon, <2>3, <3>1, <3>2 DEF WillBeUnset, Has, Puts
  <2> QED
    BY Zenon, <2>5, <2>6
<1> HIDE DEF x
<1> QED
  BY Zenon, <1>1, <1>8, <1>10, <1>a, <1>11, SameData DEF WillTimeOut

\* What a task has to do later it still does after its next step.
LEMMA LaterCovers ==
    ASSUME NEW t, now(t).do \notin {"get_presence", "put_presenceid"},
           steps_in(work[t]) = {now(t)} \cup later(t), \A y \in later(t) : y \in steps_in(work'[t]),
           NEW u, NEW r
    PROVE  /\ Covers(t, u, r) => \/ Covers(t, u, r)'
                                 \/ now(t) = Starts(u, r.state)
                                 \/ Has(t, "set_presence", u, r.id)
                                 \/ Has(t, "process_presence_timer", u, r.id) /\ Done(u) \in later(t) /\ time >= Until(r)
           /\ WillBeUnset(t, u, r) => \/ WillBeUnset(t, u, r)'
                                      \/ Has(t, "unset_presence", u, r.id)
                                      \/ Has(t, "set_presence", u, r.id)
<1>1. ~next_is(t, "get_presence") /\ ~next_is(t, "put_presenceid")
  BY Zenon DEF next_is, now
<1>2. Starts(u, r.state)' = Starts(u, r.state)
  BY Zenon DEF Starts
<1>3. Covers(t, u, r) => \/ Covers(t, u, r)'
                         \/ now(t) = Starts(u, r.state)
                         \/ Has(t, "set_presence", u, r.id)
                         \/ Has(t, "process_presence_timer", u, r.id) /\ Done(u) \in later(t) /\ time >= Until(r)
  BY Zenon, <1>1, <1>2 DEF Covers, Replaces, Looks, Puts
<1>4. ASSUME NEW y \in steps_in(work[t]), y \in LaterStep, y.do = "get_presence", y.what.user = u
      PROVE  WillBeUnset(t, u, r)'
  <2>1. y # now(t)
    BY Zenon, <1>4
  <2>2. y \in steps_in(work'[t])
    BY Zenon, <2>1
  <2> QED
    BY Zenon, <1>4, <2>2 DEF WillBeUnset
<1> QED
  BY Zenon, <1>1, <1>3, <1>4 DEF WillBeUnset, Looks, Puts

\* A step that is no more than taken.
LEMMA StepsOnly ==
    ASSUME PresenceInv, NEW t \in Task, ~idle(t), steps_on(t), UNCHANGED presenceVars,
           now(t).do \notin {"get_presence", "put_presenceid", "set_presence", "start_timer", "serves"},
           \A u \in Chatter : \A r \in Awake(u) :
               /\ ~(Has(t, "process_presence_timer", u, r.id) /\ Done(u) \in later(t) /\ time >= Until(r))
               /\ ~Has(t, "unset_presence", u, r.id)
    PROVE  PresenceInv'
<1>1. PresencePlans /\ now(t).do # "serves"
  BY Zenon DEF PresenceInv
<1>2. StepOf(t) /\ steps_in(work[t]) = {now(t)} \cup later(t) /\ steps_in(work'[t]) = later(t)
  BY Zenon, <1>1, TakesNone
<1>3. PutBeforeTimer(t)' /\ SetsOffline(t)'
  BY Zenon, <1>1, <1>2, PutsNone
<1>4. \A y \in later(t) : y \in steps_in(work'[t])
  BY Zenon, <1>2
<1>5. ~next_is(t, "set_presence") /\ \A u, state : now(t) # Starts(u, state)
  BY DEF next_is, now, Starts
<1>6. ASSUME NEW u \in Chatter, NEW r \in Awake(u)
      PROVE  /\ Covers(t, u, r) => Covers(t, u, r)'
             /\ WillBeUnset(t, u, r) => WillBeUnset(t, u, r)'
  <2>1. now(t).do \notin {"get_presence", "put_presenceid"}
    BY Zenon
  <2> QED
    BY ZenonT(40), <1>2, <1>4, <1>5, <2>1, LaterCovers DEF Has
<1> QED
  BY Zenon, <1>2, <1>3, <1>6, SameData DEF WillTimeOut

\* A step that turns out to be to set a presence.
LEMMA ThenSets ==
    ASSUME PresenceInv, NEW t \in Task, ~idle(t), UNCHANGED presenceVars,
           now(t).do \in {"ping_presence", "process_presence_timer", "unset_presence"},
           NEW v \in Seen, NEW state \in PresenceState, NEW ago \in {Now} \cup Nat, NEW msg \in StatusMsg,
           goes_on(t, sets(v, state, ago, msg)),
           now(t).do = "process_presence_timer" => v = now(t).user,
           now(t).do = "unset_presence" => v = now(t).user /\ state = "offline"
    PROVE  PresenceInv'
<1> DEFINE w == [do |-> "set_presence", user |-> v, state |-> state, ago |-> ago, msg |-> msg, id |-> 0]
           x == [do |-> "get_presence", what |-> w]
<1>1. /\ sets(v, state, ago, msg) = <<x>> /\ x \in NextStep /\ x.do = "get_presence" /\ x.do # "serves"
      /\ x.what = w /\ w.do = "set_presence" /\ w.user = v /\ w.state = state
  <2>1. sets(v, state, ago, msg) = <<x>> /\ w \in Lookup
    BY Zenon, Sets
  <2>2. w.do = "set_presence" /\ w.user = v /\ w.state = state
    BY Zenon
  <2> HIDE DEF w
  <2>3. x \in NextStep /\ x.do = "get_presence" /\ x.do # "serves" /\ x.what = w
    BY Zenon, <2>1, LooksUp
  <2> QED
    BY Zenon, <2>1, <2>2, <2>3
<1> HIDE DEF w, x
<1>2. PresencePlans /\ now(t).do # "serves" /\ now(t).do \notin {"get_presence", "put_presenceid"}
  BY Zenon DEF PresenceInv
<1>3. /\ StepOf(t) /\ steps_in(work[t]) = {now(t)} \cup later(t) /\ steps_in(work'[t]) = {x} \cup later(t)
      /\ ~idle(t)' /\ now(t)' = x /\ later(t)' = later(t)
  BY Zenon, <1>1, <1>2, TakesOne
<1>4. PutBeforeTimer(t)'
  BY Zenon, <1>1, <1>3 DEF PutBeforeTimer, next_is, now
<1>a. SetsOffline(t) => SetsOffline(t)'
  <2> SUFFICES ASSUME SetsOffline(t) PROVE SetsOffline(t)'
    OBVIOUS
  <2>1. now(t).do = "unset_presence"
    BY Zenon DEF SetsOffline, next_is, now
  <2> QED
    BY Zenon, <1>1, <1>3, <2>1 DEF SetsOffline, next_is, now
<1>5. Looks(t, "set_presence", v)' /\ now(t)'.what.state = state
  BY Zenon, <1>1, <1>3 DEF Looks, next_is, now
<1>6. \A y \in later(t) : y \in steps_in(work'[t])
  BY Zenon, <1>3
<1>7. ~next_is(t, "set_presence") /\ \A u, s : now(t) # Starts(u, s)
  BY DEF next_is, now, Starts
<1>8. ASSUME NEW u \in Chatter, NEW r \in Awake(u)
      PROVE  /\ Covers(t, u, r) => Covers(t, u, r)'
             /\ WillBeUnset(t, u, r) => WillBeUnset(t, u, r)'
  <2>1. /\ Covers(t, u, r) => \/ Covers(t, u, r)'
                              \/ Has(t, "process_presence_timer", u, r.id) /\ Done(u) \in later(t)
        /\ WillBeUnset(t, u, r) => WillBeUnset(t, u, r)' \/ Has(t, "unset_presence", u, r.id)
    BY ZenonT(40), <1>2, <1>3, <1>6, <1>7, LaterCovers DEF Has
  <2>2. ASSUME Has(t, "process_presence_timer", u, r.id), Done(u) \in later(t) PROVE Covers(t, u, r)'
    <3>1. u = v
      BY Zenon, <2>2 DEF Has, next_is, now
    <3>2. (Done(u) \in later(t))'
      BY Zenon, <1>3, <2>2 DEF Done
    <3> QED
      BY Zenon, <1>5, <3>1, <3>2 DEF Covers, Replaces
  <2>3. ASSUME Has(t, "unset_presence", u, r.id) PROVE WillBeUnset(t, u, r)'
    <3>1. u = v /\ state = "offline"
      BY Zenon, <2>3 DEF Has, next_is, now
    <3> QED
      BY Zenon, <1>5, <3>1 DEF WillBeUnset
  <2> QED
    BY Zenon, <2>1, <2>2, <2>3
<1> QED
  BY Zenon, <1>3, <1>4, <1>a, <1>8, SameData DEF WillTimeOut

\* The time and the timeouts.
LEMMA Times ==
    ASSUME PresenceData
    PROVE  /\ time \in Nat /\ MaxClock \in Nat /\ time <= MaxClock
           /\ idle_timeout \in Nat /\ offline_timeout \in Nat
<1>1. MaxClock \in Nat /\ idle_timeout \in Nat /\ offline_timeout \in Nat
  BY Zenon, PresenceAssumption
<1>2. time \in 0 .. MaxClock
  BY Zenon DEF PresenceData
<1> QED
  BY <1>1, <1>2

\* The rows of the table.
LEMMA RowFields ==
    ASSUME PresenceData, NEW r \in presenceid_presence
    PROVE  /\ r.user \in Seen /\ r.id \in 1 .. presence_count /\ r.state \in PresenceState
           /\ r.status_msg \in StatusMsg /\ r.last_active_ts \in 0 .. time /\ idle_for(r) \in Nat
<1>1. /\ r.user \in Seen /\ r.id \in 1 .. presence_count /\ r.state \in PresenceState
      /\ r.status_msg \in StatusMsg /\ r.last_active_ts \in 0 .. time
  BY DEF PresenceData
<1>2. time \in Nat
  BY Zenon, Times
<1>3. idle_for(r) \in Nat
  BY <1>1, <1>2 DEF idle_for
<1> QED
  BY Zenon, <1>1, <1>3

\* ping_presence writes nothing itself.
LEMMA PingStep ==
    ASSUME PresenceInv, NEW t \in Task, ping_presence(t)
    PROVE  PresenceInv'
<1> DEFINE last == presence_of(now(t).user, now(t).id)
           msg == IF last = {} THEN "" ELSE (CHOOSE r \in last : TRUE).status_msg
<1>1. /\ ~idle(t) /\ now(t).do = "ping_presence" /\ UNCHANGED presenceVars
      /\ steps_on(t) \/ goes_on(t, sets(now(t).user, now(t).state, 0, msg))
  BY Zenon DEF ping_presence, next_is, now, steps_on
<1>2. PresenceData /\ PresencePlans
  BY Zenon DEF PresenceInv
<1>3. now(t).user \in Seen /\ now(t).state \in PresenceState
  BY Zenon, <1>1, <1>2, NowAndLater, NextFields, LookupFields
<1>4. msg \in StatusMsg
  <2>1. CASE last = {}
    BY <2>1, PresenceAssumption
  <2>2. CASE last # {}
    <3>1. (CHOOSE r \in last : TRUE) \in last
      BY Zenon, <2>2
    <3>2. (CHOOSE r \in last : TRUE) \in presenceid_presence
      BY Zenon, <3>1 DEF presence_of
    <3>3. (CHOOSE r \in last : TRUE).status_msg \in StatusMsg
      BY Zenon, <1>2, <3>2, RowFields
    <3> QED
      BY Zenon, <2>2, <3>3
  <2> QED
    BY Zenon, <2>1, <2>2
<1> HIDE DEF msg
<1>5. 0 \in {Now} \cup Nat
  OBVIOUS
<1>6. CASE steps_on(t)
  BY Zenon, <1>1, <1>6, StepsOnly DEF Has, next_is, now
<1>7. CASE goes_on(t, sets(now(t).user, now(t).state, 0, msg))
  BY Zenon, <1>1, <1>3, <1>4, <1>5, <1>7, ThenSets
<1> QED
  BY Zenon, <1>1, <1>6, <1>7

\* A presence that has lasted for its timeout changes to a state that there is.
LEMMA NewStates ==
    ASSUME PresenceData, NEW r \in presenceid_presence
    PROVE  /\ new_state(r) \subseteq PresenceState
           /\ r.state \in {"online", "unavailable"} /\ time >= Until(r) => new_state(r) # {}
<1>1. \A g \in Fades : g[2] \in PresenceState
  BY DEF Fades, PresenceState
<1>2. new_state(r) \subseteq PresenceState
  BY Zenon, <1>1 DEF new_state
<1>3. r.last_active_ts \in Nat /\ time \in Nat /\ idle_timeout \in Nat /\ offline_timeout \in Nat
  <2>1. r.last_active_ts \in 0 .. time
    BY Zenon, RowFields
  <2> QED
    BY <2>1, Times
<1>4. ASSUME r.state \in {"online", "unavailable"}, time >= Until(r)
      PROVE  \E g \in Fades : g[1] = r.state /\ idle_for(r) >= g[3]
  <2>1. CASE r.state = "online"
    <3>1. <<"online", "unavailable", idle_timeout>> \in Fades
      BY Zenon DEF Fades
    <3>2. idle_for(r) >= idle_timeout
      BY <1>3, <1>4, <2>1 DEF idle_for, Until
    <3> QED
      BY <2>1, <3>1, <3>2
  <2>2. CASE r.state = "unavailable"
    <3>1. <<"unavailable", "offline", offline_timeout>> \in Fades
      BY Zenon DEF Fades
    <3>2. idle_for(r) >= offline_timeout
      BY <1>3, <1>4, <2>2 DEF idle_for, Until
    <3> QED
      BY <2>2, <3>1, <3>2
  <2> QED
    BY Zenon, <1>4, <2>1, <2>2
<1>5. (\E g \in Fades : g[1] = r.state /\ idle_for(r) >= g[3]) => new_state(r) # {}
  BY Zenon DEF new_state
<1> QED
  BY Zenon, <1>2, <1>4, <1>5

\* process_presence_timer: a presence that is due is set, and one that is not has a timer that ends later.
LEMMA ProcessStep ==
    ASSUME PresenceInv, NEW t \in Task, process_presence_timer(t)
    PROVE  PresenceInv'
<1> DEFINE due == {r \in presence_of(now(t).user, now(t).id) : new_state(r) # {}}
<1>1. /\ ~idle(t) /\ now(t).do = "process_presence_timer" /\ UNCHANGED presenceVars
      /\ IF due = {} THEN steps_on(t)
         ELSE \E r \in due : \E s \in new_state(r) : goes_on(t, sets(r.user, s, idle_for(r), r.status_msg))
  BY Zenon DEF process_presence_timer, next_is, now
<1>2. PresenceData
  BY Zenon DEF PresenceInv
<1>3. CASE due = {}
  <2>1. ASSUME NEW u \in Chatter, NEW r \in Awake(u), Has(t, "process_presence_timer", u, r.id), time >= Until(r)
        PROVE  FALSE
    <3>1. /\ r \in presence_of(now(t).user, now(t).id) /\ r \in presenceid_presence
          /\ r.state \in {"online", "unavailable"}
      BY ZenonT(40), <1>2, <2>1, AwakeRow DEF Has, presence_of
    <3>2. new_state(r) # {}
      BY Zenon, <1>2, <2>1, <3>1, NewStates
    <3> QED
      BY Zenon, <1>3, <3>1, <3>2
  <2>2. steps_on(t) /\ \A u, id : ~Has(t, "unset_presence", u, id)
    BY Zenon, <1>1, <1>3 DEF Has, next_is, now
  <2> QED
    BY Zenon, <1>1, <2>1, <2>2, StepsOnly
<1>4. CASE due # {}
  <2>1. PICK r \in due : \E s \in new_state(r) : goes_on(t, sets(r.user, s, idle_for(r), r.status_msg))
    BY Zenon, <1>1, <1>4
  <2>2. PICK s \in new_state(r) : goes_on(t, sets(r.user, s, idle_for(r), r.status_msg))
    BY Zenon, <2>1
  <2>3. r \in presenceid_presence /\ r.user = now(t).user
    BY Zenon DEF presence_of
  <2>4. /\ r.user \in Seen /\ s \in PresenceState /\ idle_for(r) \in {Now} \cup Nat /\ r.status_msg \in StatusMsg
    BY Zenon, <1>2, <2>2, <2>3, RowFields, NewStates
  <2> QED
    BY Zenon, <1>1, <2>2, <2>3, <2>4, ThenSets
<1> QED
  BY Zenon, <1>3, <1>4

\* unset_presence sets offline whoever it finds online.
LEMMA UnsetStep ==
    ASSUME PresenceInv, NEW t \in Task, unset_presence(t)
    PROVE  PresenceInv'
<1> DEFINE awake == {r \in presence_of(now(t).user, now(t).id) : r.state \in {"unavailable", "online", "busy"}}
<1>1. /\ ~idle(t) /\ now(t).do = "unset_presence" /\ UNCHANGED presenceVars
      /\ IF awake = {} THEN steps_on(t)
         ELSE \E r \in awake : goes_on(t, sets(r.user, "offline", idle_for(r), r.status_msg))
  BY Zenon DEF unset_presence, next_is, now
<1>2. PresenceData
  BY Zenon DEF PresenceInv
<1>3. CASE awake = {}
  <2>1. ASSUME NEW u \in Chatter, NEW r \in Awake(u), Has(t, "unset_presence", u, r.id)
        PROVE  FALSE
    <3>1. /\ r \in presence_of(now(t).user, now(t).id) /\ r.state \in {"online", "unavailable"}
      BY ZenonT(40), <1>2, <2>1, AwakeRow DEF Has, presence_of
    <3> QED
      BY Zenon, <1>3, <3>1
  <2>2. steps_on(t) /\ \A u, id : ~Has(t, "process_presence_timer", u, id)
    BY Zenon, <1>1, <1>3 DEF Has, next_is, now
  <2> QED
    BY Zenon, <1>1, <2>1, <2>2, StepsOnly
<1>4. CASE awake # {}
  <2>1. PICK r \in awake : goes_on(t, sets(r.user, "offline", idle_for(r), r.status_msg))
    BY Zenon, <1>1, <1>4
  <2>2. r \in presenceid_presence /\ r.user = now(t).user
    BY Zenon DEF presence_of
  <2>3. /\ r.user \in Seen /\ "offline" \in PresenceState /\ idle_for(r) \in {Now} \cup Nat /\ r.status_msg \in StatusMsg
    BY Zenon, <1>2, <2>2, RowFields DEF PresenceState
  <2> QED
    BY Zenon, <1>1, <2>1, <2>2, <2>3, ThenSets
<1> QED
  BY Zenon, <1>3, <1>4

\* timer_done: the worker turns to its next timer.
LEMMA DoneStep ==
    ASSUME PresenceInv, NEW t \in Task, timer_done(t)
    PROVE  PresenceInv'
<1>1. ~idle(t) /\ now(t).do = "timer_done" /\ steps_on(t) /\ UNCHANGED presenceVars
  BY Zenon DEF timer_done, next_is, now
<1> QED
  BY Zenon, <1>1, StepsOnly DEF Has, next_is, now

\* remove_last removes a presence, so that nobody has to time out for it.
LEMMA RemoveStep ==
    ASSUME PresenceInv, NEW t \in Task, remove_last(t)
    PROVE  PresenceInv'
<1>1. /\ ~idle(t) /\ now(t).do = "remove_last" /\ steps_on(t)
      /\ presenceid_presence' \subseteq presenceid_presence
      /\ UNCHANGED <<time, userid_presenceid, presence_count, timers>>
  BY Zenon DEF remove_last, next_is, now
<1>2. PresenceData /\ PresencePlans
  BY Zenon DEF PresenceInv
<1>3. PresenceData'
  BY Zenon, <1>1, <1>2 DEF PresenceData
<1>4. /\ StepOf(t) /\ steps_in(work[t]) = {now(t)} \cup later(t) /\ steps_in(work'[t]) = later(t)
      /\ PutBeforeTimer(t)' /\ SetsOffline(t)'
  <2>1. now(t).do # "serves"
    BY <1>1
  <2>2. StepOf(t) /\ steps_in(work[t]) = {now(t)} \cup later(t) /\ steps_in(work'[t]) = later(t)
    BY Zenon, <1>1, <1>2, <2>1, TakesNone
  <2> QED
    BY Zenon, <1>1, <1>2, <2>2, PutsNone
<1>5. presence_count <= presence_count'
  <2>1. presence_count \in Nat
    BY Zenon, <1>2 DEF PresenceData
  <2> QED
    BY <1>1, <2>1
<1>6. ASSUME NEW u \in Chatter, NEW r \in Awake(u)
      PROVE  /\ Covers(t, u, r) => Covers(t, u, r)'
             /\ WillBeUnset(t, u, r) => WillBeUnset(t, u, r)'
  <2>1. now(t).do \notin {"get_presence", "put_presenceid"} /\ \A v, s : now(t) # Starts(v, s)
    BY <1>1 DEF Starts
  <2>2. \A what, v, id : Has(t, what, v, id) => what = "remove_last"
    BY Zenon, <1>1 DEF Has, next_is, now
  <2>3. \A y \in later(t) : y \in steps_in(work'[t])
    BY Zenon, <1>4
  <2> QED
    BY Zenon, <1>4, <2>1, <2>2, <2>3, LaterCovers
<1>7. \A r \in presenceid_presence' : r \in presenceid_presence \/ r.id > presence_count
  BY Zenon, <1>1
<1> QED
  BY Zenon, <1>1, <1>3, <1>4, <1>5, <1>6, <1>7, QuietStep DEF WillTimeOut

\* start_timer: the timer that was to be started is running, and ends late enough.
LEMMA TimerStep ==
    ASSUME PresenceInv, NEW t \in Task, start_timer(t)
    PROVE  PresenceInv'
<1> DEFINE v == now(t).user
           state == now(t).state
           at == time + (IF state = "online" THEN idle_timeout ELSE offline_timeout)
<1>1. /\ ~idle(t) /\ now(t).do = "start_timer" /\ steps_on(t)
      /\ timers' = IF v \in Chatter \/ timeout_remote_users THEN [timers EXCEPT ![v][at] = @ + 1] ELSE timers
      /\ UNCHANGED <<time, userid_presenceid, presenceid_presence, presence_count>>
  BY Zenon DEF start_timer, next_is, now
<1>2. PresenceData /\ PresencePlans
  BY Zenon DEF PresenceInv
<1>3. v \in Seen /\ now(t) = Starts(v, state)
  BY Zenon, <1>1, <1>2, NowAndLater, NextFields, LaterFields
<1>4. at \in 0 .. MaxClock + idle_timeout + offline_timeout
  BY <1>2, Times
<1>5. timers \in [Seen -> [0 .. MaxClock + idle_timeout + offline_timeout -> Nat]]
  BY Zenon, <1>2 DEF PresenceData
<1>6. /\ timers' \in [Seen -> [0 .. MaxClock + idle_timeout + offline_timeout -> Nat]]
      /\ \A u \in Seen : \A i \in 0 .. MaxClock + idle_timeout + offline_timeout :
            timers[u][i] > 0 => timers'[u][i] > 0
      /\ v \in Chatter => timers'[v][at] > 0
  <2> HIDE DEF v, at
  <2> DEFINE D == 0 .. MaxClock + idle_timeout + offline_timeout
  <2>1. timers \in [Seen -> [D -> Nat]] /\ at \in D
    BY Zenon, <1>4, <1>5
  <2> HIDE DEF D
  <2>2. /\ timers' \in [Seen -> [D -> Nat]]
        /\ \A u \in Seen : \A i \in D : timers[u][i] > 0 => timers'[u][i] > 0
        /\ v \in Chatter => timers'[v][at] > 0
    BY <1>1, <1>3, <2>1
  <2> QED
    BY Zenon, <2>2 DEF D
<1>7. PresenceData'
  BY Zenon, <1>1, <1>2, <1>6 DEF PresenceData
<1>8. /\ StepOf(t) /\ steps_in(work[t]) = {now(t)} \cup later(t) /\ steps_in(work'[t]) = later(t)
      /\ PutBeforeTimer(t)' /\ SetsOffline(t)'
  <2>1. now(t).do # "serves"
    BY <1>1
  <2>2. StepOf(t) /\ steps_in(work[t]) = {now(t)} \cup later(t) /\ steps_in(work'[t]) = later(t)
    BY Zenon, <1>1, <1>2, <2>1, TakesNone
  <2> QED
    BY Zenon, <1>1, <1>2, <2>2, PutsNone
<1>9. presence_count <= presence_count'
  <2>1. presence_count \in Nat
    BY Zenon, <1>2 DEF PresenceData
  <2> QED
    BY <1>1, <2>1
<1>10. ASSUME NEW u \in Chatter, NEW r \in Awake(u)
       PROVE  /\ Covers(t, u, r) => WillTimeOut(u, r)'
              /\ WillBeUnset(t, u, r) => WillBeUnset(t, u, r)'
  <2>1. now(t).do \notin {"get_presence", "put_presenceid"}
    BY <1>1
  <2>2. \A what, w, id : Has(t, what, w, id) => what = "start_timer"
    BY Zenon, <1>1 DEF Has, next_is, now
  <2>3. \A y \in later(t) : y \in steps_in(work'[t])
    BY Zenon, <1>8
  <2>4. /\ Covers(t, u, r) => Covers(t, u, r)' \/ now(t) = Starts(u, r.state)
        /\ WillBeUnset(t, u, r) => WillBeUnset(t, u, r)'
    BY Zenon, <1>8, <2>1, <2>2, <2>3, LaterCovers
  <2>5. ASSUME now(t) = Starts(u, r.state) PROVE WillTimeOut(u, r)'
    <3>1. v = u /\ state = r.state
      BY <2>5 DEF Starts
    <3>2. timers'[u][at] > 0 /\ at \in DOMAIN timers'[u]
      <4>1. DOMAIN timers'[u] = 0 .. MaxClock + idle_timeout + offline_timeout
        BY Zenon, <1>3, <1>6, <3>1
      <4> QED
        BY Zenon, <1>4, <1>6, <3>1, <4>1
    <3>3. at >= Until(r)
      <4>1. r.last_active_ts \in 0 .. time
        BY Zenon, <1>2, AwakeRow
      <4> QED
        BY <1>2, <3>1, <4>1, Times DEF Until
    <3> HIDE DEF at
    <3> QED
      BY Zenon, <3>2, <3>3 DEF WillTimeOut, Until
  <2> QED
    BY Zenon, <2>4, <2>5 DEF WillTimeOut
<1>11. \A u \in Chatter : \A i \in DOMAIN timers[u] :
          timers[u][i] > 0 => i \in DOMAIN timers'[u] /\ timers'[u][i] > 0
  <2>1. \A u \in Chatter : /\ u \in Seen /\ DOMAIN timers[u] = 0 .. MaxClock + idle_timeout + offline_timeout
                           /\ DOMAIN timers'[u] = 0 .. MaxClock + idle_timeout + offline_timeout
    BY Zenon, <1>5, <1>6 DEF Seen
  <2> QED
    BY Zenon, <1>6, <2>1
<1>12. \A r \in presenceid_presence' : r \in presenceid_presence \/ r.id > presence_count
  BY Zenon, <1>1
<1> QED
  BY Zenon, <1>1, <1>7, <1>8, <1>9, <1>10, <1>11, <1>12, QuietStep

-----------------------------------------------------------------------------
(* The steps that write one.                                               *)

\* The steps that write a presence: its number, the removal of the last, and the timer.
LEMMA WriteSteps ==
    ASSUME NEW x \in NextStep, NEW y \in LaterStep, NEW m \in Seq(LaterStep),
           x.do # "serves", y.do # "serves", \A e \in steps_in(m) : e.do # "serves"
    PROVE  /\ Steps(<<x>> \o m \o <<y>>) /\ <<x>> \o m \o <<y>> # <<>> /\ Head(<<x>> \o m \o <<y>>) = x
           /\ y \in steps_in(Tail(<<x>> \o m \o <<y>>))
           /\ \A e \in steps_in(<<x>> \o m \o <<y>>) : e.do # "serves"
<1>1. LaterStep \subseteq NextStep
  BY Zenon DEF NextStep
<1>a. \A b, c \in Seq(NextStep) :
        b # <<>> => b \o c # <<>> /\ Head(b \o c) = Head(b) /\ Tail(b \o c) = Tail(b) \o c
  BY Zenon, PutBefore
<1>c. \A b, c \in Seq(NextStep) : steps_in(b \o c) = steps_in(b) \cup steps_in(c)
  BY Zenon, StepsOfBoth
<1>b. \A b, c \in Seq(LaterStep) : steps_in(b \o c) = steps_in(b) \cup steps_in(c)
  BY Zenon, StepsOfBoth
<1>2. /\ <<x>> # <<>> /\ Head(<<x>>) = x /\ <<x>> \in Seq(NextStep) /\ m \in Seq(NextStep) /\ <<y>> \in Seq(NextStep)
      /\ <<y>> \in Seq(LaterStep) /\ steps_in(<<x>>) = {x} /\ steps_in(<<y>>) = {y}
  <2>1. y \in NextStep
    BY Zenon, <1>1
  <2>2. <<x>> # <<>> /\ Head(<<x>>) = x /\ steps_in(<<x>>) = {x} /\ steps_in(<<y>>) = {y}
    BY Zenon, <2>1, OneStep
  <2>3. <<x>> \in Seq(NextStep) /\ <<y>> \in Seq(LaterStep) /\ <<y>> \in Seq(NextStep)
    BY <2>1
  <2>4. m \in Seq(NextStep)
    BY <1>1
  <2> QED
    BY Zenon, <2>2, <2>3, <2>4
<1> DEFINE a == <<x>> \o m
<1>3. a # <<>> /\ Head(a) = x /\ Tail(a) = m /\ a \in Seq(NextStep) /\ steps_in(a) = {x} \cup steps_in(m)
  <2>1. a # <<>> /\ Head(a) = x /\ Tail(a) = Tail(<<x>>) \o m
    BY Zenon, <1>2, <1>a
  <2>2. Tail(<<x>>) \o m = m
    <3>1. Tail(<<x>>) = <<>>
      OBVIOUS
    <3>2. <<>> \o m = m
      OBVIOUS
    <3> QED
      BY Zenon, <3>1, <3>2
  <2>3. a \in Seq(NextStep)
    BY <1>2
  <2>4. steps_in(a) = {x} \cup steps_in(m)
    <3>1. steps_in(<<x>> \o m) = steps_in(<<x>>) \cup steps_in(m)
      BY Zenon, <1>2, <1>c
    <3> QED
      BY Zenon, <1>2, <3>1
  <2> QED
    BY Zenon, <2>1, <2>2, <2>3, <2>4
<1> HIDE DEF a
<1>4. /\ a \o <<y>> # <<>> /\ Head(a \o <<y>>) = x /\ Tail(a \o <<y>>) = m \o <<y>>
      /\ a \o <<y>> \in Seq(NextStep) /\ m \o <<y>> \in Seq(LaterStep)
      /\ steps_in(a \o <<y>>) = ({x} \cup steps_in(m)) \cup {y} /\ steps_in(m \o <<y>>) = steps_in(m) \cup {y}
  <2>1. a \o <<y>> # <<>> /\ Head(a \o <<y>>) = x /\ Tail(a \o <<y>>) = m \o <<y>>
    BY Zenon, <1>2, <1>3, <1>a
  <2>2. a \o <<y>> \in Seq(NextStep)
    BY <1>2, <1>3
  <2>3. m \o <<y>> \in Seq(LaterStep)
    BY <1>2
  <2>4. steps_in(a \o <<y>>) = steps_in(a) \cup steps_in(<<y>>)
    BY Zenon, <1>2, <1>3, <1>c
  <2>5. steps_in(m \o <<y>>) = steps_in(m) \cup steps_in(<<y>>)
    BY Zenon, <1>2, <1>b
  <2> QED
    BY Zenon, <1>2, <1>3, <2>1, <2>2, <2>3, <2>4, <2>5
<1>5. /\ Steps(a \o <<y>>) /\ y \in steps_in(Tail(a \o <<y>>))
      /\ \A e \in steps_in(a \o <<y>>) : e.do # "serves"
  BY Zenon, <1>4 DEF Steps
<1> QED
  BY Zenon, <1>4, <1>5 DEF a

\* A new row has a new number.
LEMMA NewRow ==
    ASSUME PresenceData, NEW row, UNCHANGED <<time, userid_presenceid, timers>>,
           presence_count' = presence_count + 1, presenceid_presence' = presenceid_presence \cup {row},
           row \in [user : Seen, id : {presence_count'}, state : PresenceState,
                    last_active_ts : 0 .. time, status_msg : StatusMsg]
    PROVE  /\ PresenceData' /\ presence_count <= presence_count'
           /\ \A r \in presenceid_presence' : r \in presenceid_presence \/ r.id > presence_count
           /\ \A r \in presenceid_presence' : r.id = presence_count' => r = row
           /\ presence_count' \in 1 .. presence_count'
<1>1. /\ presence_count \in Nat /\ row.id = presence_count + 1
      /\ \A r \in presenceid_presence : r.id \in 1 .. presence_count
  BY DEF PresenceData
<1>2. /\ presence_count <= presence_count' /\ presence_count' \in 1 .. presence_count' /\ presence_count' \in Nat
      /\ \A r \in presenceid_presence : r.id # presence_count'
      /\ \A r \in presenceid_presence' : r \in presenceid_presence \/ r.id > presence_count
  BY <1>1
<1>3. \A r \in presenceid_presence' : r.id = presence_count' => r = row
  BY Zenon, <1>2
<1>4. userid_presenceid' \in [Seen -> 0 .. presence_count']
  <2>1. userid_presenceid \in [Seen -> 0 .. presence_count]
    BY Zenon DEF PresenceData
  <2>2. 0 .. presence_count \subseteq 0 .. presence_count'
    BY <1>1
  <2> QED
    BY Zenon, <2>1, <2>2
<1>5. presenceid_presence' \subseteq [user : Seen, id : 1 .. presence_count', state : PresenceState,
                                      last_active_ts : 0 .. time', status_msg : StatusMsg]
  <2> DEFINE Row(ids) == [user : Seen, id : ids, state : PresenceState, last_active_ts : 0 .. time, status_msg : StatusMsg]
  <2>1. 1 .. presence_count \subseteq 1 .. presence_count' /\ {presence_count'} \subseteq 1 .. presence_count'
    BY <1>1
  <2>2. presenceid_presence \subseteq Row(1 .. presence_count) /\ row \in Row({presence_count'})
    BY Zenon DEF PresenceData
  <2>3. \A A, B : A \subseteq B => Row(A) \subseteq Row(B)
    BY Zenon
  <2> HIDE DEF Row
  <2>4. Row(1 .. presence_count) \subseteq Row(1 .. presence_count') /\ Row({presence_count'}) \subseteq Row(1 .. presence_count')
    BY Zenon, <2>1, <2>3
  <2>5. presenceid_presence' \subseteq Row(1 .. presence_count')
    BY Zenon, <2>2, <2>4
  <2> QED
    BY Zenon, <2>5 DEF Row
<1>6. \A r, s \in presenceid_presence' : r.id = s.id => r = s
  <2>1. \A r, s \in presenceid_presence : r.id = s.id => r = s
    BY Zenon DEF PresenceData
  <2>2. row.id = presence_count'
    BY <1>1
  <2> QED
    BY Zenon, <1>2, <2>1, <2>2
<1>7. time' \in 0 .. MaxClock /\ timers' \in [Seen -> [0 .. MaxClock + idle_timeout + offline_timeout -> Nat]]
  BY Zenon DEF PresenceData
<1> QED
  BY Zenon, <1>2, <1>3, <1>4, <1>5, <1>6, <1>7 DEF PresenceData

\* A task that is to set the presence of a user: what else it covers.
LEMMA SettingCovers ==
    ASSUME NEW t, ~idle(t), now(t).do = "set_presence",
           steps_in(work[t]) = {now(t)} \cup later(t), \A y \in later(t) : y \in steps_in(work'[t]),
           NEW u, NEW r
    PROVE  /\ Covers(t, u, r) => Covers(t, u, r)' \/ Has(t, "set_presence", u, r.id)
           /\ WillBeUnset(t, u, r) => WillBeUnset(t, u, r)' \/ Has(t, "set_presence", u, r.id)
<1>1. /\ now(t).do \notin {"get_presence", "put_presenceid"} /\ now(t) # Starts(u, r.state)
      /\ ~Has(t, "process_presence_timer", u, r.id) /\ ~Has(t, "unset_presence", u, r.id)
  BY DEF Starts, Has, next_is, now
<1> QED
  BY Zenon, <1>1, LaterCovers

\* Nothing is written, since what would be is older than what there is.
LEMMA SpamStep ==
    ASSUME PresenceInv, NEW t \in Task, ~idle(t), now(t).do = "set_presence", UNCHANGED presenceVars,
           NEW v \in Seen, NEW state \in PresenceState, v = now(t).user, state = now(t).state,
           goes_on(t, <<Starts(v, state)>>), NEW q \in presence_of(v, now(t).id), q.state = state
    PROVE  PresenceInv'
<1> DEFINE y == Starts(v, state)
<1>1. y \in NextStep /\ y.do = "start_timer" /\ y.do # "serves" /\ now(t).do # "serves"
  <2>1. y \in LaterStep
    BY Zenon DEF LaterStep, Starts
  <2>2. y.do = "start_timer" /\ y.do # "serves" /\ now(t).do # "serves"
    BY DEF Starts
  <2> QED
    BY Zenon, <2>1, <2>2 DEF NextStep
<1>2. PresenceData /\ PresencePlans
  BY Zenon DEF PresenceInv
<1>3. /\ StepOf(t) /\ steps_in(work[t]) = {now(t)} \cup later(t) /\ steps_in(work'[t]) = {y} \cup later(t)
      /\ ~idle(t)' /\ now(t)' = y /\ later(t)' = later(t)
  <2> HIDE DEF y
  <2>1. goes_on(t, <<y>>)
    BY Zenon DEF y
  <2> QED
    BY Zenon, <1>1, <1>2, <2>1, TakesOne
<1>4. PutBeforeTimer(t)' /\ SetsOffline(t)'
  <2> HIDE DEF y
  <2>1. \A what : next_is(t, what)' => what = "start_timer"
    BY Zenon, <1>1, <1>3 DEF next_is, now
  <2> QED
    BY Zenon, <2>1 DEF PutBeforeTimer, SetsOffline
<1>5. \A e \in later(t) : e \in steps_in(work'[t])
  <2> HIDE DEF y
  <2> QED
    BY Zenon, <1>3
<1>6. ASSUME NEW u \in Chatter, NEW r \in Awake(u), Has(t, "set_presence", u, r.id)
      PROVE  Covers(t, u, r)' /\ ~SetsOffline(t)
  <2>1. u = v /\ r.id = now(t).id
    BY Zenon, <1>6 DEF Has
  <2>2. q = r /\ r.state \in {"online", "unavailable"}
    <3>1. r.state \in {"online", "unavailable"} /\ \A s \in presence_of(u, r.id) : s = r
      BY Zenon, <1>2, AwakeRow
    <3> QED
      BY Zenon, <2>1, <3>1
  <2>3. (Starts(u, r.state) \in steps_in(work[t]))'
    <3>1. y \in steps_in(work'[t])
      BY Zenon, <1>3
    <3> QED
      BY Zenon, <2>1, <2>2, <3>1 DEF Starts
  <2>4. state # "offline"
    BY <2>2
  <2> QED
    BY Zenon, <2>3, <2>4 DEF Covers, SetsOffline, next_is, now
<1>7. ASSUME NEW u \in Chatter, NEW r \in Awake(u)
      PROVE  /\ Covers(t, u, r) => Covers(t, u, r)'
             /\ SetsOffline(t) /\ WillBeUnset(t, u, r) => WillBeUnset(t, u, r)'
  BY Zenon, <1>3, <1>5, <1>6, SettingCovers
<1> QED
  BY Zenon, <1>3, <1>4, <1>7, SameData DEF WillTimeOut

\* A row is written, with a new number that is put next.
LEMMA WriteStep ==
    ASSUME PresenceInv, NEW t \in Task, ~idle(t), now(t).do = "set_presence",
           UNCHANGED <<time, userid_presenceid, timers>>,
           presence_count' = presence_count + 1,
           NEW row, row \in [user : Seen, id : {presence_count'}, state : PresenceState,
                             last_active_ts : 0 .. time, status_msg : StatusMsg],
           row.state = now(t).state, presenceid_presence' = presenceid_presence \cup {row},
           NEW p, Steps(p), p # <<>>, Head(p).do = "put_presenceid", Head(p).user = now(t).user,
           Head(p).id = presence_count', Starts(now(t).user, now(t).state) \in steps_in(Tail(p)),
           \A e \in steps_in(p) : e.do # "serves", goes_on(t, p)
    PROVE  PresenceInv'
<1>0. PICK v, state, n, x : v = now(t).user /\ state = now(t).state /\ n = presence_count' /\ x = Head(p)
  BY Zenon
<1>1. PresenceData /\ PresencePlans /\ now(t).do # "serves"
  BY Zenon DEF PresenceInv
<1>2. /\ PresenceData' /\ presence_count <= presence_count'
      /\ \A r \in presenceid_presence' : r \in presenceid_presence \/ r.id > presence_count
      /\ \A r \in presenceid_presence' : r.id = presence_count' => r = row
      /\ presence_count' \in 1 .. presence_count'
  BY Zenon, <1>1, NewRow
<1>3. \A r \in presenceid_presence' : r.id = n => r = row
  BY Zenon, <1>0, <1>2
<1>4. /\ StepOf(t) /\ steps_in(work[t]) = {now(t)} \cup later(t) /\ steps_in(work'[t]) = steps_in(p) \cup later(t)
      /\ ~idle(t)' /\ now(t)' = x /\ later(t)' = steps_in(Tail(p)) \cup later(t)
  BY Zenon, <1>0, <1>1, GoesOn
<1>5. next_is(t, "put_presenceid")' /\ \A what : next_is(t, what)' => what = "put_presenceid"
  BY Zenon, <1>0, <1>4 DEF next_is, now
<1>6. \A r \in presence_of(now(t).user, now(t).id)' : r.state = state
  BY ZenonT(40), <1>0, <1>3, <1>4 DEF presence_of
<1>7. PutBeforeTimer(t)'
  <2>1. Starts(v, state) \in later(t)'
    BY Zenon, <1>0, <1>4
  <2>2. \A r \in presence_of(now(t).user, now(t).id)' : (Starts(now(t).user, r.state) \in later(t))'
    BY Zenon, <1>0, <1>4, <1>6, <2>1 DEF Starts
  <2>3. (now(t).id \in 1 .. presence_count)'
    BY Zenon, <1>0, <1>2, <1>4
  <2>4. state \in PresenceState
    <3>1. row.state \in PresenceState
      OBVIOUS
    <3> QED
      BY Zenon, <1>0, <3>1
  <2>5. (\E e \in PresenceState : Starts(now(t).user, e) \in later(t))'
    BY Zenon, <1>0, <1>4, <2>1, <2>4 DEF Starts
  <2> QED
    BY Zenon, <2>2, <2>3, <2>5 DEF PutBeforeTimer
<1>8. SetsOffline(t) => SetsOffline(t)'
  <2> SUFFICES ASSUME SetsOffline(t) PROVE SetsOffline(t)'
    BY Zenon
  <2>1. state = "offline"
    BY Zenon, <1>0 DEF SetsOffline, next_is, now
  <2>2. \A r \in presence_of(now(t).user, now(t).id)' : r.state = "offline"
    BY Zenon, <1>6, <2>1
  <2> QED
    BY Zenon, <1>5, <2>2 DEF SetsOffline
<1>9. \A e \in later(t) : e \in steps_in(work'[t])
  BY Zenon, <1>4
<1>10. ASSUME NEW u \in Chatter, NEW r \in Awake(u), Has(t, "set_presence", u, r.id) PROVE Puts(t, u)'
  <2>1. u = v
    BY Zenon, <1>0, <1>10 DEF Has
  <2> QED
    BY Zenon, <1>0, <1>4, <1>5, <2>1 DEF Puts
<1>11. ASSUME NEW u \in Chatter, NEW r \in Awake(u)
       PROVE  /\ Covers(t, u, r) => Covers(t, u, r)'
              /\ WillBeUnset(t, u, r) => WillBeUnset(t, u, r)'
  <2>1. Puts(t, u)' => Covers(t, u, r)' /\ WillBeUnset(t, u, r)'
    BY Zenon DEF Covers, Replaces, WillBeUnset
  <2> QED
    BY Zenon, <1>4, <1>9, <1>10, <2>1, SettingCovers
<1>12. \A u \in Chatter : \A at \in DOMAIN timers[u] :
           timers[u][at] > 0 => at \in DOMAIN timers'[u] /\ timers'[u][at] > 0
  BY Zenon
<1> QED
  BY Zenon, <1>2, <1>4, <1>7, <1>8, <1>11, <1>12, QuietStep DEF WillTimeOut

\* set_presence, whether or not it writes a row.
LEMMA SetStep ==
    ASSUME PresenceInv, NEW t \in Task, set_presence(t)
    PROVE  PresenceInv'
<1>1. PresenceData /\ PresencePlans
  BY Zenon DEF PresenceInv
<1>2. ~idle(t) /\ now(t).do = "set_presence" /\ UNCHANGED <<time, userid_presenceid, timers, outages>>
  BY Zenon DEF set_presence, next_is, now
<1>3. /\ now(t).user \in Seen /\ now(t).state \in PresenceState /\ now(t).ago \in {Now} \cup Nat
      /\ now(t).msg \in StatusMsg /\ now(t).id \in Nat
  BY Zenon, <1>1, <1>2, NowAndLater, NextFields, LookupFields
<1>4. PICK new, v, state, id, n :
        new = now(t) /\ v = new.user /\ state = new.state /\ id = new.id /\ n = presence_count'
  BY Zenon
<1> DEFINE last == presence_of(v, id)
           same == {r \in last : r.state = state}
           ts == IF new.ago = Now THEN time ELSE IF new.ago > time THEN 0 ELSE time - new.ago
           spam == \E r \in same : r.status_msg = new.msg /\ ts < r.last_active_ts
           y == Starts(v, state)
           x == [do |-> "put_presenceid", user |-> v, id |-> n]
           z == [do |-> "remove_last", user |-> v, id |-> id]
           row == [user |-> v, id |-> n, state |-> state, last_active_ts |-> ts, status_msg |-> new.msg]
           m == IF last = {} THEN <<>> ELSE <<z>>
           p == <<x>> \o m \o <<y>>
<1>5. /\ spam => goes_on(t, <<y>>) /\ UNCHANGED <<presence_count, presenceid_presence>>
      /\ ~spam => /\ n = presence_count + 1 /\ goes_on(t, p)
                  /\ presenceid_presence' = presenceid_presence \cup {row}
  BY Zenon, <1>4 DEF set_presence, Starts
<1>6. v \in Seen /\ state \in PresenceState /\ v = now(t).user /\ state = now(t).state /\ id = now(t).id /\ id \in Nat
  BY Zenon, <1>3, <1>4
<1>7. ts \in 0 .. time /\ new.msg \in StatusMsg
  <2>1. new.ago \in {Now} \cup Nat /\ new.msg \in StatusMsg
    BY Zenon, <1>3, <1>4
  <2> QED
    BY <1>1, <2>1, Times DEF Now
<1>8. CASE spam
  <2>1. PICK q \in same : TRUE
    BY Zenon, <1>8
  <2>2. q \in presence_of(v, now(t).id) /\ q.state = state
    BY Zenon, <1>6
  <2>3. goes_on(t, <<Starts(v, state)>>) /\ UNCHANGED presenceVars
    BY Zenon, <1>2, <1>5, <1>8 DEF presenceVars
  <2> QED
    BY Zenon, <1>2, <1>6, <2>2, <2>3, SpamStep
<1>9. CASE ~spam
  <2>1. n = presence_count + 1 /\ goes_on(t, p) /\ presenceid_presence' = presenceid_presence \cup {row}
    BY Zenon, <1>5, <1>9
  <2>2. n \in Nat
    BY SMTT(20), <1>1, <2>1 DEF PresenceData
  <2>3. row \in [user : Seen, id : {n}, state : PresenceState, last_active_ts : 0 .. time, status_msg : StatusMsg]
    <3> HIDE DEF ts
    <3> QED
      BY Zenon, <1>6, <1>7
  <2>4. row.state = state
    BY Zenon
  <2>5. x \in NextStep /\ x.do = "put_presenceid" /\ x.do # "serves" /\ x.user = v /\ x.id = n
    <3>1. x \in NextStep
      BY Zenon, <1>6, <2>2 DEF NextStep
    <3> QED
      BY <3>1
  <2>6. y \in LaterStep /\ y.do # "serves" /\ z \in LaterStep /\ z.do # "serves"
    <3>1. y \in LaterStep /\ z \in LaterStep
      BY Zenon, <1>6 DEF LaterStep, Starts
    <3>2. y.do # "serves" /\ z.do # "serves"
      BY DEF Starts
    <3> QED
      BY Zenon, <3>1, <3>2
  <2>7. /\ Steps(p) /\ p # <<>> /\ Head(p) = x /\ y \in steps_in(Tail(p))
        /\ \A e \in steps_in(p) : e.do # "serves"
    <3>1. m \in Seq(LaterStep) /\ \A e \in steps_in(m) : e.do # "serves"
      <4> HIDE DEF z, last
      <4>1. z \in NextStep
        BY Zenon, <2>6 DEF NextStep
      <4>2. <<>> \in Seq(LaterStep) /\ <<z>> \in Seq(LaterStep) /\ DOMAIN <<>> = {}
        BY <2>6
      <4>3. steps_in(<<>>) = {}
        BY Zenon, <4>2 DEF steps_in
      <4>4. steps_in(<<z>>) = {z}
        BY Zenon, <4>1, OneStep
      <4> QED
        BY Zenon, <2>6, <4>2, <4>3, <4>4
    <3> HIDE DEF m, x, y
    <3> QED
      BY Zenon, <2>5, <2>6, <3>1, WriteSteps
  <2>8. presence_count' = n /\ UNCHANGED <<time, userid_presenceid, timers>>
    BY Zenon, <1>2, <1>4
  <2>9. Starts(now(t).user, now(t).state) \in steps_in(Tail(p))
    BY Zenon, <1>6, <2>7
  <2>10. /\ Head(p).do = "put_presenceid" /\ Head(p).user = now(t).user /\ Head(p).id = presence_count'
         /\ row.state = now(t).state /\ presence_count' = presence_count + 1
         /\ row \in [user : Seen, id : {presence_count'}, state : PresenceState,
                     last_active_ts : 0 .. time, status_msg : StatusMsg]
    <3> HIDE DEF x, row, p
    <3> QED
      BY Zenon, <1>6, <2>1, <2>3, <2>4, <2>5, <2>7, <2>8
  <2> HIDE DEF x, y, row, p
  <2> QED
    BY Zenon, <1>2, <2>1, <2>7, <2>8, <2>9, <2>10, WriteStep
<1> QED
  BY Zenon, <1>8, <1>9

\* The number of a presence is put. From now on it is the one shown, and its timer is started next.
LEMMA PutStep ==
    ASSUME PresenceInv, NEW t \in Task, put_presenceid(t)
    PROVE  PresenceInv'
<1> DEFINE v == now(t).user
           id == now(t).id
<1>1. /\ ~idle(t) /\ now(t).do = "put_presenceid" /\ next_is(t, "put_presenceid") /\ steps_on(t)
      /\ userid_presenceid' = [userid_presenceid EXCEPT ![v] = id]
      /\ UNCHANGED <<time, presenceid_presence, presence_count, timers>>
  BY Zenon DEF put_presenceid, next_is, now
<1>2. PresenceData /\ PresencePlans /\ \A s \in Task : PutBeforeTimer(s)
  BY Zenon DEF PresenceInv
<1>3. /\ v \in Seen /\ id \in 1 .. presence_count /\ id \in 0 .. presence_count
      /\ \A r \in presence_of(v, id) : Starts(v, r.state) \in later(t)
  <2>1. v \in Seen
    BY Zenon, <1>1, <1>2, NowAndLater, NextFields
  <2>2. /\ id \in 1 .. presence_count
        /\ \A r \in presence_of(v, id) : Starts(v, r.state) \in later(t)
    BY Zenon, <1>1, <1>2 DEF PutBeforeTimer
  <2> HIDE DEF id
  <2>3. id \in 0 .. presence_count
    BY <1>2, <2>2 DEF PresenceData
  <2> QED
    BY Zenon, <2>1, <2>2, <2>3
<1> HIDE DEF v, id
<1>4. /\ userid_presenceid' \in [Seen -> 0 .. presence_count] /\ userid_presenceid'[v] = id
      /\ \A u \in Seen : u # v => userid_presenceid'[u] = userid_presenceid[u]
  <2>1. userid_presenceid \in [Seen -> 0 .. presence_count]
    BY Zenon, <1>2 DEF PresenceData
  <2> QED
    BY Zenon, <1>1, <1>3, <2>1
<1>5. PresenceData'
  BY Zenon, <1>1, <1>2, <1>4 DEF PresenceData
<1>6. /\ StepOf(t) /\ steps_in(work[t]) = {now(t)} \cup later(t) /\ steps_in(work'[t]) = later(t)
      /\ PutBeforeTimer(t)' /\ SetsOffline(t)'
  <2>1. now(t).do # "serves"
    BY <1>1
  <2>2. StepOf(t) /\ steps_in(work[t]) = {now(t)} \cup later(t) /\ steps_in(work'[t]) = later(t)
    BY Zenon, <1>1, <1>2, <2>1, TakesNone
  <2> QED
    BY Zenon, <1>1, <1>2, <2>2, PutsNone
<1>7. PresencePlans'
  BY Zenon, <1>6 DEF StepOf, PresencePlans
<1>8. ASSUME NEW s \in Task PROVE PutBeforeTimer(s)'
  <2>1. CASE s = t
    BY Zenon, <1>6, <2>1
  <2>2. CASE s # t
    <3>1. work'[s] = work[s] /\ PutBeforeTimer(s)
      BY Zenon, <1>2, <1>6, <2>2 DEF StepOf
    <3> QED
      BY Zenon, <1>1, <3>1 DEF PutBeforeTimer, next_is, idle, now, later, Starts, presence_of
  <2> QED
    BY Zenon, <2>1, <2>2
<1>9. ASSUME NEW u \in Chatter, NEW r \in Awake(u)'
      PROVE  /\ u # v => r \in Awake(u)
             /\ u = v => r \in presence_of(v, id) /\ r.state \in {"online", "unavailable"}
  <2>1. /\ r \in presenceid_presence /\ r.user = u /\ r.id = userid_presenceid'[u]
        /\ r.state \in {"online", "unavailable"} /\ u \in Seen
    BY Zenon, <1>1 DEF Awake, present, presence_of, Seen
  <2> QED
    BY Zenon, <1>4, <2>1 DEF Awake, present, presence_of
<1>10. ASSUME NEW u \in Chatter, NEW r, u # v
       PROVE  /\ Covers(t, u, r) => Covers(t, u, r)'
              /\ WillBeUnset(t, u, r) => WillBeUnset(t, u, r)'
  <2>1. ~Puts(t, u) /\ \A what, w, i : ~Has(t, what, w, i) \/ what = "put_presenceid"
    BY Zenon, <1>1, <1>10 DEF Puts, Has, next_is, now, v
  <2>2. \A what, w : ~Looks(t, what, w)
    BY Zenon, <1>1 DEF Looks, next_is, now
  <2>3. ASSUME Starts(u, r.state) \in steps_in(work[t]) PROVE Covers(t, u, r)'
    <3>1. Starts(u, r.state) # now(t)
      BY <1>1 DEF Starts
    <3> QED
      BY Zenon, <1>6, <2>3, <3>1 DEF Covers, Starts
  <2>4. ASSUME NEW y \in steps_in(work[t]), y \in LaterStep, y.do = "get_presence", y.what.user = u
        PROVE  WillBeUnset(t, u, r)'
    <3>1. y # now(t)
      BY <1>1, <2>4
    <3> QED
      BY Zenon, <1>6, <2>4, <3>1 DEF WillBeUnset
  <2> QED
    BY Zenon, <2>1, <2>2, <2>3, <2>4 DEF Covers, Replaces, WillBeUnset
<1>11. ASSUME serving', NEW u \in Chatter, NEW r \in Awake(u)' PROVE WillTimeOut(u, r)'
  <2>1. CASE u = v
    <3>1. Starts(v, r.state) \in later(t)
      BY Zenon, <1>3, <1>9, <2>1
    <3> QED
      BY Zenon, <1>6, <2>1, <3>1 DEF WillTimeOut, Covers, Starts
  <2>2. CASE u # v
    <3>1. WillTimeOut(u, r)
      BY Zenon, <1>6, <1>9, <1>11, <2>2 DEF StepOf, PresenceInv
    <3>2. ASSUME NEW s \in Task, Covers(s, u, r) PROVE Covers(s, u, r)'
      <4>1. CASE s = t
        BY Zenon, <1>10, <2>2, <3>2, <4>1
      <4>2. CASE s # t
        <5>1. work'[s] = work[s] /\ time' = time
          BY Zenon, <1>1, <1>6, <4>2 DEF StepOf
        <5> QED
          BY Zenon, <3>2, <5>1, OthersCover
      <4> QED
        BY Zenon, <4>1, <4>2
    <3> QED
      BY Zenon, <1>1, <3>1, <3>2 DEF WillTimeOut, Until
  <2> QED
    BY Zenon, <2>1, <2>2
<1>12. ASSUME ~serving'
       PROVE  \E s \in Task : /\ SetsOffline(s)' /\ \A q \in Task \ {s} : idle(q)'
                             /\ \A u \in Chatter : \A r \in Awake(u)' : WillBeUnset(s, u, r)'
  <2>1. ~serving
    BY Zenon, <1>6, <1>12 DEF StepOf
  <2>2. PICK s \in Task : /\ SetsOffline(s) /\ \A q \in Task \ {s} : idle(q)
                          /\ \A u \in Chatter : \A r \in Awake(u) : WillBeUnset(s, u, r)
    BY Zenon, <2>1 DEF PresenceInv
  <2>3. s = t
    BY Zenon, <1>1, <2>2
  <2>4. \A q \in Task \ {t} : idle(q)'
    BY Zenon, <1>6, <2>2, <2>3 DEF StepOf, idle
  <2>5. ASSUME NEW u \in Chatter, NEW r \in Awake(u)' PROVE WillBeUnset(t, u, r)'
    <3>1. CASE u = v
      <4>1. r.state = "offline"
        BY Zenon, <1>1, <1>9, <2>2, <2>3, <3>1 DEF SetsOffline, v, id
      <4> QED
        BY <1>9, <3>1, <4>1
    <3>2. CASE u # v
      BY Zenon, <1>9, <1>10, <2>2, <2>3, <3>2
    <3> QED
      BY Zenon, <3>1, <3>2
  <2> QED
    BY Zenon, <1>6, <2>4, <2>5
<1> QED
  BY Zenon, <1>5, <1>7, <1>8, <1>11, <1>12 DEF PresenceInv

-----------------------------------------------------------------------------
(* What begins: requests, and the end of a timer.                          *)

\* An idle task does nothing for anyone.
LEMMA IdleDoesNothing ==
    ASSUME NEW t, idle(t), NEW u, NEW r
    PROVE  ~Covers(t, u, r)
<1>1. DOMAIN <<>> = {}
  OBVIOUS
<1>2. steps_in(work[t]) = {}
  BY Zenon, <1>1 DEF idle, steps_in
<1> QED
  BY Zenon, <1>2 DEF Covers, Replaces, Looks, Has, Puts, next_is

\* An idle task takes steps on.
LEMMA TakesOn ==
    ASSUME PresencePlans, serving, NEW t \in Task, NEW p, p # <<>>, Steps(p), \A x \in steps_in(p) : x.do # "serves",
           work' = [work EXCEPT ![t] = p]
    PROVE  StepOf(t) /\ work'[t] = p
<1>1. /\ DOMAIN work = Task /\ \A s \in Task : PresencePlan(work[s])
  BY Zenon DEF PresencePlans
<1>2. /\ DOMAIN work' = Task /\ \A s \in Task \ {t} : work'[s] = work[s]
      /\ work'[t] = p
  BY Zenon, <1>1
<1>3. PresencePlan(p)
  <2>1. p \in Seq(NextStep) /\ Tail(p) \in Seq(LaterStep)
    BY Zenon DEF Steps
  <2>2. \A i \in DOMAIN p : p[i].do # "serves"
    BY Zenon DEF steps_in
  <2> QED
    BY Zenon, <2>1, <2>2 DEF PresencePlan
<1>4. \A s \in Task : PresencePlan(work'[s])
  BY Zenon, <1>1, <1>2, <1>3
<1>5. \A s \in Task : \A x \in steps_in(work[s]) : x.do # "serves"
  <2>1. \A s \in Task : work[s] \in Seq(NextStep)
    BY Zenon, <1>1 DEF PresencePlan
  <2> QED
    BY Zenon, <2>1, WhenServing
<1>6. serving'
  <2>1. \A s \in Task : work'[s] \in Seq(NextStep)
    BY Zenon, <1>4 DEF PresencePlan
  <2>2. \A s \in Task : DOMAIN work'[s] = 1 .. Len(work'[s])
    BY <2>1
  <2>3. ASSUME NEW s \in Task, NEW i \in DOMAIN work'[s] PROVE work'[s][i].do # "serves"
    <3>1. CASE s = t
      BY Zenon, <1>2, <2>3, <3>1 DEF steps_in
    <3>2. CASE s # t
      <4>1. work'[s] = work[s]
        BY Zenon, <1>2, <3>2
      <4> QED
        BY Zenon, <1>5, <2>3, <4>1 DEF steps_in
    <3> QED
      BY Zenon, <3>1, <3>2
  <2>4. pending({"serves"})' <=> \E s \in Task : \E i \in DOMAIN work'[s] : work'[s][i].do = "serves"
    BY Zenon, <2>2 DEF pending
  <2> QED
    BY Zenon, <2>3, <2>4 DEF serving
<1> QED
  BY Zenon, <1>2, <1>4, <1>6 DEF StepOf

\* A request that begins by looking a presence up.
LEMMA RequestBegins ==
    ASSUME PresenceInv, serving, NEW t \in Task, NEW w \in Lookup, begins(t, looks_up(w)), UNCHANGED presenceVars
    PROVE  PresenceInv'
<1> DEFINE x == [do |-> "get_presence", what |-> w]
<1>1. looks_up(w) = <<x>> /\ x \in NextStep /\ x.do # "serves"
  BY Zenon, LooksUp
<1>2. x.do # "put_presenceid"
  OBVIOUS
<1> HIDE DEF x
<1>3. /\ <<x>> # <<>> /\ Head(<<x>>) = x /\ Steps(<<x>>) /\ steps_in(<<x>>) = {x}
  BY Zenon, <1>1, OneStep
<1>4. idle(t) /\ work' = [work EXCEPT ![t] = <<x>>] /\ PresencePlans
  BY Zenon, <1>1 DEF begins, PresenceInv
<1>5. StepOf(t) /\ work'[t] = <<x>>
  <2>1. \A y \in steps_in(<<x>>) : y.do # "serves"
    BY Zenon, <1>1, <1>3
  <2> QED
    BY Zenon, <1>3, <1>4, <2>1, TakesOn
<1>6. PutBeforeTimer(t)'
  BY Zenon, <1>2, <1>3, <1>5 DEF PutBeforeTimer, next_is
<1>7. \A u \in Chatter : \A r \in Awake(u) : ~Covers(t, u, r)
  BY Zenon, <1>4, IdleDoesNothing
<1> QED
  BY Zenon, <1>4, <1>5, <1>6, <1>7, SameData

\* The requests that look a presence up: of clients, and of another server.
LEMMA RouteSteps ==
    ASSUME PresenceInv, NEW t \in Task, NEW u \in Seen,
           set_presence_route(t, u) \/ sync_pings(t, u) \/ handle_edu_presence(t, u)
    PROVE  PresenceInv'
<1>1. 0 \in Nat /\ 1 \in Nat /\ \A ago \in 0 .. 1 : ago \in Nat
  OBVIOUS
<1>2. CASE set_presence_route(t, u)
  <2>1. PICK state \in PresenceState, msg \in StatusMsg : begins(t, sets(u, state, Now, msg))
    BY Zenon, <1>2 DEF set_presence_route
  <2>2. [do |-> "set_presence", user |-> u, state |-> state, ago |-> Now, msg |-> msg, id |-> 0] \in Lookup
    BY Zenon, Sets
  <2> QED
    BY Zenon, <1>2, <2>1, <2>2, RequestBegins DEF set_presence_route, sets
<1>3. CASE sync_pings(t, u)
  <2>1. PICK state \in {"online", "unavailable", "offline"} : begins(t, pings(u, state))
    BY Zenon, <1>3 DEF sync_pings
  <2>2. [do |-> "ping_presence", user |-> u, state |-> state, id |-> 0] \in Lookup
    BY Zenon, <1>1 DEF Lookup, PresenceState
  <2> QED
    BY Zenon, <1>3, <2>1, <2>2, RequestBegins DEF sync_pings, pings
<1>4. CASE handle_edu_presence(t, u)
  <2>1. PICK state \in {"online", "unavailable"}, ago \in 0 .. 1 : begins(t, sets(u, state, ago, ""))
    BY Zenon, <1>4 DEF handle_edu_presence
  <2>2. "" \in StatusMsg /\ ago \in {Now} \cup Nat /\ state \in PresenceState
    BY Zenon, <1>1, PresenceAssumption DEF PresenceState
  <2>3. [do |-> "set_presence", user |-> u, state |-> state, ago |-> ago, msg |-> "", id |-> 0] \in Lookup
    BY Zenon, <2>2, Sets
  <2> QED
    BY Zenon, <1>4, <2>1, <2>3, RequestBegins DEF handle_edu_presence, sets
<1> QED
  BY Zenon, <1>2, <1>3, <1>4

\* Two steps, the second of which looks nothing up.
LEMMA TwoSteps ==
    ASSUME NEW x \in NextStep, NEW y \in LaterStep
    PROVE  /\ <<x>> \o <<y>> # <<>> /\ Head(<<x>> \o <<y>>) = x
           /\ Steps(<<x>> \o <<y>>) /\ steps_in(<<x>> \o <<y>>) = {x, y}
           /\ steps_in(Tail(<<x>> \o <<y>>)) = {y}
<1>1. y \in NextStep
  BY Zenon DEF NextStep
<1>2. <<x>> \in Seq(NextStep) /\ <<y>> \in Seq(NextStep) /\ <<y>> \in Seq(LaterStep)
  BY <1>1
<1>3. <<x>> # <<>> /\ Head(<<x>>) = x /\ Tail(<<x>>) = <<>>
  OBVIOUS
<1>4. /\ <<x>> \o <<y>> # <<>> /\ Head(<<x>> \o <<y>>) = x /\ Tail(<<x>> \o <<y>>) = <<>> \o <<y>>
  BY ZenonT(40), <1>2, <1>3, PutBefore
<1>5. <<>> \o <<y>> = <<y>>
  OBVIOUS
<1>6. steps_in(<<x>>) = {x} /\ steps_in(<<y>>) = {y}
  BY Zenon, <1>1, OneStep
<1>7. steps_in(<<x>> \o <<y>>) = {x} \cup {y}
  <2>1. \A a, b \in Seq(NextStep) : steps_in(a \o b) = steps_in(a) \cup steps_in(b)
    BY Zenon, StepsOfBoth
  <2> DEFINE a == <<x>>
             b == <<y>>
  <2>2. a \in Seq(NextStep) /\ b \in Seq(NextStep) /\ steps_in(a) = {x} /\ steps_in(b) = {y}
    BY Zenon, <1>2, <1>6
  <2> HIDE DEF a, b
  <2>3. steps_in(a \o b) = steps_in(a) \cup steps_in(b)
    BY Zenon, <2>1, <2>2
  <2>4. steps_in(a \o b) = {x} \cup {y}
    BY <2>2, <2>3
  <2> QED
    BY Zenon, <2>4 DEF a, b
<1>8. <<x>> \o <<y>> \in Seq(NextStep)
  BY <1>2
<1> QED
  BY Zenon, <1>2, <1>4, <1>5, <1>6, <1>7, <1>8 DEF Steps

\* A timer ends. If the presence shown is due by then, the worker will find that.
LEMMA TimerEnds ==
    ASSUME PresenceInv, NEW t \in Task, NEW v \in Seen, timer_ends(t, v)
    PROVE  PresenceInv'
<1> DEFINE w == [do |-> "process_presence_timer", user |-> v, id |-> 0]
           x == [do |-> "get_presence", what |-> w]
           D == 0 .. MaxClock + idle_timeout + offline_timeout
<1>1. /\ idle(t) /\ ~pending({"timer_done", "serves"})
      /\ work' = [work EXCEPT ![t] = looks_up(w) \o <<Done(v)>>]
      /\ UNCHANGED <<time, presenceid_presence, userid_presenceid, presence_count>>
  BY Zenon DEF timer_ends, Done
<1>2. PICK end \in DOMAIN timers[v] : end <= time /\ timers[v][end] > 0 /\ timers' = [timers EXCEPT ![v][end] = @ - 1]
  BY Zenon DEF timer_ends
<1>3. /\ PresenceData /\ PresencePlans /\ \A s \in Task : PutBeforeTimer(s)
  BY Zenon DEF PresenceInv
<1>4. serving
  BY Zenon, <1>1 DEF serving, pending
<1>5. w \in Lookup
  <2>1. 0 \in Nat
    OBVIOUS
  <2> QED
    BY Zenon, <2>1 DEF Lookup
<1>6. /\ x.do = "get_presence" /\ x.what.do = "process_presence_timer" /\ x.what.user = v /\ Done(v).do = "timer_done"
  BY DEF Done
<1>7. looks_up(w) = <<x>> /\ x \in NextStep /\ Done(v) \in LaterStep
  BY Zenon, <1>5, LooksUp DEF LaterStep, Done
<1> HIDE DEF x, w
<1>8. /\ <<x>> \o <<Done(v)>> # <<>> /\ Head(<<x>> \o <<Done(v)>>) = x
      /\ Steps(<<x>> \o <<Done(v)>>) /\ steps_in(<<x>> \o <<Done(v)>>) = {x, Done(v)}
      /\ steps_in(Tail(<<x>> \o <<Done(v)>>)) = {Done(v)}
  BY Zenon, <1>7, TwoSteps
<1>9. StepOf(t) /\ work'[t] = <<x>> \o <<Done(v)>>
  <2>1. \A y \in steps_in(<<x>> \o <<Done(v)>>) : y.do # "serves"
    BY <1>6, <1>8
  <2>2. work' = [work EXCEPT ![t] = <<x>> \o <<Done(v)>>]
    BY Zenon, <1>1, <1>7
  <2> QED
    BY Zenon, <1>3, <1>4, <1>8, <2>1, <2>2, TakesOn
<1>10. /\ next_is(t, "get_presence")' /\ Looks(t, "process_presence_timer", v)' /\ Done(v) \in later(t)'
       /\ ~next_is(t, "put_presenceid")'
  BY Zenon, <1>6, <1>8, <1>9 DEF Looks, next_is, idle, now, later
<1>11. /\ timers' \in [Seen -> [D -> Nat]]
       /\ \A u \in Seen : \A at \in D : (u # v \/ at # end) => timers'[u][at] = timers[u][at]
  <2>1. timers \in [Seen -> [D -> Nat]]
    BY Zenon, <1>3 DEF PresenceData
  <2> HIDE DEF D
  <2>2. end \in D /\ timers[v][end] \in Nat
    BY Zenon, <2>1
  <2>3. timers[v][end] - 1 \in Nat
    BY <1>2, <2>2
  <2>4. [timers[v] EXCEPT ![end] = timers[v][end] - 1] \in [D -> Nat]
    BY Zenon, <2>1, <2>2, <2>3
  <2>5. timers' = [timers EXCEPT ![v] = [timers[v] EXCEPT ![end] = timers[v][end] - 1]]
    BY Zenon, <1>2, <2>1
  <2> QED
    BY Zenon, <2>1, <2>2, <2>4, <2>5
<1>12. PresenceData'
  BY Zenon, <1>1, <1>3, <1>11 DEF PresenceData
<1>13. PresencePlans' /\ serving'
  BY Zenon, <1>4, <1>9 DEF StepOf, PresencePlans
<1>14. ASSUME NEW s \in Task PROVE PutBeforeTimer(s)'
  <2>1. CASE s = t
    BY Zenon, <1>10, <2>1 DEF PutBeforeTimer
  <2>2. CASE s # t
    <3>1. work'[s] = work[s] /\ PutBeforeTimer(s)
      BY Zenon, <1>3, <1>9, <2>2 DEF StepOf
    <3> QED
      BY Zenon, <1>1, <3>1 DEF PutBeforeTimer, next_is, idle, now, later, Starts, presence_of
  <2> QED
    BY Zenon, <2>1, <2>2
<1>15. ASSUME NEW u \in Chatter, NEW r \in Awake(u)' PROVE WillTimeOut(u, r)'
  <2>1. r \in Awake(u) /\ u \in Seen
    BY Zenon, <1>1 DEF Awake, present, presence_of, Seen
  <2>2. WillTimeOut(u, r)
    BY Zenon, <1>4, <2>1 DEF PresenceInv
  <2>3. Until(r)' = Until(r) /\ time' = time
    BY Zenon, <1>1 DEF Until
  <2>4. ASSUME NEW at \in DOMAIN timers[u], timers[u][at] > 0, at >= Until(r) PROVE WillTimeOut(u, r)'
    <3>1. at \in D
      BY Zenon, <1>3, <2>1 DEF PresenceData
    <3>2. CASE u = v /\ at = end
      <4>1. time >= Until(r)
        <5>1. Until(r) \in Int /\ time \in Nat /\ at \in Int
          <6>1. r \in presenceid_presence
            BY Zenon, <2>1 DEF Awake, present, presence_of
          <6>2. r.last_active_ts \in Nat /\ idle_timeout \in Nat /\ offline_timeout \in Nat /\ time \in Nat
            BY <1>3, <6>1, RowFields, Times
          <6>3. at \in Int
            BY <3>1
          <6> QED
            BY <6>2, <6>3 DEF Until
        <5> QED
          BY <1>2, <2>4, <3>2, <5>1
      <4> QED
        BY Zenon, <1>10, <2>3, <3>2, <4>1 DEF WillTimeOut, Covers, Replaces, Done
    <3>3. CASE u # v \/ at # end
      <4>1. timers'[u][at] = timers[u][at]
        BY Zenon, <1>11, <2>1, <3>1, <3>3
      <4>2. at \in DOMAIN timers'[u]
        BY Zenon, <1>11, <2>1, <3>1
      <4> QED
        BY Zenon, <2>3, <2>4, <4>1, <4>2 DEF WillTimeOut
    <3> QED
      BY Zenon, <3>2, <3>3
  <2>5. ASSUME NEW s \in Task, Covers(s, u, r) PROVE WillTimeOut(u, r)'
    <3>1. s # t
      BY Zenon, <1>1, <2>5, IdleDoesNothing
    <3>2. work'[s] = work[s] /\ time' = time
      BY Zenon, <1>1, <1>9, <3>1 DEF StepOf
    <3>3. Covers(s, u, r)'
      BY Zenon, <2>5, <3>2, OthersCover
    <3> QED
      BY Zenon, <3>3 DEF WillTimeOut
  <2> QED
    BY Zenon, <2>2, <2>4, <2>5 DEF WillTimeOut
<1> QED
  BY Zenon, <1>12, <1>13, <1>14, <1>15 DEF PresenceInv

-----------------------------------------------------------------------------
(* Time, and a restart.                                                    *)

\* Time passes.
LEMMA TimePasses ==
    ASSUME PresenceInv, time_passes
    PROVE  PresenceInv'
<1>1. /\ time < MaxClock /\ time' = time + 1
      /\ UNCHANGED <<presenceid_presence, userid_presenceid, presence_count, timers, work>>
  BY Zenon DEF time_passes, taskVars
<1>2. /\ PresenceData /\ PresencePlans /\ \A s \in Task : PutBeforeTimer(s)
  BY Zenon DEF PresenceInv
<1>3. time \in Nat /\ MaxClock \in Nat /\ time' \in 0 .. MaxClock
  BY <1>1, <1>2, Times
<1>4. PresenceData'
  <2>1. 0 .. time \subseteq 0 .. time'
    BY <1>1, <1>3
  <2>2. presenceid_presence \subseteq [user : Seen, id : 1 .. presence_count, state : PresenceState,
                                       last_active_ts : 0 .. time', status_msg : StatusMsg]
    BY <1>2, <2>1 DEF PresenceData
  <2> QED
    BY Zenon, <1>1, <1>2, <1>3, <2>2 DEF PresenceData
<1>5. PresencePlans' /\ (\A s \in Task : PutBeforeTimer(s)') /\ (serving' <=> serving)
  BY Zenon, <1>1, <1>2 DEF PresencePlans, PutBeforeTimer, serving, pending, next_is, idle, now, later, Starts, presence_of
<1>6. \A u : Awake(u)' = Awake(u)
  BY Zenon, <1>1 DEF Awake, present, presence_of
<1>7. ASSUME serving', NEW u \in Chatter, NEW r \in Awake(u)' PROVE WillTimeOut(u, r)'
  <2>1. r \in Awake(u) /\ WillTimeOut(u, r)
    BY Zenon, <1>5, <1>6, <1>7 DEF PresenceInv
  <2>2. Until(r)' = Until(r)
    BY Zenon DEF Until
  <2>3. time >= Until(r) => time' >= Until(r)
    <3>1. r \in presenceid_presence
      BY Zenon, <2>1 DEF Awake, present, presence_of
    <3>2. Until(r) \in Int
      BY <1>2, <3>1, RowFields, Times DEF Until
    <3> QED
      BY <1>1, <1>3, <3>2
  <2>4. ASSUME NEW s \in Task, Covers(s, u, r) PROVE Covers(s, u, r)'
    BY Zenon, <1>1, <2>2, <2>3, <2>4 DEF Covers, Replaces, Looks, Has, Puts, next_is, idle, now, later, Starts, Done
  <2> QED
    BY Zenon, <1>1, <2>1, <2>2, <2>4 DEF WillTimeOut
<1>8. ASSUME ~serving'
      PROVE  \E s \in Task : /\ SetsOffline(s)' /\ \A q \in Task \ {s} : idle(q)'
                            /\ \A u \in Chatter : \A r \in Awake(u)' : WillBeUnset(s, u, r)'
  <2>1. PICK s \in Task : /\ SetsOffline(s) /\ \A q \in Task \ {s} : idle(q)
                          /\ \A u \in Chatter : \A r \in Awake(u) : WillBeUnset(s, u, r)
    BY Zenon, <1>5, <1>8 DEF PresenceInv
  <2>2. SetsOffline(s)' /\ \A q \in Task \ {s} : idle(q)'
    BY Zenon, <1>1, <2>1 DEF SetsOffline, next_is, idle, now, presence_of
  <2>3. \A u, r : WillBeUnset(s, u, r) => WillBeUnset(s, u, r)'
    BY Zenon, <1>1 DEF WillBeUnset, Looks, Has, Puts, next_is, idle, now
  <2> QED
    BY Zenon, <1>6, <2>1, <2>2, <2>3
<1> QED
  BY Zenon, <1>4, <1>5, <1>7, <1>8 DEF PresenceInv

\* Requests are served again. Nothing is left to unset, so that nobody is shown online.
LEMMA ServesStep ==
    ASSUME PresenceInv, NEW t \in Task, serves(t)
    PROVE  PresenceInv'
<1>1. /\ ~idle(t) /\ now(t).do = "serves" /\ steps_on(t) /\ UNCHANGED presenceVars
  BY Zenon DEF serves, next_is, now
<1>2. /\ PresenceData /\ PresencePlans
  BY Zenon DEF PresenceInv
<1>3. work[t] \in Seq(NextStep) /\ work[t] # <<>> /\ \A i \in DOMAIN work[t] : work[t][i].do = "serves" => i = Len(work[t])
  BY Zenon, <1>1, <1>2 DEF PresencePlans, PresencePlan, idle
<1>4. 1 \in DOMAIN work[t] /\ Head(work[t]) = work[t][1] /\ DOMAIN work[t] = 1 .. Len(work[t])
  BY <1>3
<1>5. Len(work[t]) = 1
  BY Zenon, <1>1, <1>3, <1>4 DEF now
<1>6. Tail(work[t]) = <<>> /\ <<>> \o <<>> = <<>>
  BY <1>3, <1>5
<1>7. steps_in(work[t]) = {now(t)}
  <2>1. DOMAIN work[t] = {1}
    BY <1>4, <1>5
  <2> QED
    BY Zenon, <1>4, <2>1 DEF steps_in, now
<1>8. /\ DOMAIN work' = Task /\ work'[t] = <<>> /\ \A s \in Task \ {t} : work'[s] = work[s]
  <2>1. DOMAIN work = Task /\ work' = [work EXCEPT ![t] = <<>> \o Tail(work[t])]
    BY Zenon, <1>1, <1>2 DEF PresencePlans, steps_on, goes_on
  <2>2. work' = [work EXCEPT ![t] = <<>>]
    BY Zenon, <1>6, <2>1
  <2> QED
    BY Zenon, <2>1, <2>2
<1>9. ~serving
  BY Zenon, <1>1, <1>4 DEF serving, pending, now
<1>10. PICK s \in Task : /\ SetsOffline(s) /\ \A q \in Task \ {s} : idle(q)
                         /\ \A u \in Chatter : \A r \in Awake(u) : WillBeUnset(s, u, r)
  BY Zenon, <1>9 DEF PresenceInv
<1>11. s = t
  BY Zenon, <1>1, <1>10
<1>12. \A q \in Task : work'[q] = <<>>
  BY Zenon, <1>8, <1>10, <1>11 DEF idle
<1>13. PresencePlans'
  <2>1. PresencePlan(<<>>)
    BY DEF PresencePlan
  <2> QED
    BY Zenon, <1>8, <1>12, <2>1 DEF PresencePlans
<1>14. (\A q \in Task : PutBeforeTimer(q)') /\ serving'
  <2>1. \A q \in Task : ~\E i \in 1 .. Len(work'[q]) : TRUE
    BY <1>12
  <2>2. serving'
    BY Zenon, <2>1 DEF serving, pending
  <2> QED
    BY Zenon, <1>12, <2>2 DEF PutBeforeTimer, next_is, idle
<1>15. PresenceData' /\ \A u : Awake(u)' = Awake(u)
  BY Zenon, <1>1, <1>2 DEF presenceVars, PresenceData, Awake, present, presence_of
<1>16. \A u, r : ~WillBeUnset(t, u, r)
  BY Zenon, <1>1, <1>7 DEF WillBeUnset, Looks, Has, Puts, next_is, now
<1> QED
  BY Zenon, <1>10, <1>11, <1>13, <1>14, <1>15, <1>16 DEF PresenceInv

\* After a restart one task unsets the presence of each of our users, and then serves requests.
LEMMA UnsetPlan ==
    ASSUME NEW order \in [1 .. Cardinality(Chatter) -> Chatter],
           \A u \in Chatter : \E i \in DOMAIN order : order[i] = u,
           NEW q, q = [i \in DOMAIN order |-> looks_up([do |-> "unset_presence", user |-> order[i], id |-> 0])[1]]
                      \o <<[do |-> "serves"]>>
    PROVE  /\ PresencePlan(q) /\ q # <<>>
           /\ Head(q) \in LaterStep /\ Head(q).do \in {"get_presence", "serves"}
           /\ \E x \in steps_in(q) : x.do = "serves"
           /\ \A u \in Chatter : \E x \in steps_in(q) : x \in LaterStep /\ x.do = "get_presence" /\ x.what.user = u
<1> DEFINE n == Cardinality(Chatter)
           unset(i) == [do |-> "get_presence", what |-> [do |-> "unset_presence", user |-> order[i], id |-> 0]]
           p == [i \in 1 .. n |-> unset(i)]
           last == [do |-> "serves"]
<1>1. n \in Nat /\ DOMAIN order = 1 .. n
  BY Zenon, PresenceAssumption
<1>2. ASSUME NEW i \in 1 .. n
      PROVE  /\ looks_up([do |-> "unset_presence", user |-> order[i], id |-> 0])[1] = unset(i)
             /\ unset(i) \in LaterStep /\ unset(i).do = "get_presence" /\ unset(i).what.user = order[i]
  <2>1. order[i] \in Seen /\ 0 \in Nat
    BY DEF Seen
  <2>2. looks_up([do |-> "unset_presence", user |-> order[i], id |-> 0])[1] = unset(i)
    BY DEF looks_up
  <2>3. unset(i) \in LaterStep
    BY Zenon, <2>1 DEF LaterStep
  <2> QED
    BY Zenon, <2>2, <2>3
<1>3. last \in LaterStep /\ last.do = "serves"
  BY Zenon DEF LaterStep
<1>4. q = p \o <<last>>
  <2>1. [i \in DOMAIN order |-> looks_up([do |-> "unset_presence", user |-> order[i], id |-> 0])[1]] = p
    BY Zenon, <1>1, <1>2
  <2> QED
    BY Zenon, <2>1
<1> HIDE DEF unset, n, last
<1>a. p \in [1 .. n -> LaterStep] /\ \A i \in 1 .. n : p[i] = unset(i)
  BY Zenon, <1>2
<1> HIDE DEF p
<1>5. p \in Seq(LaterStep) /\ Len(p) = n /\ DOMAIN p = 1 .. n
  BY <1>1, <1>a
<1>6. /\ q \in Seq(LaterStep) /\ Len(q) = n + 1 /\ DOMAIN q = 1 .. n + 1 /\ q[n + 1] = last
      /\ \A i \in 1 .. n : q[i] = unset(i)
  <2>1. p \o <<last>> \in Seq(LaterStep) /\ Len(p \o <<last>>) = n + 1
    BY <1>1, <1>3, <1>5
  <2>2. (p \o <<last>>)[n + 1] = last
    BY <1>1, <1>3, <1>5
  <2>3. \A i \in 1 .. n : (p \o <<last>>)[i] = p[i]
    BY <1>1, <1>3, <1>5
  <2>4. DOMAIN (p \o <<last>>) = 1 .. n + 1
    BY <1>1, <1>3, <1>5
  <2> QED
    BY Zenon, <1>4, <1>a, <2>1, <2>2, <2>3, <2>4
<1>7. q # <<>> /\ Tail(q) \in Seq(LaterStep) /\ Head(q) = q[1] /\ Head(q) \in LaterStep
  BY <1>1, <1>6
<1>8. \A i \in DOMAIN q : q[i].do = "serves" => i = Len(q)
  <2>1. \A i \in DOMAIN q : i \in 1 .. n \/ i = n + 1
    BY <1>1, <1>6
  <2>2. \A i \in 1 .. n : q[i].do # "serves"
    BY Zenon, <1>2, <1>6
  <2> QED
    BY Zenon, <1>6, <2>1, <2>2
<1>9. PresencePlan(q)
  <2>1. LaterStep \subseteq NextStep
    BY Zenon DEF NextStep
  <2>2. q \in Seq(NextStep)
    BY SMTT(20), <1>6, <2>1
  <2> QED
    BY Zenon, <1>7, <1>8, <2>2 DEF PresencePlan
<1>10. Head(q).do \in {"get_presence", "serves"}
  <2>1. 1 \in 1 .. n \/ 1 = n + 1
    BY <1>1
  <2>2. CASE 1 \in 1 .. n
    <3>1. q[1] = unset(1)
      BY Zenon, <1>6, <2>2
    <3>2. unset(1).do = "get_presence"
      BY Zenon, <1>2, <2>2
    <3> QED
      BY Zenon, <1>7, <3>1, <3>2
  <2>3. CASE 1 = n + 1
    <3>1. q[1] = last
      BY Zenon, <1>6, <2>3
    <3> QED
      BY Zenon, <1>3, <1>7, <3>1
  <2> QED
    BY Zenon, <2>1, <2>2, <2>3
<1>11. \E x \in steps_in(q) : x.do = "serves"
  <2>1. n + 1 \in DOMAIN q
    BY <1>1, <1>6
  <2> QED
    BY Zenon, <1>3, <1>6, <2>1 DEF steps_in
<1>12. ASSUME NEW u \in Chatter
       PROVE  \E x \in steps_in(q) : x \in LaterStep /\ x.do = "get_presence" /\ x.what.user = u
  <2>1. PICK i \in 1 .. n : order[i] = u
    BY Zenon, <1>1
  <2>2. i \in DOMAIN q
    BY <1>1, <1>6
  <2> QED
    BY ZenonT(40), <1>2, <1>6, <2>1, <2>2 DEF steps_in
<1> QED
  BY Zenon, <1>7, <1>9, <1>10, <1>11, <1>12

\* A restart loses what was being done, and the timers.
LEMMA RestartStep ==
    ASSUME PresenceInv, NEW t \in Task, restart(t)
    PROVE  PresenceInv'
<1>1. /\ timers' = no_timers /\ UNCHANGED <<time, presenceid_presence, userid_presenceid, presence_count>>
  BY Zenon DEF restart
<1>2. PICK order \in [1 .. Cardinality(Chatter) -> Chatter] :
          /\ \A u \in Chatter : \E i \in DOMAIN order : order[i] = u
          /\ work' = [q \in Task |-> IF q # t THEN <<>>
                        ELSE [i \in DOMAIN order |-> looks_up([do |-> "unset_presence", user |-> order[i], id |-> 0])[1]]
                             \o <<[do |-> "serves"]>>]
  BY Zenon DEF restart
<1>3. PresenceData
  BY Zenon DEF PresenceInv
<1>4. /\ DOMAIN work' = Task /\ \A s \in Task \ {t} : work'[s] = <<>>
      /\ work'[t] = [i \in DOMAIN order |-> looks_up([do |-> "unset_presence", user |-> order[i], id |-> 0])[1]]
                    \o <<[do |-> "serves"]>>
  BY Zenon, <1>2
<1>5. /\ PresencePlan(work'[t]) /\ work'[t] # <<>>
      /\ Head(work'[t]) \in LaterStep /\ Head(work'[t]).do \in {"get_presence", "serves"}
      /\ \E x \in steps_in(work'[t]) : x.do = "serves"
      /\ \A u \in Chatter : \E x \in steps_in(work'[t]) : x \in LaterStep /\ x.do = "get_presence" /\ x.what.user = u
  <2> DEFINE p == work'[t]
  <2>1. p = [i \in DOMAIN order |-> looks_up([do |-> "unset_presence", user |-> order[i], id |-> 0])[1]]
            \o <<[do |-> "serves"]>>
    BY Zenon, <1>4
  <2>2. \A u \in Chatter : \E i \in DOMAIN order : order[i] = u
    BY Zenon, <1>2
  <2> HIDE DEF p
  <2>3. /\ PresencePlan(p) /\ p # <<>>
        /\ Head(p) \in LaterStep /\ Head(p).do \in {"get_presence", "serves"}
        /\ \E x \in steps_in(p) : x.do = "serves"
        /\ \A u \in Chatter : \E x \in steps_in(p) : x \in LaterStep /\ x.do = "get_presence" /\ x.what.user = u
    BY ZenonT(40), <2>1, <2>2, UnsetPlan
  <2> QED
    BY Zenon, <2>3 DEF p
<1>6. PresencePlans'
  <2>1. PresencePlan(<<>>)
    BY DEF PresencePlan
  <2> QED
    BY Zenon, <1>4, <1>5, <2>1 DEF PresencePlans
<1>7. \A s \in Task : PutBeforeTimer(s)'
  <2>1. Head(work'[t]).do # "put_presenceid"
    BY <1>5
  <2> QED
    BY Zenon, <1>4, <2>1 DEF PutBeforeTimer, next_is, idle
<1>8. ~serving'
  <2>0. PICK x \in steps_in(work'[t]) : x.do = "serves"
    BY Zenon, <1>5
  <2>1. PICK i \in DOMAIN work'[t] : work'[t][i].do = "serves"
    BY Zenon, <2>0 DEF steps_in
  <2>2. DOMAIN work'[t] = 1 .. Len(work'[t])
    BY SMTT(20), <1>5 DEF PresencePlan
  <2> QED
    BY Zenon, <2>1, <2>2 DEF serving, pending
<1>9. PresenceData'
  <2>1. 0 \in Nat
    OBVIOUS
  <2>2. no_timers \in [Seen -> [0 .. MaxClock + idle_timeout + offline_timeout -> Nat]]
    BY Zenon, <2>1 DEF no_timers
  <2> QED
    BY Zenon, <1>1, <1>3, <2>2 DEF PresenceData
<1>10. SetsOffline(t)'
  <2>1. /\ Head(work'[t]).do \notin {"ping_presence", "process_presence_timer", "set_presence", "put_presenceid"}
        /\ Head(work'[t]).do = "get_presence" => Head(work'[t]).what.do = "unset_presence"
    BY Zenon, <1>5, LaterFields
  <2> QED
    BY Zenon, <2>1 DEF SetsOffline, next_is, now
<1>11. (\A s \in Task \ {t} : idle(s)') /\ \A u \in Chatter : \A r : WillBeUnset(t, u, r)'
  BY Zenon, <1>4, <1>5 DEF idle, WillBeUnset
<1> QED
  BY Zenon, <1>6, <1>7, <1>8, <1>9, <1>10, <1>11 DEF PresenceInv

-----------------------------------------------------------------------------
(* The theorem.                                                            *)

\* The server starts without presences.
LEMMA InitPresenceInv ==
    ASSUME InitPresence, InitTasks(0)
    PROVE  PresenceInv
<1>1. /\ DOMAIN work = Task /\ \A t \in Task : work[t] = <<>>
  BY Zenon DEF InitTasks
<1>2. PresencePlans
  <2>1. PresencePlan(<<>>)
    BY DEF PresencePlan
  <2> QED
    BY Zenon, <1>1, <2>1 DEF PresencePlans
<1>3. PresenceData
  <2>1. 0 \in Nat /\ 0 \in 0 .. 0 /\ 0 \in 0 .. MaxClock
    <3>1. MaxClock \in Nat
      BY Zenon, PresenceAssumption
    <3> QED
      BY <3>1
  <2>2. no_timers \in [Seen -> [0 .. MaxClock + idle_timeout + offline_timeout -> Nat]]
    BY Zenon, <2>1 DEF no_timers
  <2>3. [u \in Seen |-> 0] \in [Seen -> 0 .. 0]
    BY Zenon, <2>1
  <2> QED
    BY Zenon, <2>1, <2>2, <2>3 DEF PresenceData, InitPresence
<1>4. (\A t \in Task : PutBeforeTimer(t)) /\ serving
  <2>1. \A t \in Task : ~\E i \in 1 .. Len(work[t]) : TRUE
    BY <1>1
  <2>2. serving
    BY Zenon, <2>1 DEF serving, pending
  <2> QED
    BY Zenon, <1>1, <2>2 DEF PutBeforeTimer, next_is, idle
<1>5. \A u : Awake(u) = {}
  BY Zenon DEF Awake, present, presence_of, InitPresence
<1> QED
  BY Zenon, <1>2, <1>3, <1>4, <1>5 DEF PresenceInv

\* Every step keeps the invariant.
LEMMA NextPresenceInv ==
    ASSUME PresenceInv, [NextPresence]_<<presenceVars, taskVars>>
    PROVE  PresenceInv'
<1>1. ASSUME NEW t \in Task, NEW u \in Chatter, set_presence_route(t, u) \/ sync_pings(t, u) PROVE PresenceInv'
  <2>1. u \in Seen
    BY Zenon DEF Seen
  <2> QED
    BY Zenon, <1>1, <2>1, RouteSteps
<1>2. ASSUME NEW t \in Task, NEW u \in Seen, handle_edu_presence(t, u) \/ timer_ends(t, u) PROVE PresenceInv'
  BY Zenon, <1>2, RouteSteps, TimerEnds
<1>3. ASSUME NEW t \in Task, presence_steps(t) PROVE PresenceInv'
  BY Zenon, <1>3, GetStep, PingStep, SetStep, PutStep, RemoveStep, TimerStep DEF presence_steps
<1>4. ASSUME NEW t \in Task, process_presence_timer(t) \/ timer_done(t) PROVE PresenceInv'
  BY Zenon, <1>4, ProcessStep, DoneStep
<1>5. ASSUME NEW t \in Task, restart(t) \/ unset_presence(t) \/ serves(t) PROVE PresenceInv'
  BY Zenon, <1>5, RestartStep, UnsetStep, ServesStep
<1>6. ASSUME time_passes PROVE PresenceInv'
  BY Zenon, <1>6, TimePasses
<1>7. ASSUME UNCHANGED <<presenceVars, taskVars>> PROVE PresenceInv'
  <2>1. UNCHANGED <<time, presenceid_presence, userid_presenceid, presence_count, timers, work>>
    BY Zenon, <1>7 DEF presenceVars, taskVars
  <2>2. (PresenceData' <=> PresenceData) /\ (PresencePlans' <=> PresencePlans)
    BY Zenon, <2>1 DEF PresenceData, PresencePlans
  <2>3. \A t : /\ PutBeforeTimer(t)' <=> PutBeforeTimer(t)
               /\ SetsOffline(t)' <=> SetsOffline(t)
               /\ idle(t)' <=> idle(t)
    BY ZenonT(40), <2>1 DEF PutBeforeTimer, SetsOffline, next_is, idle, now, later, presence_of, Starts
  <2>4. serving' <=> serving
    BY Zenon, <2>1 DEF serving, pending
  <2>5. \A u : Awake(u)' = Awake(u)
    BY Zenon, <2>1 DEF Awake, present, presence_of
  <2>6. ASSUME NEW u, NEW r PROVE WillTimeOut(u, r) => WillTimeOut(u, r)'
    <3>1. \A s \in Task : Covers(s, u, r) => Covers(s, u, r)'
      BY Zenon, <2>1, OthersCover
    <3> QED
      BY Zenon, <2>1, <3>1 DEF WillTimeOut, Until
  <2>7. \A t, u, r : WillBeUnset(t, u, r) => WillBeUnset(t, u, r)'
    BY ZenonT(40), <2>1 DEF WillBeUnset, Looks, Has, Puts, next_is, idle, now
  <2> QED
    BY Zenon, <2>2, <2>3, <2>4, <2>5, <2>6, <2>7 DEF PresenceInv
<1>8. CASE NextPresence
  BY Zenon, <1>1, <1>2, <1>3, <1>4, <1>5, <1>6, <1>7, <1>8 DEF NextPresence, presenceDone
<1> QED
  BY Zenon, <1>7, <1>8

\* The invariant says that a user who is shown online will time out.
LEMMA InvOnlineTimesOut ==
    ASSUME PresenceInv
    PROVE  OnlineTimesOut
<1> SUFFICES ASSUME serving, NEW u \in Chatter, NEW r \in present(u), r.state \in {"online", "unavailable"}
             PROVE  \/ \E at \in DOMAIN timers[u] : timers[u][at] > 0
                    \/ \E t \in Task : \E i \in DOMAIN work[t] :
                          work[t][i].do \in {"set_presence", "start_timer", "timer_done"} /\ work[t][i].user = u
  BY Zenon DEF OnlineTimesOut
<1>1. WillTimeOut(u, r) /\ PresencePlans
  BY Zenon DEF PresenceInv, Awake
<1>2. ASSUME NEW t \in Task, Covers(t, u, r)
      PROVE  \E x \in steps_in(work[t]) : x.do \in {"set_presence", "start_timer", "timer_done"} /\ x.user = u
  <2>1. Starts(u, r.state).do = "start_timer" /\ Starts(u, r.state).user = u /\ Done(u).do = "timer_done" /\ Done(u).user = u
    BY DEF Starts, Done
  <2>2. CASE idle(t)
    BY Zenon, <1>2, <2>2, IdleDoesNothing
  <2>3. CASE ~idle(t)
    <3>1. steps_in(work[t]) = {now(t)} \cup later(t)
      <4>1. work[t] \in Seq(NextStep) /\ work[t] # <<>>
        BY Zenon, <1>1, <2>3 DEF PresencePlans, PresencePlan, idle
      <4> QED
        BY Zenon, <4>1, FirstAndRest DEF now, later
    <3>2. CASE Starts(u, r.state) \in steps_in(work[t])
      BY Zenon, <2>1, <3>2
    <3>3. CASE Done(u) \in later(t)
      BY Zenon, <2>1, <3>1, <3>3
    <3>4. CASE Has(t, "set_presence", u, r.id)
      BY Zenon, <3>1, <3>4 DEF Has, next_is, now
    <3>5. CASE Puts(t, u)
      <4>1. PICK state \in PresenceState : Starts(u, state) \in later(t)
        BY Zenon, <3>5 DEF PresenceInv, PutBeforeTimer, Puts
      <4>2. Starts(u, state).do = "start_timer" /\ Starts(u, state).user = u
        BY Zenon DEF Starts
      <4> QED
        BY Zenon, <3>1, <4>1, <4>2
    <3> QED
      BY Zenon, <1>2, <3>2, <3>3, <3>4, <3>5 DEF Covers, Replaces
  <2> QED
    BY Zenon, <2>2, <2>3
<1>3. ASSUME NEW t \in Task, NEW x \in steps_in(work[t]) PROVE \E i \in DOMAIN work[t] : x = work[t][i]
  BY Zenon DEF steps_in
<1> QED
  BY Zenon, <1>1, <1>2, <1>3 DEF WillTimeOut

\* While requests are served, a user of ours who is shown online or unavailable will time out.
THEOREM OnlineUsersTimeOut == SpecPresence => []OnlineTimesOut
<1>1. InitPresence /\ InitTasks(0) => PresenceInv
  BY InitPresenceInv
<1>2. PresenceInv /\ [NextPresence]_<<presenceVars, taskVars>> => PresenceInv'
  BY NextPresenceInv
<1>3. PresenceInv => OnlineTimesOut
  BY InvOnlineTimesOut
<1> QED
  BY <1>1, <1>2, <1>3, PTL DEF SpecPresence
=============================================================================
