------------------------------ MODULE Presence ------------------------------
(***************************************************************************)
(* Who is online. A client that does anything is online; a timer makes it  *)
(* unavailable, and another one offline, when it has done nothing for a    *)
(* while. Requests and the worker of the timers read and write the         *)
(* presence of a user in several steps each, without a lock.               *)
(*                                                                         *)
(* A row of presenceid_presence is a presence with its number; the table   *)
(* userid_presenceid has the number of a user's present one.               *)
(***************************************************************************)
EXTENDS Integers, Sequences, FiniteSets, Tasks

CONSTANTS Chatter,             \* users of this server
          Afar,                \* users of other servers
          StatusMsg,           \* status messages, "" among them
          idle_timeout, offline_timeout, REFRESH_TIMEOUT,
          timeout_remote_users,
          MaxClock,            \* bound: the time
          MaxOutages           \* bound: restarts

ASSUME PresenceAssumption ==
    /\ Cardinality(Chatter) \in Nat /\ "" \in StatusMsg /\ timeout_remote_users \in BOOLEAN
    /\ {idle_timeout, offline_timeout, REFRESH_TIMEOUT, MaxClock, MaxOutages} \subseteq Nat

VARIABLES time,
          presenceid_presence, userid_presenceid,
          presence_count,      \* the numbers given
          timers,              \* how many timers of a user end at a time
          outages

presenceVars == <<time, presenceid_presence, userid_presenceid, presence_count, timers, outages>>

PresenceState == {"online", "unavailable", "busy", "offline"}
Seen == Chatter \cup Afar
Now == -1      \* no last_active_ago is given

presence_of(u, id) == {r \in presenceid_presence : r.user = u /\ r.id = id}
present(u) == presence_of(u, userid_presenceid[u])
idle_for(r) == time - r.last_active_ts

-----------------------------------------------------------------------------
(* The steps that read a presence look its number up first; the row may be *)
(* gone by the time they get to it.                                        *)

looks_up(what) == <<[do |-> "get_presence", what |-> what]>>

pings(u, state) == looks_up([do |-> "ping_presence", user |-> u, state |-> state, id |-> 0])
sets(u, state, ago, msg) ==
    looks_up([do |-> "set_presence", user |-> u, state |-> state, ago |-> ago, msg |-> msg, id |-> 0])

get_presence(t) ==
    /\ next_is(t, "get_presence")
    /\ goes_on(t, <<[now(t).what EXCEPT !.id = userid_presenceid[now(t).what.user]]>>)
    /\ UNCHANGED presenceVars

\* Nothing is written if the state is the same and the last activity recent.
ping_presence(t) ==
    /\ next_is(t, "ping_presence")
    /\ LET last == presence_of(now(t).user, now(t).id)
           recent == \A r \in last : idle_for(r) < REFRESH_TIMEOUT
           changed == \A r \in last : r.state # now(t).state
       IN goes_on(t, IF ~changed /\ recent THEN <<>>
                     ELSE sets(now(t).user, now(t).state, 0,
                               IF last = {} THEN "" ELSE (CHOOSE r \in last : TRUE).status_msg))
    /\ UNCHANGED presenceVars

\* Data::set_presence, and the timer that Service::set_presence starts whether or not a row
\* was written.
set_presence(t) ==
    /\ next_is(t, "set_presence")
    /\ LET new == now(t)
           last == presence_of(new.user, new.id)
           same == {r \in last : r.state = new.state}
           last_active_ts == IF new.ago = Now THEN time ELSE IF new.ago > time THEN 0 ELSE time - new.ago
           spam == \E r \in same : r.status_msg = new.msg /\ last_active_ts < r.last_active_ts
           timer == <<[do |-> "start_timer", user |-> new.user, state |-> new.state]>>
       IN IF spam THEN goes_on(t, timer) /\ UNCHANGED <<presence_count, presenceid_presence>>
          ELSE /\ presence_count' = presence_count + 1
               /\ presenceid_presence' = presenceid_presence \cup
                    {[user |-> new.user, id |-> presence_count', state |-> new.state,
                      last_active_ts |-> last_active_ts, status_msg |-> new.msg]}
               /\ goes_on(t, <<[do |-> "put_presenceid", user |-> new.user, id |-> presence_count']>>
                             \o (IF last = {} THEN <<>> ELSE <<[do |-> "remove_last", user |-> new.user, id |-> new.id]>>)
                             \o timer)
    /\ UNCHANGED <<time, userid_presenceid, timers, outages>>

put_presenceid(t) ==
    /\ next_is(t, "put_presenceid") /\ steps_on(t)
    /\ userid_presenceid' = [userid_presenceid EXCEPT ![now(t).user] = now(t).id]
    /\ UNCHANGED <<time, presenceid_presence, presence_count, timers, outages>>

remove_last(t) ==
    /\ next_is(t, "remove_last") /\ steps_on(t)
    /\ presenceid_presence' = presenceid_presence \ presence_of(now(t).user, now(t).id)
    /\ UNCHANGED <<time, userid_presenceid, presence_count, timers, outages>>

start_timer(t) ==
    /\ next_is(t, "start_timer") /\ steps_on(t)
    /\ LET u == now(t).user
           at == time + IF now(t).state = "online" THEN idle_timeout ELSE offline_timeout
       IN timers' = IF u \in Chatter \/ timeout_remote_users THEN [timers EXCEPT ![u][at] = @ + 1] ELSE timers
    /\ UNCHANGED <<time, presenceid_presence, userid_presenceid, presence_count, outages>>

-----------------------------------------------------------------------------
(* The worker handles one timer at a time; it takes the place of an idle   *)
(* task here.                                                              *)

timer_ends(t, u) ==
    /\ idle(t) /\ ~pending({"timer_done", "serves"})
    /\ \E at \in DOMAIN timers[u] : at <= time /\ timers[u][at] > 0 /\ timers' = [timers EXCEPT ![u][at] = @ - 1]
    /\ work' = [work EXCEPT ![t] = looks_up([do |-> "process_presence_timer", user |-> u, id |-> 0])
                                   \o <<[do |-> "timer_done", user |-> u]>>]
    /\ UNCHANGED <<started, time, presenceid_presence, userid_presenceid, presence_count, outages>>

\* The state that a presence changes to, if it has lasted for a time.
Fades == {<<"online", "unavailable", idle_timeout>>, <<"unavailable", "offline", offline_timeout>>}
new_state_later(r) == {f[2] : f \in {g \in Fades : g[1] = r.state /\ idle_for(r) > g[3]}}
new_state(r) == {f[2] : f \in {g \in Fades : g[1] = r.state /\ idle_for(r) >= g[3]}}

process_presence_timer(t) ==
    /\ next_is(t, "process_presence_timer")
    /\ LET due == {r \in presence_of(now(t).user, now(t).id) : new_state(r) # {}}
       IN IF due = {} THEN steps_on(t)
          ELSE \E r \in due : \E s \in new_state(r) : goes_on(t, sets(r.user, s, idle_for(r), r.status_msg))
    /\ UNCHANGED presenceVars

timer_done(t) == next_is(t, "timer_done") /\ steps_on(t) /\ UNCHANGED presenceVars

time_passes ==
    /\ time < MaxClock /\ time' = time + 1
    /\ UNCHANGED <<presenceid_presence, userid_presenceid, presence_count, timers, outages, taskVars>>

-----------------------------------------------------------------------------
(* Requests, of clients and of another server, and a restart.              *)

serving == ~pending({"serves"})

set_presence_route(t, u) ==
    /\ serving
    /\ \E state \in PresenceState, msg \in StatusMsg : begins(t, sets(u, state, Now, msg))
    /\ UNCHANGED presenceVars

sync_pings(t, u) ==
    /\ serving
    /\ \E state \in {"online", "unavailable", "offline"} : begins(t, pings(u, state))
    /\ UNCHANGED presenceVars

handle_edu_presence(t, u) ==
    /\ serving /\ u \in Afar
    /\ \E state \in {"online", "unavailable"}, ago \in 0 .. 1 : begins(t, sets(u, state, ago, ""))
    /\ UNCHANGED presenceVars

no_timers == [u \in Seen |-> [at \in 0 .. MaxClock + idle_timeout + offline_timeout |-> 0]]

\* What was being done is lost, and the timers. Our users are set offline before requests are
\* served.
restart(t) ==
    /\ outages < MaxOutages /\ outages' = outages + 1
    /\ timers' = no_timers
    /\ \E order \in [1 .. Cardinality(Chatter) -> Chatter] :
          /\ \A u \in Chatter : \E i \in DOMAIN order : order[i] = u
          /\ work' = [q \in Task |-> IF q # t THEN <<>>
                        ELSE [i \in DOMAIN order |-> looks_up([do |-> "unset_presence", user |-> order[i], id |-> 0])[1]]
                             \o <<[do |-> "serves"]>>]
    /\ UNCHANGED <<started, time, presenceid_presence, userid_presenceid, presence_count>>

unset_presence(t) ==
    /\ next_is(t, "unset_presence")
    /\ LET awake == {r \in presence_of(now(t).user, now(t).id) : r.state \in {"unavailable", "online", "busy"}}
       IN IF awake = {} THEN steps_on(t)
          ELSE \E r \in awake : goes_on(t, sets(r.user, "offline", idle_for(r), r.status_msg))
    /\ UNCHANGED presenceVars

serves(t) == next_is(t, "serves") /\ steps_on(t) /\ UNCHANGED presenceVars

-----------------------------------------------------------------------------
InitPresence ==
    /\ time = 0 /\ presence_count = 0 /\ outages = 0
    /\ presenceid_presence = {} /\ userid_presenceid = [u \in Seen |-> 0]
    /\ timers = no_timers

\* What a task does once it has begun.
presence_steps(t) ==
    \/ get_presence(t) \/ ping_presence(t) \/ set_presence(t) \/ put_presenceid(t) \/ remove_last(t)
    \/ start_timer(t)

presenceDone == all_idle /\ started = MaxStarted /\ time = MaxClock /\ UNCHANGED <<presenceVars, taskVars>>

NextPresence ==
    \/ \E t \in Task :
          \/ \E u \in Chatter : set_presence_route(t, u) \/ sync_pings(t, u)
          \/ \E u \in Seen : handle_edu_presence(t, u) \/ timer_ends(t, u)
          \/ presence_steps(t)
          \/ process_presence_timer(t) \/ timer_done(t)
          \/ restart(t) \/ unset_presence(t) \/ serves(t)
    \/ time_passes
    \/ presenceDone

SpecPresence == InitPresence /\ InitTasks(0) /\ [][NextPresence]_<<presenceVars, taskVars>>

\* A user of ours who is shown online or unavailable will time out: a timer of theirs has yet to
\* end or to be started, or one is being processed. It holds although a timer that ends after
\* some activity does nothing, although requests and the worker overwrite what each other wrote,
\* and across restarts, which lose the timers.
OnlineTimesOut ==
    serving => \A u \in Chatter : (\E r \in present(u) : r.state \in {"online", "unavailable"}) =>
        \/ \E at \in DOMAIN timers[u] : timers[u][at] > 0
        \/ \E t \in Task : \E i \in DOMAIN work[t] :
              work[t][i].do \in {"set_presence", "start_timer", "timer_done"} /\ work[t][i].user = u

-----------------------------------------------------------------------------
(* An inductive invariant. The steps that a task takes later than its next *)
(* one look no presence up, but to unset it, and write none.               *)

Lookup ==
    [do : {"ping_presence"}, user : Seen, state : PresenceState, id : Nat]
    \cup [do : {"set_presence"}, user : Seen, state : PresenceState, ago : {Now} \cup Nat,
          msg : StatusMsg, id : Nat]
    \cup [do : {"process_presence_timer", "unset_presence"}, user : Seen, id : Nat]
LaterStep ==
    [do : {"get_presence"}, what : [do : {"unset_presence"}, user : Seen, id : Nat]]
    \cup [do : {"remove_last"}, user : Seen, id : Nat]
    \cup [do : {"start_timer"}, user : Seen, state : PresenceState]
    \cup [do : {"timer_done"}, user : Seen] \cup [do : {"serves"}]
NextStep ==
    LaterStep \cup Lookup \cup [do : {"get_presence"}, what : Lookup]
    \cup [do : {"put_presenceid"}, user : Seen, id : Nat]
PresencePlan(q) ==
    /\ q \in Seq(NextStep) /\ (q # <<>> => Tail(q) \in Seq(LaterStep))
    /\ \A i \in DOMAIN q : q[i].do = "serves" => i = Len(q)

steps_in(q) == {q[i] : i \in DOMAIN q}
later(t) == steps_in(Tail(work[t]))
Starts(u, state) == [do |-> "start_timer", user |-> u, state |-> state]
Done(u) == [do |-> "timer_done", user |-> u]
Looks(t, what, u) == next_is(t, "get_presence") /\ now(t).what.do = what /\ now(t).what.user = u
Has(t, what, u, id) == next_is(t, what) /\ now(t).user = u /\ now(t).id = id
Puts(t, u) == next_is(t, "put_presenceid") /\ now(t).user = u

Awake(u) == {r \in present(u) : r.state \in {"online", "unavailable"}}
Until(r) == r.last_active_ts + (IF r.state = "online" THEN idle_timeout ELSE offline_timeout)

\* While requests are served: a timer of the user will end late enough to find the presence
\* due, one will be started, or the presence is being replaced, by the worker or by a request.
Replaces(t, u, r) ==
    \/ /\ Looks(t, "process_presence_timer", u) \/ Has(t, "process_presence_timer", u, r.id)
       /\ Done(u) \in later(t) /\ time >= Until(r)
    \/ Looks(t, "set_presence", u) /\ Done(u) \in later(t)
    \/ Has(t, "set_presence", u, r.id)
    \/ Puts(t, u)
Covers(t, u, r) == Starts(u, r.state) \in steps_in(work[t]) \/ Replaces(t, u, r)
WillTimeOut(u, r) ==
    \/ \E at \in DOMAIN timers[u] : timers[u][at] > 0 /\ at >= Until(r)
    \/ \E t \in Task : Covers(t, u, r)

\* After a restart, until they are: the presence is to be set offline, or is being.
WillBeUnset(t, u, r) ==
    \/ \E x \in steps_in(work[t]) : x \in LaterStep /\ x.do = "get_presence" /\ x.what.user = u
    \/ Has(t, "unset_presence", u, r.id)
    \/ Looks(t, "set_presence", u)
    \/ Has(t, "set_presence", u, r.id)
    \/ Puts(t, u)
SetsOffline(t) ==
    /\ ~next_is(t, "ping_presence") /\ ~next_is(t, "process_presence_timer")
    /\ next_is(t, "get_presence") => \/ now(t).what.do = "unset_presence"
                                     \/ now(t).what.do = "set_presence" /\ now(t).what.state = "offline"
    /\ next_is(t, "set_presence") => now(t).state = "offline"
    /\ next_is(t, "put_presenceid") => \A r \in presence_of(now(t).user, now(t).id) : r.state = "offline"

PresenceData ==
    /\ time \in 0 .. MaxClock /\ presence_count \in Nat /\ userid_presenceid \in [Seen -> 0 .. presence_count]
    /\ timers \in [Seen -> [0 .. MaxClock + idle_timeout + offline_timeout -> Nat]]
    /\ presenceid_presence \subseteq [user : Seen, id : 1 .. presence_count, state : PresenceState,
                                      last_active_ts : 0 .. time, status_msg : StatusMsg]
    /\ \A r, s \in presenceid_presence : r.id = s.id => r = s
PresencePlans == DOMAIN work = Task /\ \A t \in Task : PresencePlan(work[t])
\* The number of a presence is put before the timer for it is started.
PutBeforeTimer(t) ==
    next_is(t, "put_presenceid") =>
        /\ now(t).id \in 1 .. presence_count /\ \E state \in PresenceState : Starts(now(t).user, state) \in later(t)
        /\ \A r \in presence_of(now(t).user, now(t).id) : Starts(now(t).user, r.state) \in later(t)
PresenceInv ==
    /\ PresenceData /\ PresencePlans /\ \A t \in Task : PutBeforeTimer(t)
    /\ serving => \A u \in Chatter : \A r \in Awake(u) : WillTimeOut(u, r)
    /\ ~serving => \E t \in Task : /\ SetsOffline(t) /\ \A s \in Task \ {t} : idle(s)
                                  /\ \A u \in Chatter : \A r \in Awake(u) : WillBeUnset(t, u, r)
=============================================================================
