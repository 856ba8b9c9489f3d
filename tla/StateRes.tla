------------------------------ MODULE StateRes ------------------------------
(***************************************************************************)
(* State resolution and the authorization rules it applies. A room forks:  *)
(* two servers send state events that are authorized by what each of them  *)
(* has seen, and the two states are then resolved into one.                *)
(***************************************************************************)
EXTENDS Integers, Sequences, FiniteSets, SequencesExt, TLC

CONSTANTS Person,        \* users; Creator and Mod are two of them
          Creator,       \* made the room, power level 100
          Mod,           \* power level 50
          Nobody,        \* no user
          Room_versions, \* the versions tried, of RoomVersion
          Memberships,   \* the kinds of member events sent
          Join_rules,    \* the join rules set
          Thresholds,    \* the levels changed, of PowerLevelName
          Levels,        \* the levels given
          MaxSent        \* bound: state events sent after the fork

VARIABLES room_version,  \* the version of the room
          pdus,          \* the events, by ID: a sequence
          fork,          \* the state each of the two servers has: key to event ID
          resolved       \* the result of resolving them; empty: not resolved yet

stateResVars == <<room_version, pdus, fork, resolved>>

-----------------------------------------------------------------------------
(* Room versions, as far as the authorization rules tell them apart.       *)

V1 == [allow_knocking |-> FALSE, restricted_join_rules |-> FALSE,
       knock_restricted_join_rule |-> FALSE, integer_power_levels |-> FALSE,
       limit_notifications_power_levels |-> FALSE, use_room_create_sender |-> FALSE]
V6 == [V1 EXCEPT !.limit_notifications_power_levels = TRUE]
V7 == [V6 EXCEPT !.allow_knocking = TRUE]
V8 == [V7 EXCEPT !.restricted_join_rules = TRUE]
V10 == [V8 EXCEPT !.knock_restricted_join_rule = TRUE, !.integer_power_levels = TRUE]
V11 == [V10 EXCEPT !.use_room_create_sender = TRUE]

RoomVersion == 1 :> V1 @@ 6 :> V6 @@ 7 :> V7 @@ 8 :> V8 @@ 10 :> V10 @@ 11 :> V11
version == RoomVersion[room_version]

-----------------------------------------------------------------------------
(* Events. A state key is a pair: the type, and a user or Nobody for "".   *)

PowerLevelName == {"users_default", "events_default", "state_default", "ban", "redact",
                   "kick", "invite", "notifications"}
Unset == -1     \* a user without an entry; below every level, as None is

RoomPowerLevelsEventContent ==
    [users |-> [u \in Person |-> Unset], strings |-> FALSE,
     level |-> [n \in PowerLevelName |-> IF n \in {"users_default", "events_default", "invite"}
                                         THEN 0 ELSE 50]]

NoPdu == [id |-> 0]
fetch_event(id) == pdus[id]
event_key(e) == <<e.type, e.state_key>>
fetch(state, type, k) == IF <<type, k>> \in DOMAIN state THEN state[type, k] ELSE NoPdu
membership_of(e) == IF e = NoPdu THEN "leave" ELSE e.content.membership
is_type_and_key(id, type) == event_key(fetch_event(id)) = <<type, Nobody>>

\* Levels written as strings are read in the versions before 10 only.
deserialize_power_levels(content) == ~(version.integer_power_levels /\ content.strings)

get_user_power(content, u) ==
    IF content.users[u] # Unset THEN content.users[u] ELSE content.level["users_default"]

\* Without power levels the creator has 100; every version's create event names them.
sender_power_level(pl, u) ==
    IF pl # NoPdu THEN get_user_power(pl.content, u) ELSE IF u = Creator THEN 100 ELSE 0

-----------------------------------------------------------------------------
(* event_auth. Left out: third-party invites, m.room.aliases, redactions   *)
(* and rooms closed to federation.                                         *)

\* The keys of the events that authorize this one.
auth_types_for_event(e) ==
    IF e.type = "create" THEN {}
    ELSE {<<"power_levels", Nobody>>, <<"member", e.sender>>, <<"create", Nobody>>}
         \cup IF e.type # "member" THEN {}
              ELSE {<<"member", e.state_key>>}
                   \cup (IF e.content.membership \in {"join", "invite", "knock"}
                         THEN {<<"join_rules", Nobody>>} ELSE {})
                   \cup (IF e.content.membership \in {"join", "invite", "knock"}
                              /\ e.content.authorised # Nobody
                         THEN {<<"member", e.content.authorised>>} ELSE {})

\* A user who may invite vouches for one who joins a restricted room.
user_for_join_auth_is_valid(e, state) ==
    LET via == e.content.authorised
        pl == fetch(state, "power_levels", Nobody)
    IN /\ via # Nobody
       /\ membership_of(fetch(state, "member", via)) = "join"
       /\ pl # NoPdu => get_user_power(pl.content, via) >= pl.content.level["invite"]

\* What the rules on memberships look at. The level of a user without an entry counts
\* only for one who is joined (the sender) or joins (the target).
membership_change(e, state) ==
    LET pl == fetch(state, "power_levels", Nobody)
        levels == IF pl = NoPdu THEN RoomPowerLevelsEventContent ELSE pl.content
        sender_is == membership_of(fetch(state, "member", e.sender))
        power(u, counts) == IF levels.users[u] = Unset /\ counts
                            THEN levels.level["users_default"] ELSE levels.users[u]
        sender_power == power(e.sender, sender_is = "join")
        jr == fetch(state, "join_rules", Nobody)
    IN [sender_is |-> sender_is,
        target_is |-> membership_of(fetch(state, "member", e.state_key)),
        sender_power |-> sender_power,
        target_power |-> power(e.state_key, e.content.membership = "join"),
        levels |-> levels.level,
        has |-> {n \in PowerLevelName : sender_power # Unset /\ sender_power >= levels.level[n]},
        rule |-> IF jr = NoPdu THEN "invite" ELSE jr.content.join_rule]

\* The creator joins right after creating; others as the join rule has it.
valid_join(e, state, c) ==
    \/ /\ e.prev = {fetch(state, "create", Nobody).id}
       /\ e.sender = Creator /\ e.state_key = Creator
    \/ /\ e.sender = e.state_key /\ c.target_is # "ban"
       /\ \/ /\ c.rule = "invite" \/ (version.allow_knocking /\ c.rule = "knock")
             /\ c.target_is \in {"join", "invite"}
          \/ /\ \/ version.restricted_join_rules /\ c.rule = "restricted"
                \/ version.knock_restricted_join_rule /\ c.rule = "knock_restricted"
             /\ c.target_is \in {"join", "invite"} \/ user_for_join_auth_is_valid(e, state)
          \/ c.rule = "public"

valid_invite(c) == c.sender_is = "join" /\ c.target_is \notin {"join", "ban"} /\ "invite" \in c.has

\* A user leaves, rejects an invite, or is kicked or unbanned by one above them.
valid_leave(e, c) ==
    IF e.sender = e.state_key THEN c.target_is \in {"join", "invite", "knock"}
    ELSE /\ c.sender_is = "join"
         /\ ~(c.target_is = "ban" /\ c.sender_power # Unset /\ c.sender_power < c.levels["ban"])
         /\ "kick" \in c.has /\ c.target_power < c.sender_power

valid_ban(c) == c.sender_is = "join" /\ "ban" \in c.has /\ c.target_power < c.sender_power

valid_knock(e, c) ==
    /\ version.allow_knocking
    /\ c.rule = "knock" \/ (c.rule = "knock_restricted" /\ version.knock_restricted_join_rule)
    /\ e.sender = e.state_key /\ c.sender_is \notin {"ban", "invite", "join"}

valid_membership_change(e, state) ==
    LET c == membership_change(e, state)
        to == e.content.membership
    IN \/ to = "join" /\ valid_join(e, state, c)
       \/ to = "invite" /\ valid_invite(c)
       \/ to = "leave" /\ valid_leave(e, c)
       \/ to = "ban" /\ valid_ban(c)
       \/ to = "knock" /\ valid_knock(e, c)

get_send_level(pl) == IF pl = NoPdu THEN 50 ELSE pl.content.level["state_default"]

can_send_event(e, pl, user_level) ==
    /\ user_level >= get_send_level(pl)
    /\ e.state_key \in {Nobody, e.sender}

\* Nobody gives or takes a level above their own, or takes one that equals theirs.
check_power_levels_new_only(e, pl, user_level) ==
    \A u \in Person : e.content.users[u] <= user_level
check_power_levels(e, pl, user_level) ==
    LET new == e.content
        old == pl.content
        changes(u) == old.users[u] = Unset \/ old.users[u] # new.users[u]
    IN /\ deserialize_power_levels(new)
       /\ pl # NoPdu =>
           /\ \A u \in Person : changes(u) =>
                /\ u # e.sender => old.users[u] # user_level
                /\ old.users[u] <= user_level /\ new.users[u] <= user_level
           /\ \A n \in PowerLevelName :
                (n = "notifications" => /\ version.limit_notifications_power_levels
                                        /\ old.level[n] # new.level[n])
                => old.level[n] <= user_level /\ new.level[n] <= user_level

\* The first event of a room. Room ID and versions are always well formed here.
auth_check_create(e) == e.prev = {}

\* What an event may do given the events that authorize it.
auth_check(e, state) ==
    LET create == fetch(state, "create", Nobody)
        pl == fetch(state, "power_levels", Nobody)
        user_level == sender_power_level(pl, e.sender)
    IN IF e.type = "create" THEN auth_check_create(e)
       ELSE /\ create # NoPdu /\ create.id \in e.auth
            /\ IF e.type = "member" THEN valid_membership_change(e, state)
               ELSE /\ membership_of(fetch(state, "member", e.sender)) = "join"
                    /\ can_send_event(e, pl, user_level)
                    /\ e.type = "power_levels" => check_power_levels(e, pl, user_level)

-----------------------------------------------------------------------------
(* state_res::resolve.                                                     *)

\* What is the same in both states, and the events where they differ.
separate(states) ==
    LET both == {k \in DOMAIN states[1] \cap DOMAIN states[2] : states[1][k] = states[2][k]}
    IN [clean |-> [k \in both |-> states[1][k]],
        conflicting |-> UNION {{states[i][k] : k \in DOMAIN states[i] \ both} : i \in 1 .. 2}]

\* Everything that authorizes some event of the set, and so on; not the set itself.
get_auth_chain(ids) ==
    LET found[n \in 0 .. Len(pdus)] ==
            IF n = 0 THEN UNION {fetch_event(x).auth : x \in ids}
            ELSE LET so_far == found[n - 1]
                 IN so_far \cup UNION {fetch_event(x).auth : x \in so_far}
    IN found[Len(pdus)]

get_auth_chain_diff(chains) == (chains[1] \cup chains[2]) \ (chains[1] \cap chains[2])

is_power_event(id) ==
    LET e == fetch_event(id)
    IN \/ e.type \in {"power_levels", "join_rules", "create"} /\ e.state_key = Nobody
       \/ /\ e.type = "member" /\ e.content.membership \in {"leave", "ban"}
          /\ e.sender # e.state_key

\* The power levels among the events that authorize this one; 0: none.
power_event_of(id) ==
    LET found == {a \in fetch_event(id).auth : is_type_and_key(a, "power_levels")}
    IN IF found = {} THEN 0 ELSE CHOOSE a \in found : TRUE

get_power_level_for_sender(id) ==
    IF power_event_of(id) = 0 THEN 0
    ELSE get_user_power(fetch_event(power_event_of(id)).content, fetch_event(id).sender)

\* The control events with those of the conflicted events that authorize them.
add_event_and_auth_chain_to_graph(ids, all_conflicted) ==
    LET nodes[n \in 0 .. Len(pdus)] ==
            IF n = 0 THEN ids
            ELSE LET so_far == nodes[n - 1]
                 IN so_far \cup UNION {fetch_event(x).auth \cap all_conflicted : x \in so_far}
    IN nodes[Len(pdus)]

earlier(x, y) ==
    LET px == get_power_level_for_sender(x)
        py == get_power_level_for_sender(y)
        tx == fetch_event(x).origin_server_ts
        ty == fetch_event(y).origin_server_ts
    IN px > py \/ (px = py /\ (tx < ty \/ (tx = ty /\ x < y)))

\* Of the events whose authorizing events are sorted already, the earliest comes next.
lexicographical_topological_sort(nodes, all_conflicted) ==
    LET sorted[n \in 0 .. Cardinality(nodes)] ==
            IF n = 0 THEN <<>>
            ELSE LET so_far == sorted[n - 1]
                     done == ToSet(so_far)
                     heap == {x \in nodes \ done :
                                fetch_event(x).auth \cap all_conflicted \subseteq done}
                 IN Append(so_far, CHOOSE x \in heap : \A y \in heap \ {x} : earlier(x, y))
    IN sorted[Cardinality(nodes)]

reverse_topological_power_sort(control_events, all_conflicted) ==
    lexicographical_topological_sort(
        add_event_and_auth_chain_to_graph(control_events, all_conflicted), all_conflicted)

\* The resolved power levels, those before them, and so on; the last are the oldest.
mainline(power_event) ==
    LET m[n \in 0 .. Len(pdus)] ==
            IF n = 0 THEN (IF power_event = 0 THEN <<>> ELSE <<power_event>>)
            ELSE LET line == m[n - 1]
                 IN IF line = <<>> \/ power_event_of(Last(line)) = 0 THEN line
                    ELSE Append(line, power_event_of(Last(line)))
    IN m[Len(pdus)]

\* How far up the mainline the closest power levels of an event are.
get_mainline_depth(id, line) ==
    LET up[n \in 0 .. Len(pdus)] ==
            IF n = 0 THEN id
            ELSE LET at == up[n - 1]
                 IN IF at = 0 \/ Contains(line, at) THEN at ELSE power_event_of(at)
        place == {i \in 1 .. Len(line) : line[i] = up[Len(pdus)]}
    IN IF place = {} THEN 0 ELSE Len(line) - (CHOOSE i \in place : TRUE)

mainline_sort(ids, power_event) ==
    LET line == mainline(power_event)
        rank_of(x) == <<get_mainline_depth(x, line), fetch_event(x).origin_server_ts, x>>
        before(x, y) == LET a == rank_of(x)
                            b == rank_of(y)
                        IN a[1] < b[1] \/ (a[1] = b[1] /\ (a[2] < b[2] \/ (a[2] = b[2] /\ x < y)))
    IN SetToSortSeq(ids, before)

\* One event: the state it is checked against is what authorized it when it was sent,
\* overridden by what is resolved so far. It is kept if it passes.
check_one(state, id) ==
    LET e == fetch_event(id)
        sent_with == [k \in {event_key(fetch_event(a)) : a \in e.auth} |->
                        fetch_event(CHOOSE a \in e.auth : event_key(fetch_event(a)) = k)]
        by_now == [k \in auth_types_for_event(e) \cap DOMAIN state |-> fetch_event(state[k])]
    IN IF auth_check(e, by_now @@ sent_with) THEN (event_key(e) :> id) @@ state ELSE state

\* The events are checked as their fetches complete, in any order.
iterative_auth_check(events_to_check, state) == FoldLeft(check_one, state, events_to_check)
completions(sorted) == SetToSeqs(ToSet(sorted))

\* The set of all results, if the events are checked as they were sorted or as the
\* fetches complete.
resolve(states, as_sorted) ==
    LET of(sorted) == IF as_sorted THEN {sorted} ELSE completions(sorted)
        parts == separate(states)
        chains == [i \in 1 .. 2 |-> get_auth_chain({states[i][k] : k \in DOMAIN states[i]})]
        all_conflicted == get_auth_chain_diff(chains) \cup parts.conflicting
        control == reverse_topological_power_sort({x \in all_conflicted : is_power_event(x)},
                                                  all_conflicted)
        left == all_conflicted \ ToSet(control)
        finish(state) ==
            LET pl == IF <<"power_levels", Nobody>> \in DOMAIN state
                      THEN state["power_levels", Nobody] ELSE 0
            IN {parts.clean @@ iterative_auth_check(o, state) : o \in of(mainline_sort(left, pl))}
    IN IF parts.conflicting = {} THEN {parts.clean}
       ELSE UNION {finish(iterative_auth_check(o, parts.clean)) : o \in of(control)}

-----------------------------------------------------------------------------
(* The fork.                                                               *)

pdu(type, k, sender, content, auth, prev, ts) ==
    [id |-> Len(pdus) + 1, type |-> type, state_key |-> k, sender |-> sender,
     content |-> content, auth |-> auth, prev |-> prev, origin_server_ts |-> ts]

room_member(m, via) == [membership |-> m, authorised |-> via]

\* The power levels with one of them changed.
changed_levels(content) ==
    {[content EXCEPT !.users[u] = l] : u \in Person, l \in Levels}
    \cup {[content EXCEPT !.level[n] = l] : n \in Thresholds, l \in Levels}
    \cup {[content EXCEPT !.strings = TRUE]}

\* What a user may try to set: type, state key and content.
sendable(u, state) ==
    {<<"member", v, room_member(m, Nobody)>> : v \in Person \ {u}, m \in Memberships}
    \cup {<<"member", u, room_member("leave", Nobody)>>, <<"member", u, room_member("join", Mod)>>}
    \cup {<<"join_rules", Nobody, [join_rule |-> r]>> : r \in Join_rules}
    \cup {<<"topic", k, [topic |-> "new"]>> : k \in {Nobody, Mod}}
    \cup {<<"power_levels", Nobody, c>> :
              c \in changed_levels(fetch_event(state["power_levels", Nobody]).content)}

\* The second server's clock is behind or ahead of the first one's.
clock(s) == IF s = 1 THEN {2} ELSE {1, 3}

\* A server creates a state event: authorized by the state it has, and appended to it.
\* The servers do not see each other's events, so that the first may send all of its own
\* before the second does.
create_hash_and_sign_event(s, u) ==
    /\ resolved = <<>> /\ Len(pdus) < 5 + MaxSent
    /\ s = 1 => \A k \in DOMAIN fork[2] : fork[2][k] <= 5
    /\ <<"power_levels", Nobody>> \in DOMAIN fork[s]
    /\ \E what \in sendable(u, fork[s]), ts \in clock(s) :
        LET bare == pdu(what[1], what[2], u, what[3], {}, {Len(pdus)}, ts)
            needs == auth_types_for_event(bare) \cap DOMAIN fork[s]
            e == [bare EXCEPT !.auth = {fork[s][k] : k \in needs}]
        IN /\ event_key(e) \in DOMAIN fork[s] =>
                 fetch_event(fork[s][event_key(e)]).content # e.content
           /\ auth_check(e, [k \in DOMAIN fork[s] |-> fetch_event(fork[s][k])])
           /\ pdus' = Append(pdus, e)
           /\ fork' = [fork EXCEPT ![s] = (event_key(e) :> e.id) @@ @]
    /\ UNCHANGED <<room_version, resolved>>

resolve_state ==
    /\ resolved = <<>>
    /\ resolved' \in resolve(fork, FALSE)
    /\ UNCHANGED <<room_version, pdus, fork>>

-----------------------------------------------------------------------------
\* The room: created, joined by the creator, with its power levels, join rule and Mod.
InitStateResOf(v) ==
    /\ room_version = v
    /\ pdus = LET e(i, type, k, u, c, a, p) ==
                      [id |-> i, type |-> type, state_key |-> k, sender |-> u, content |-> c,
                       auth |-> a, prev |-> p, origin_server_ts |-> 0]
                  levels == [RoomPowerLevelsEventContent EXCEPT
                                !.users[Creator] = 100, !.users[Mod] = 50]
              IN << e(1, "create", Nobody, Creator, [creator |-> Creator], {}, {}),
                    e(2, "member", Creator, Creator, room_member("join", Nobody), {1}, {1}),
                    e(3, "power_levels", Nobody, Creator, levels, {1, 2}, {2}),
                    e(4, "join_rules", Nobody, Creator, [join_rule |-> "public"], {1, 2, 3}, {3}),
                    e(5, "member", Mod, Mod, room_member("join", Nobody), {1, 3, 4}, {4}) >>
    /\ fork = [s \in 1 .. 2 |-> iterative_auth_check(<<1, 2, 3, 4, 5>>, <<>>)]
    /\ resolved = <<>>

InitStateRes == \E v \in Room_versions : InitStateResOf(v)
IdleStateRes == InitStateResOf(11)

stateResDone == resolved # <<>> /\ UNCHANGED stateResVars

NextStateRes ==
    \/ \E s \in 1 .. 2, u \in Person : create_hash_and_sign_event(s, u)
    \/ resolve_state
    \/ stateResDone

-----------------------------------------------------------------------------
StateResTypeOK ==
    /\ room_version \in DOMAIN RoomVersion
    /\ \A i \in 1 .. Len(pdus) : pdus[i].id = i /\ \A a \in pdus[i].auth : a < i
    /\ \A state \in {fork[1], fork[2], resolved} :
          \A k \in DOMAIN state : event_key(fetch_event(state[k])) = k

\* No fork takes the room from its creator: unless the creator sent power levels, or left,
\* their level is never lowered and they stay joined, whatever the other users send to
\* either server (auth_check) and however the two states are resolved (resolve).
CreatorKept ==
    LET sent(type) == \E i \in 6 .. Len(pdus) : pdus[i].type = type /\ pdus[i].sender = Creator
    IN \A state \in {fork[1], fork[2]} \cup ({resolved} \ {<<>>}) :
         LET found == [k \in DOMAIN state |-> fetch_event(state[k])]
         IN /\ sent("power_levels")
               \/ sender_power_level(fetch(found, "power_levels", Nobody), Creator) = 100
            /\ sent("power_levels") \/ sent("member")
               \/ membership_of(fetch(found, "member", Creator)) = "join"

\* "Sequentially auth check each control event": the resolved state is the one that the
\* sorted order of the events gives.
ResolvedInOrder ==
    resolved # <<>> => resolved \in resolve(fork, TRUE)
=============================================================================
