----------------------------- MODULE Membership -----------------------------
(***************************************************************************)
(* The membership of a room's users: the client routes that join, leave,   *)
(* invite, kick, ban, knock and forget, the federation routes that do the  *)
(* same for remote users, and the tables of rooms::state_cache they leave  *)
(* behind. A request is a list of the writes it still has to make; the     *)
(* writes of two requests interleave, except where the room's state mutex  *)
(* keeps them apart. Not every route takes that mutex.                     *)
(***************************************************************************)
EXTENDS Tasks, SequencesExt

CONSTANTS Local,        \* users of this server
          Remote,       \* users of the other server in the room
          Vouched,      \* users of ours in a room the restricted join rule names
          Moderator,    \* users whose power suffices to kick and ban
          Free          \* the state mutex when nobody holds it

ASSUME MembershipAssumption ==
    Local \cap Remote = {} /\ Vouched \subseteq Local /\ Free \notin Task

VARIABLES member,       \* the member events of the room's current state
          row,          \* the users with a row in each membership table
          counted,      \* roomid_joinedcount, roomid_invitedcount, roomserverids
          room_banned,  \* whether the room is banned on this server
          state_mutex,  \* the task in rooms::state::mutex for this room
          members_read, \* what update_joined_count of each request has read
          lockless,     \* users a row of whom was written without the mutex
          overlapped    \* whether two update_joined_count ever overlapped

membershipVars == <<member, row, counted, room_banned, state_mutex, members_read,
                    lockless, overlapped>>

Member == Local \cup Remote
Table == {"joined", "invited", "left", "knocked"}
TableOf == [join |-> "joined", invite |-> "invited", leave |-> "left", ban |-> "left"]
Our == "ours"
Their == "theirs"
NoCounts == [joined |-> 0, invited |-> 0, servers |-> {}]
server_name(u) == IF u \in Local THEN Our ELSE Their

is_joined(u) == u \in row["joined"]
is_invited(u) == u \in row["invited"]
is_left(u) == u \in row["left"]
is_knocked(u) == u \in row["knocked"]
server_in_room == Our \in counted.servers

-----------------------------------------------------------------------------
(* The writes a request is made of.                                        *)

\* mark_as_joined, mark_as_left, mark_as_invited: its own tables are put before
\* the others are removed. No caller reaches mark_as_knocked.
mark_as(u, m) == << [do |-> "put", u |-> u, t |-> TableOf[m]],
                    [do |-> "remove", u |-> u, t |-> TableOf[m]] >>

\* update_joined_count counts the members first and writes afterwards.
update_joined_count == << [do |-> "read_members"], [do |-> "write_counts"] >>

\* A knock writes no table. One of our users who leaves a banned room forgets it at
\* once. The counts are updated when the caller asks for it.
update_membership_ban_ignored(u, m, count) ==
    (IF m \in {"knock", "ban"} THEN <<>> ELSE mark_as(u, m))
    \o (IF count THEN update_joined_count ELSE <<>>)
update_membership(u, m, count) ==
    (IF m = "knock" THEN <<>> ELSE mark_as(u, m))
    \o (IF m \in {"leave", "ban"} /\ u \in Local
        THEN << [do |-> "forget", u |-> u] >> ELSE <<>>)
    \o (IF count THEN update_joined_count ELSE <<>>)

set_room_state(f) == << [do |-> "set_state", f |-> f] >>
unlock == << [do |-> "unlock"] >>

\* append_pdu updates the cache, then the room's state is set.
build_and_append_pdu(u, m) ==
    update_membership(u, m, TRUE) \o set_room_state([member EXCEPT ![u] = m])

\* Every member event of the new state is put in the cache, then the counts.
force_state(f) ==
    LET known == SetToSeq({u \in Member : f[u] # "none"})
    IN FlattenSeq([i \in 1 .. Len(known) |->
                        update_membership(known[i], f[known[i]], FALSE)])
       \o update_joined_count \o set_room_state(f)

\* Whether the room's state lets s give u the membership m (event_auth); the
\* room is joined by invitation.
member_auth_check(s, u, m) ==
    CASE m = "join"   -> s = u /\ member[u] \in {"invite", "join"}
      [] m = "invite" -> member[s] = "join" /\ member[u] \notin {"join", "ban"}
      [] m = "leave"  -> \/ s = u /\ member[u] \in {"join", "invite", "knock"}
                         \/ s # u /\ s \in Moderator /\ member[s] = "join"
      [] m = "ban"    -> s \in Moderator /\ member[s] = "join"
      [] m = "knock"  -> s = u /\ member[u] \notin {"ban", "invite", "join"}

-----------------------------------------------------------------------------
cacheVars == <<member, row, counted, room_banned, members_read, lockless, overlapped>>

\* A request is taken on, with the mutex held or not.
begin(q, held, steps) ==
    /\ begins(q, steps)
    /\ state_mutex' = IF held THEN q ELSE state_mutex
    /\ UNCHANGED cacheVars

goes_on_with(q, steps) == goes_on(q, steps) /\ UNCHANGED cacheVars

\* What every route below asks first, of users who are not admins.
banned_room_check == ~room_banned

(* Joining. The server joins locally when it is in the room or knows no     *)
(* other server, else through one; the mutex is held while that one answers.*)

\* A restricted room is joined with the help of a user of ours who can invite.
join_authorized(u) ==
    u \in Vouched /\ \E v \in row["joined"] \cap Local : member_auth_check(v, u, "invite")

join_room_by_id_helper(q, u, servers) ==
    /\ state_mutex = Free
    /\ ~is_joined(u) /\ member[u] # "ban"
    /\ begin(q, TRUE,
             IF ~server_in_room /\ servers # {} THEN << [do |-> "make_join", u |-> u] >>
             ELSE IF member_auth_check(u, u, "join") \/ join_authorized(u)
             THEN build_and_append_pdu(u, "join") \o unlock
             ELSE IF servers # {} THEN << [do |-> "join_fallback", u |-> u] >>
             ELSE unlock)

\* By the room's ID its own server is asked; by an alias, the servers it resolves to.
join_room_by_id_route(q, u) ==
    banned_room_check /\ join_room_by_id_helper(q, u, {Their})

join_room_by_id_or_alias_route(q, u) ==
    /\ banned_room_check
    /\ \E servers \in SUBSET {Their} : join_room_by_id_helper(q, u, servers)

make_join_request(q) ==
    /\ next_is(q, "make_join")
    /\ \/ goes_on_with(q, unlock)
       \/ goes_on_with(q, << [do |-> "send_join", u |-> now(q).u] >>)
    /\ UNCHANGED state_mutex

\* What the other server answers with: its users are joined, ours are as it was
\* told, and none of ours is joined.
send_join_state == [u \in Member |->
    CASE u \in Remote -> "join"
      [] u \in Local /\ is_invited(u) -> "invite"
      [] OTHER -> IF member[u] \in {"join", "invite"} THEN "leave" ELSE member[u]]

\* The answered state becomes the room's, then the join event is appended to it.
store_join_state(u) ==
    force_state(send_join_state) \o update_joined_count \o update_membership(u, "join", TRUE)
    \o set_room_state([send_join_state EXCEPT ![u] = "join"])

join_room_by_id_helper_remote(q) ==
    /\ next_is(q, "send_join")
    /\ \/ goes_on_with(q, unlock)
       \/ goes_on_with(q, store_join_state(now(q).u) \o unlock)
    /\ UNCHANGED state_mutex

\* A join this server could not authorise is sent through the other server; the
\* mutex is dropped before the event it signed is handled as an incoming one.
join_fallback_locked(q) ==
    /\ next_is(q, "join_fallback")
    /\ \/ goes_on_with(q, unlock)
       \/ goes_on_with(q, << [do |-> "incoming", s |-> now(q).u, u |-> now(q).u,
                         m |-> "join"] >>)
    /\ UNCHANGED state_mutex
join_room_by_id_helper_local(q) ==
    /\ next_is(q, "join_fallback")
    /\ \/ goes_on_with(q, unlock)
       \/ goes_on_with(q, unlock \o << [do |-> "incoming", s |-> now(q).u,
                                   u |-> now(q).u, m |-> "join"] >>)
    /\ UNCHANGED state_mutex

(* Leaving. A banned room, and a room this server is not in, are left      *)
(* without the mutex.                                                      *)
leave_room(q, u) ==
    /\ begin(q, FALSE,
             CASE room_banned -> update_membership(u, "leave", TRUE)
               [] ~room_banned /\ ~server_in_room /\ ~is_knocked(u) ->
                       << [do |-> "remote_leave", u |-> u] >>
               [] OTHER -> << [do |-> "leave_locked", u |-> u] >>)

\* We always drop the invite, whatever the other server answers.
remote_leave_room(q) ==
    /\ next_is(q, "remote_leave")
    /\ goes_on_with(q, update_membership(now(q).u, "leave", TRUE))
    /\ UNCHANGED state_mutex

leave_room_locked(q) ==
    /\ next_is(q, "leave_locked") /\ state_mutex = Free
    /\ state_mutex' = q
    /\ LET u == now(q).u
       IN goes_on_with(q, (CASE member[u] = "none" -> update_membership(u, "leave", TRUE)
                        [] member[u] # "none" /\ member_auth_check(u, u, "leave") ->
                               build_and_append_pdu(u, "leave")
                        [] OTHER -> <<>>) \o unlock)

(* Inviting. A remote user's invite is created under the mutex, which is   *)
(* dropped before the other server signs it.                               *)
invite_helper(q, s, u) ==
    /\ u # s
    /\ is_joined(s)
    /\ IF u \in Local
       THEN begin(q, FALSE, << [do |-> "invite_locked", s |-> s, u |-> u] >>)
       ELSE /\ state_mutex = Free /\ member_auth_check(s, u, "invite")
            /\ begin(q, TRUE, unlock \o << [do |-> "invite_answer"],
                                           [do |-> "incoming", s |-> s, u |-> u, m |-> "invite"] >>)

invite_locked(q) ==
    /\ next_is(q, "invite_locked") /\ state_mutex = Free
    /\ state_mutex' = q
    /\ LET s == now(q).s
           u == now(q).u
       IN goes_on_with(q, (IF member_auth_check(s, u, "invite")
                      THEN build_and_append_pdu(u, "invite") ELSE <<>>) \o unlock)

invite_answered(q) ==
    /\ next_is(q, "invite_answer")
    /\ \/ goes_on_with(q, <<>>)
       \/ ends_with(q, <<>>) /\ UNCHANGED cacheVars
    /\ UNCHANGED state_mutex

invite_user_route(q, s, u) == banned_room_check /\ invite_helper(q, s, u)

\* A remote user invites one of ours: recorded here only if this server is not in
\* the room, and without the mutex.
create_invite_route(q, u) ==
    /\ ~server_in_room /\ ~room_banned
    /\ begin(q, FALSE, update_membership(u, "invite", TRUE))

(* Kicking, banning and unbanning, each of them wholly under the mutex.    *)
kick_user_route(q, s, u) ==
    /\ state_mutex = Free /\ s # u
    /\ member[u] \in {"invite", "knock", "join"} /\ member_auth_check(s, u, "leave")
    /\ begin(q, TRUE, build_and_append_pdu(u, "leave") \o unlock)

ban_user_route(q, s, u) ==
    /\ state_mutex = Free /\ s # u /\ member_auth_check(s, u, "ban")
    /\ begin(q, TRUE, build_and_append_pdu(u, "ban") \o unlock)

unban_user_route(q, s, u) ==
    /\ state_mutex = Free
    /\ member[u] = "ban" /\ member_auth_check(s, u, "leave")
    /\ begin(q, TRUE, build_and_append_pdu(u, "leave") \o unlock)

(* Knocking leaves the membership tables as they are; through the other    *)
(* server, its stripped state, which has no members, becomes the room's.   *)
may_knock(u) == ~is_invited(u) /\ ~is_joined(u) /\ ~is_knocked(u) /\ member[u] # "ban"

knock_room_helper_local(q, u) ==
    /\ server_in_room /\ member_auth_check(u, u, "knock")
    /\ begin(q, TRUE, build_and_append_pdu(u, "knock") \o unlock)

knock_room_helper_remote(q, u) ==
    /\ ~server_in_room
    /\ LET f == [w \in Member |-> "none"]
       IN begin(q, TRUE, force_state(f) \o update_membership(u, "knock", TRUE)
                         \o set_room_state([f EXCEPT ![u] = "knock"]) \o unlock)

knock_room_by_id_helper(q, u) ==
    /\ state_mutex = Free /\ may_knock(u)
    /\ knock_room_helper_local(q, u) \/ knock_room_helper_remote(q, u)

knock_room_route(q, u) == banned_room_check /\ knock_room_by_id_helper(q, u)

(* Events of the other server: a user of theirs joins, leaves or knocks     *)
(* through this server, or a moderator of theirs removes somebody. None of  *)
(* these routes takes the state mutex before the event is upgraded.         *)
exists == \E u \in Member : member[u] # "none"
handle_incoming_pdu(q, s, u, m) ==
    /\ exists /\ ~room_banned
    /\ begin(q, FALSE, << [do |-> "incoming", s |-> s, u |-> u, m |-> m] >>)

create_join_event(q, u) == handle_incoming_pdu(q, u, u, "join")
create_leave_event(q, u) == handle_incoming_pdu(q, u, u, "leave")
create_knock_event(q, u) == handle_incoming_pdu(q, u, u, "knock")
send_transaction(q, s, u, m) ==
    server_in_room /\ u # s /\ m \in {"leave", "ban"} /\ handle_incoming_pdu(q, s, u, m)

\* A join the room's state does not allow by itself carries the name of a user of the
\* other server who authorised it.
upgrade_outlier_to_timeline_pdu(q) ==
    /\ next_is(q, "incoming") /\ state_mutex = Free
    /\ state_mutex' = q
    /\ LET e == now(q)
       IN goes_on_with(q, (IF member_auth_check(e.s, e.u, e.m) \/ (e.m = "join" /\ member[e.u] # "ban")
                      THEN force_state([member EXCEPT ![e.u] = e.m])
                           \o update_membership(e.u, e.m, TRUE)
                      ELSE <<>>) \o unlock)

(* The room is forgotten, or banned by an admin.                           *)
forget_room_route(u) ==
    /\ ~is_joined(u) /\ ~is_knocked(u) /\ ~is_invited(u)
    /\ member[u] # "none" /\ is_left(u)
    /\ row' = [row EXCEPT !["left"] = @ \ {u}]
    /\ UNCHANGED <<member, counted, room_banned, state_mutex, members_read, lockless, overlapped,
                   taskVars>>

\* The admin command bans the room and makes every user of ours leave it.
ban_room(q) ==
    /\ ~room_banned
    /\ room_banned' = TRUE
    /\ LET ours == SetToSeq(row["joined"] \cap Local)
       IN begins(q, FlattenSeq([i \in 1 .. Len(ours) |->
                        update_membership(ours[i], "leave", TRUE)]) \o << [do |-> "banned"] >>)
    /\ UNCHANGED <<member, row, counted, state_mutex, members_read, lockless, overlapped>>

room_is_banned(q) ==
    /\ next_is(q, "banned") /\ steps_on(q)
    /\ UNCHANGED <<cacheVars, state_mutex>>

unban_room(q) ==
    /\ room_banned
    /\ room_banned' = FALSE
    /\ begins(q, << [do |-> "banned"] >>)
    /\ UNCHANGED <<member, row, counted, state_mutex, members_read, lockless, overlapped>>

-----------------------------------------------------------------------------
(* One write of a request.                                                 *)

others_removed(u, t) == [s \in Table |-> IF s = t THEN row[s] ELSE row[s] \ {u}]

write_row(q) ==
    /\ \/ /\ next_is(q, "put")
          /\ row' = [row EXCEPT ![now(q).t] = @ \cup {now(q).u}]
       \/ /\ next_is(q, "remove")
          /\ row' = others_removed(now(q).u, now(q).t)
       \/ /\ next_is(q, "forget")
          /\ row' = [row EXCEPT !["left"] = IF room_banned THEN @ \ {now(q).u} ELSE @]
    /\ lockless' = IF state_mutex = q THEN lockless ELSE lockless \cup {now(q).u}
    /\ steps_on(q)
    /\ UNCHANGED <<member, counted, room_banned, state_mutex, members_read, overlapped>>

read_members(q) ==
    /\ next_is(q, "read_members")
    /\ members_read' = [members_read EXCEPT ![q] =
            [joined |-> Cardinality(row["joined"]), invited |-> Cardinality(row["invited"]),
             servers |-> {server_name(u) : u \in row["joined"]}]]
    /\ overlapped' = (overlapped \/ \E p \in Task \ {q} : next_is(p, "write_counts"))
    /\ steps_on(q)
    /\ UNCHANGED <<member, row, counted, room_banned, state_mutex, lockless>>

write_counts(q) ==
    /\ next_is(q, "write_counts")
    /\ counted' = members_read[q]
    /\ members_read' = [members_read EXCEPT ![q] = NoCounts]
    /\ steps_on(q)
    /\ UNCHANGED <<member, row, room_banned, state_mutex, lockless, overlapped>>

state_is_set(q) ==
    /\ next_is(q, "set_state")
    /\ member' = now(q).f
    /\ steps_on(q)
    /\ UNCHANGED <<row, counted, room_banned, state_mutex, members_read, lockless, overlapped>>

unlocked(q) ==
    /\ next_is(q, "unlock")
    /\ state_mutex' = Free
    /\ steps_on(q)
    /\ UNCHANGED <<member, row, counted, room_banned, members_read, lockless, overlapped>>

-----------------------------------------------------------------------------
\* The room is ours, with one of our users in it, or theirs, with none.
InitMembershipOf(joined) ==
    /\ member = [w \in Member |-> IF w \in joined THEN "join" ELSE "none"]
    /\ row = [t \in Table |-> IF t = "joined" THEN joined ELSE {}]
    /\ counted = IF joined = {} THEN NoCounts
                 ELSE [joined |-> 1, invited |-> 0, servers |-> {Our}]
    /\ room_banned = FALSE
    /\ state_mutex = Free
    /\ members_read = [q \in Task |-> NoCounts]
    /\ lockless = {}
    /\ overlapped = FALSE

InitMembership == \E joined \in {{}} \cup {{u} : u \in Local} : InitMembershipOf(joined)
IdleMembership == InitMembershipOf({})

membershipDone == all_idle /\ UNCHANGED <<membershipVars, taskVars>>

NextMembership ==
    \/ \E q \in Task :
        \/ \E u \in Local :
            \/ join_room_by_id_route(q, u)
            \/ join_room_by_id_or_alias_route(q, u)
            \/ leave_room(q, u)
            \/ create_invite_route(q, u)
            \/ knock_room_route(q, u)
        \/ \E s \in Local, u \in Member :
            \/ invite_user_route(q, s, u)
            \/ kick_user_route(q, s, u)
            \/ ban_user_route(q, s, u)
            \/ unban_user_route(q, s, u)
        \/ \E s \in Remote :
            \/ create_join_event(q, s)
            \/ create_leave_event(q, s)
            \/ create_knock_event(q, s)
            \/ \E u \in Member, m \in {"leave", "ban"} : send_transaction(q, s, u, m)
        \/ make_join_request(q)
        \/ join_room_by_id_helper_remote(q)
        \/ join_room_by_id_helper_local(q)
        \/ remote_leave_room(q)
        \/ leave_room_locked(q)
        \/ invite_locked(q)
        \/ invite_answered(q)
        \/ upgrade_outlier_to_timeline_pdu(q)
        \/ write_row(q)
        \/ read_members(q)
        \/ write_counts(q)
        \/ state_is_set(q)
        \/ unlocked(q)
        \/ ban_room(q)
        \/ room_is_banned(q)
        \/ unban_room(q)
    \/ \E u \in Local : forget_room_route(u)
    \/ membershipDone

-----------------------------------------------------------------------------
MembershipTypeOK ==
    /\ member \in [Member -> {"none", "join", "invite", "leave", "ban", "knock"}]
    /\ row \in [Table -> SUBSET Member]
    /\ counted.servers \subseteq {Our, Their}
    /\ state_mutex \in Task \cup {Free}

marking(u) == \E q \in Task : \E i \in 1 .. Len(work[q]) :
                 work[q][i].do \in {"put", "remove"} /\ work[q][i].u = u
counting == pending({"put", "remove", "read_members", "write_counts"})

\* The membership tables agree with each other and with the room's state. A user whom no
\* request is marking has a row in one table at most, although the route that rejects an
\* invite marks without the mutex: each mark_as_* puts its own row before it removes the
\* others. And whenever the state mutex is free, is_joined says yes of a user of ours only
\* if the state has them joined, and of each one joined, unless a route without the mutex
\* has written a row of theirs meanwhile. The counts and the list of servers of
\* update_joined_count are those of the rows once no request is writing, unless two updates
\* overlapped, as only a route without the mutex can make them.
MembershipTablesAgree ==
    /\ \A u \in Member : ~marking(u) => Cardinality({t \in Table : u \in row[t]}) <= 1
    /\ state_mutex = Free /\ ~overlapped =>
        \A u \in Local : /\ is_joined(u) => member[u] = "join"
                         /\ member[u] = "join" => is_joined(u) \/ u \in lockless
    /\ ~counting /\ ~overlapped =>
        /\ counted.joined = Cardinality(row["joined"])
        /\ counted.invited = Cardinality(row["invited"])
        /\ counted.servers = {server_name(u) : u \in row["joined"]}

\* No request waits for the state mutex it holds itself: the routes that hand an
\* event on to handle_incoming_pdu, which locks, have dropped their guard.
NeverWaitsForItself ==
    \A q \in Task :
        ~idle(q) /\ now(q).do \in {"incoming", "leave_locked", "invite_locked"}
        => state_mutex # q
=============================================================================
