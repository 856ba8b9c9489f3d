--------------------------- MODULE RoomDirectory ---------------------------
(***************************************************************************)
(* Rooms of this server from their creation to their replacement or ban,   *)
(* and the names they are found by: the creation of a room one event after *)
(* the other, its upgrade to a new room, the three tables of the aliases,  *)
(* the room directory, and the admin's bans. The events of a room are sent *)
(* under its state mutex; the tables are not locked.                       *)
(***************************************************************************)
EXTENDS Tasks, FiniteSetsExt, SequencesExt

CONSTANTS NewRoom, OldRoom, \* rooms yet to be made, and one that there is
          Alias,            \* local room aliases
          AdminAlias,       \* the one only the server user may set
          Resident,         \* local users
          ServerUser,
          MaxStopped        \* bound: crashes

VARIABLES alias_userid,   \* who set an alias
          alias_roomid,   \* the room of an alias
          aliasid_alias,  \* the aliases of a room
          publicroomids, bannedroomids, disabledroomids,
          room_state,     \* the kinds of state events of each room
          residents,      \* local users joined to each room
          room_lock,      \* who holds the state mutex of each room
          taken,          \* room IDs that are in use
          stopped,        \* crashes so far
          contested,      \* aliases that two requests wrote at once, or a crash cut off
          swept           \* listings that went when another alias of the room was removed

aliasVars == <<alias_userid, alias_roomid, aliasid_alias, contested, swept>>
listVars == <<publicroomids, bannedroomids, disabledroomids>>
roomVars == <<room_state, residents, room_lock, taken>>
directoryVars == <<aliasVars, listVars, roomVars, stopped>>

Room == NewRoom \cup {OldRoom}
Open == "open"
NoAlias == "none"
without(f, x) == [y \in DOMAIN f \ {x} |-> f[y]]

resolve_local_alias(a) == {r \in Room : a \in DOMAIN alias_roomid /\ alias_roomid[a] = r}
local_aliases_for_room(r) == {x[2] : x \in {y \in aliasid_alias : y[1] = r}}

\* The creator of an alias may remove it, and who may change the room's canonical alias;
\* so may admins and the server user.
user_can_remove_alias(a, u, trusted) ==
    /\ resolve_local_alias(a) # {}
    /\ trusted \/ u = ServerUser \/ (a \in DOMAIN alias_userid /\ alias_userid[a] = u)

-----------------------------------------------------------------------------
(* What the requests consist of.                                           *)

\* "Comes first as we don't want a stuck alias": the owner, the room, the listing.
set_alias_room_first(a, r, u) ==
    IF a = AdminAlias /\ u # ServerUser THEN <<>>
    ELSE <<[do |-> "put_room", alias |-> a, room |-> r], [do |-> "put_owner", alias |-> a, user |-> u],
           [do |-> "put_listing", alias |-> a, room |-> r]>>
set_alias(a, r, u) ==
    IF a = AdminAlias /\ u # ServerUser THEN <<>>
    ELSE <<[do |-> "put_owner", alias |-> a, user |-> u], [do |-> "put_room", alias |-> a, room |-> r],
           [do |-> "put_listing", alias |-> a, room |-> r]>>

remove_alias(a, u) == <<[do |-> "remove_alias", alias |-> a, user |-> u]>>

\* An event is appended to the room, under a mutex.
send(r, kind, u) == <<[do |-> "event", room |-> r, kind |-> kind, user |-> u]>>
send_all(r, kinds, u) == FlattenSeq([i \in DOMAIN kinds |-> send(r, kinds[i], u)])

lock_room(r) == <<[do |-> "lock_room", room |-> r]>>
unlock_room(r) == <<[do |-> "unlock_room", room |-> r]>>

room_request(t, steps) == begins(t, steps) /\ UNCHANGED directoryVars

\* What a new room gets after its create event.
create_room_state(r, u, a) ==
    send_all(r, <<"member", "power_levels">>, u)
    \o (IF a = NoAlias THEN <<>> ELSE send(r, "canonical_alias", u))
    \o send_all(r, <<"join_rules", "history_visibility", "guest_access", "initial_state", "name">>, u)

\* Without the mutex: the invites, the alias, and the directory.
create_room_publication(r, u, a, visible) ==
    <<[do |-> "invite", room |-> r]>>
    \o (IF a = NoAlias THEN <<>> ELSE set_alias(a, r, u))
    \o (IF visible THEN <<[do |-> "set_public", room |-> r]>> ELSE <<>>)

\* The alias is checked under the new room's mutex, and set after it has been released.
create_room_route(t, u, r, a, visible) ==
    /\ r \in NewRoom \ taken
    /\ taken' = taken \cup {r}
    /\ begins(t, lock_room(r)
                 \o (IF a = NoAlias THEN <<>> ELSE <<[do |-> "alias_check", alias |-> a]>>)
                 \o send(r, "create", u) \o create_room_state(r, u, a)
                 \o unlock_room(r) \o create_room_publication(r, u, a, visible))
    /\ UNCHANGED <<aliasVars, listVars, room_state, residents, room_lock, stopped>>

\* Nobody may speak in the old room any more.
freeze_old_room(r, u) == send(r, "frozen", u)

\* The state is copied and the aliases moved once the tombstone is sent. The power levels
\* of the old room are changed while the mutex of the new one is held.
upgrade_room_route(t, u, r, new) ==
    /\ new \in NewRoom \ taken /\ r \in taken
    /\ taken' = taken \cup {new}
    /\ begins(t, lock_room(r) \o send(r, "tombstone", u) \o unlock_room(r) \o lock_room(new)
                 \o send_all(new, <<"create", "member">>, u)
                 \o <<[do |-> "transfer", room |-> r, new |-> new, user |-> u],
                      [do |-> "move_aliases", room |-> r, new |-> new, user |-> u]>>
                 \o freeze_old_room(r, u) \o unlock_room(new))
    /\ UNCHANGED <<aliasVars, listVars, room_state, residents, room_lock, stopped>>

\* The alias is looked up, and then set.
create_alias_route(t, a, r, u) ==
    /\ resolve_local_alias(a) = {}
    /\ room_request(t, set_alias(a, r, u))

delete_alias_route(t, a, u) == room_request(t, remove_alias(a, u))

\* The admin may also take an alias from a room.
admin_alias_set(t, a, r) == room_request(t, set_alias(a, r, ServerUser))
admin_alias_remove(t, a) == resolve_local_alias(a) # {} /\ room_request(t, remove_alias(a, ServerUser))

join_room(t, u, r) ==
    /\ r \in taken \ bannedroomids
    /\ room_request(t, lock_room(r) \o send(r, "member", u) \o unlock_room(r))

set_room_visibility_route(t, r, visible) ==
    /\ room_state[r] # {}
    /\ room_request(t, <<[do |-> IF visible THEN "set_public" ELSE "set_not_public", room |-> r]>>)

\* The ban comes first; users are made to leave one by one, then the aliases go.
ban(r) == <<[do |-> "ban", room |-> r], [do |-> "evict", room |-> r], [do |-> "drop_aliases", room |-> r],
            [do |-> "set_not_public", room |-> r], [do |-> "disable", room |-> r]>>

bans_room(t, r) == room_request(t, ban(r))

\* Several rooms, one after the other.
ban_list_of_rooms(t, rooms) ==
    LET q == SetToSeq(rooms)
    IN room_request(t, FlattenSeq([i \in DOMAIN q |-> ban(q[i])]))

unbans_room(t, r) ==
    /\ begins(t, <<[do |-> "enable", room |-> r]>>)
    /\ bannedroomids' = bannedroomids \ {r}
    /\ UNCHANGED <<aliasVars, publicroomids, disabledroomids, roomVars, stopped>>

-----------------------------------------------------------------------------
(* Their steps.                                                            *)

\* The guard is dropped with the request, however it ends.
releases(t) == room_lock' = [r \in Room |-> IF room_lock[r] = t THEN Open ELSE room_lock[r]]

takes_room_lock(t) ==
    /\ next_is(t, "lock_room") /\ room_lock[now(t).room] = Open
    /\ room_lock' = [room_lock EXCEPT ![now(t).room] = t]
    /\ steps_on(t)
    /\ UNCHANGED <<aliasVars, listVars, room_state, residents, taken, stopped>>

drops_room_lock(t) ==
    /\ next_is(t, "unlock_room")
    /\ room_lock' = [room_lock EXCEPT ![now(t).room] = Open]
    /\ steps_on(t)
    /\ UNCHANGED <<aliasVars, listVars, room_state, residents, taken, stopped>>

room_alias_check(t) ==
    /\ next_is(t, "alias_check")
    /\ IF resolve_local_alias(now(t).alias) = {} THEN steps_on(t) /\ UNCHANGED room_lock
       ELSE ends_with(t, <<>>) /\ releases(t)
    /\ UNCHANGED <<aliasVars, listVars, room_state, residents, taken, stopped>>

\* An event may be refused. A request that sends several stops there, and what it has
\* sent so far stays.
appends_pdu(t) ==
    LET s == now(t)
    IN /\ next_is(t, "event")
       /\ \/ /\ room_state' = [room_state EXCEPT ![s.room] = @ \cup {s.kind}]
             /\ residents' = IF s.kind = "member" THEN residents \cup {<<s.room, s.user>>} ELSE residents
             /\ steps_on(t) /\ UNCHANGED room_lock
          \/ /\ s.kind \in {"tombstone", "initial_state", "canonical_alias", "frozen", "member"}
             /\ ends_with(t, <<>>) /\ releases(t)
             /\ UNCHANGED <<room_state, residents>>
       /\ UNCHANGED <<aliasVars, listVars, taken, stopped>>

\* An invite that fails is logged.
sends_invite(t) ==
    /\ next_is(t, "invite") /\ room_lock[now(t).room] = Open
    /\ \E sent \in SUBSET {"invite"} : room_state' = [room_state EXCEPT ![now(t).room] = @ \cup sent]
    /\ steps_on(t)
    /\ UNCHANGED <<aliasVars, listVars, residents, room_lock, taken, stopped>>

TRANSFERABLE_STATE_EVENTS ==
    {"canonical_alias", "guest_access", "history_visibility", "join_rules", "name", "power_levels"}

transfer(t) ==
    LET s == now(t)
    IN /\ next_is(t, "transfer")
       /\ room_state' = [room_state EXCEPT ![s.new] = @ \cup (room_state[s.room] \cap TRANSFERABLE_STATE_EVENTS)]
       /\ steps_on(t)
       /\ UNCHANGED <<aliasVars, listVars, residents, room_lock, taken, stopped>>

\* The aliases are those listed when the first is read.
move_aliases(t) ==
    LET s == now(t)
        q == SetToSeq(local_aliases_for_room(s.room))
    IN /\ next_is(t, "move_aliases")
       /\ goes_on(t, FlattenSeq([i \in DOMAIN q |-> remove_alias(q[i], s.user) \o set_alias(q[i], s.new, s.user)]))
       /\ UNCHANGED directoryVars

\* A write to an alias that another request is also changing.
beside_alias(t, a) ==
    {b \in {a} : \E s \in Task \ {t} : \E i \in DOMAIN work[s] :
        work[s][i].do \in {"put_owner", "put_room", "put_listing", "sweep", "drop_room", "drop_owner"}
        /\ work[s][i].alias = b}
writes_alias(t) ==
    /\ contested' = contested \cup beside_alias(t, now(t).alias)
    /\ steps_on(t)
    /\ UNCHANGED <<listVars, roomVars, stopped>>

put_owner(t) ==
    /\ next_is(t, "put_owner") /\ writes_alias(t)
    /\ alias_userid' = (now(t).alias :> now(t).user) @@ alias_userid
    /\ UNCHANGED <<alias_roomid, aliasid_alias, swept>>

put_room(t) ==
    /\ next_is(t, "put_room") /\ writes_alias(t)
    /\ alias_roomid' = (now(t).alias :> now(t).room) @@ alias_roomid
    /\ UNCHANGED <<alias_userid, aliasid_alias, swept>>

put_listing(t) ==
    /\ next_is(t, "put_listing") /\ writes_alias(t)
    /\ aliasid_alias' = aliasid_alias \cup {<<now(t).room, now(t).alias>>}
    /\ swept' = swept \ {<<now(t).room, now(t).alias>>}
    /\ UNCHANGED <<alias_userid, alias_roomid>>

\* A removal that is not permitted, or finds no alias, ends the request; the admin's bans
\* go on.
begin_remove_alias(t) ==
    LET s == now(t)
        steps == <<[do |-> "sweep", alias |-> s.alias, room |-> alias_roomid[s.alias]],
                   [do |-> "drop_room", alias |-> s.alias], [do |-> "drop_owner", alias |-> s.alias]>>
    IN /\ next_is(t, "remove_alias")
       /\ \E trusted \in BOOLEAN :
            IF user_can_remove_alias(s.alias, s.user, trusted)
            THEN goes_on(t, steps) /\ UNCHANGED room_lock
            ELSE IF s.user = ServerUser THEN steps_on(t) /\ UNCHANGED room_lock
            ELSE ends_with(t, <<>>) /\ releases(t)
       /\ UNCHANGED <<aliasVars, listVars, room_state, residents, taken, stopped>>

\* All listings of the room go, those of its other aliases as well.
sweep(t) ==
    LET gone == {x \in aliasid_alias : x[1] = now(t).room}
    IN /\ next_is(t, "sweep") /\ writes_alias(t)
       /\ aliasid_alias' = aliasid_alias \ gone
       /\ swept' = swept \cup {x \in gone : x[2] # now(t).alias}
       /\ UNCHANGED <<alias_userid, alias_roomid>>

drop_room(t) ==
    /\ next_is(t, "drop_room") /\ writes_alias(t)
    /\ alias_roomid' = without(alias_roomid, now(t).alias)
    /\ UNCHANGED <<alias_userid, aliasid_alias, swept>>

drop_owner(t) ==
    /\ next_is(t, "drop_owner") /\ writes_alias(t)
    /\ alias_userid' = without(alias_userid, now(t).alias)
    /\ UNCHANGED <<alias_roomid, aliasid_alias, swept>>

set_public(t) ==
    /\ next_is(t, "set_public") /\ steps_on(t)
    /\ publicroomids' = publicroomids \cup {now(t).room}
    /\ UNCHANGED <<aliasVars, bannedroomids, disabledroomids, roomVars, stopped>>

evict(t) ==
    /\ next_is(t, "evict") /\ room_lock[now(t).room] = Open
    /\ IF {x \in residents : x[1] = now(t).room} = {} THEN steps_on(t) /\ UNCHANGED residents
       ELSE /\ \E x \in residents : x[1] = now(t).room /\ residents' = residents \ {x}
            /\ UNCHANGED taskVars
    /\ UNCHANGED <<aliasVars, listVars, room_state, room_lock, taken, stopped>>

ban_row(t) ==
    /\ next_is(t, "ban") /\ steps_on(t)
    /\ bannedroomids' = bannedroomids \cup {now(t).room}
    /\ UNCHANGED <<aliasVars, publicroomids, disabledroomids, roomVars, stopped>>

drop_aliases(t) ==
    LET q == SetToSeq(local_aliases_for_room(now(t).room))
    IN /\ next_is(t, "drop_aliases")
       /\ goes_on(t, FlattenSeq([i \in DOMAIN q |-> remove_alias(q[i], ServerUser)]))
       /\ UNCHANGED directoryVars

set_not_public(t) ==
    /\ next_is(t, "set_not_public") /\ steps_on(t)
    /\ publicroomids' = publicroomids \ {now(t).room}
    /\ UNCHANGED <<aliasVars, bannedroomids, disabledroomids, roomVars, stopped>>

disable_room(t) ==
    /\ next_is(t, "disable") \/ next_is(t, "enable")
    /\ disabledroomids' = IF next_is(t, "disable") THEN disabledroomids \cup {now(t).room}
                          ELSE disabledroomids \ {now(t).room}
    /\ steps_on(t)
    /\ UNCHANGED <<aliasVars, publicroomids, bannedroomids, roomVars, stopped>>

server_stops ==
    LET cut == {a \in Alias : \E t \in Task : \E i \in DOMAIN work[t] :
                    work[t][i].do \in {"put_listing", "drop_room"} /\ work[t][i].alias = a}
    IN /\ stopped < MaxStopped /\ stopped' = stopped + 1
       /\ work' = [t \in Task |-> <<>>]
       /\ room_lock' = [r \in Room |-> Open]
       /\ swept' = swept \cup (Room \X cut)
       /\ UNCHANGED <<alias_userid, alias_roomid, aliasid_alias, contested, listVars, room_state,
                      residents, taken, started>>

\* A room that is in use: its aliases, if it has any, were set by one of its users.
IdleRoomDirectory ==
    /\ alias_userid = <<>> /\ alias_roomid = <<>> /\ aliasid_alias = {} /\ contested = {} /\ swept = {}
    /\ publicroomids = {} /\ bannedroomids = {} /\ disabledroomids = {}
    /\ room_state = [r \in Room |-> {}] /\ residents = {} /\ room_lock = [r \in Room |-> Open]
    /\ taken = {OldRoom} /\ stopped = 0

InitRoomDirectory ==
    \E named \in {{}, Alias}, u \in Resident :
        /\ alias_userid = [a \in named |-> IF a = AdminAlias THEN ServerUser ELSE u]
        /\ alias_roomid = [a \in named |-> OldRoom]
        /\ aliasid_alias = {OldRoom} \X named /\ contested = {} /\ swept = {}
        /\ publicroomids = {} /\ bannedroomids = {} /\ disabledroomids = {}
        /\ room_state = [r \in Room |-> IF r = OldRoom
                            THEN {"create", "member", "power_levels", "join_rules"} ELSE {}]
        /\ residents = {<<OldRoom, u>>} /\ room_lock = [r \in Room |-> Open]
        /\ taken = {OldRoom} /\ stopped = 0

roomDirectoryDone == all_idle /\ started = MaxStarted /\ UNCHANGED <<directoryVars, taskVars>>

NextRoomDirectory ==
    \/ \E t \in Task, u \in Resident, r \in Room :
        \/ \E a \in Alias :
            \/ \E visible \in BOOLEAN : create_room_route(t, u, r, a, visible)
            \/ create_alias_route(t, a, r, u) \/ delete_alias_route(t, a, u)
            \/ admin_alias_set(t, a, r) \/ admin_alias_remove(t, a)
        \/ \E visible \in BOOLEAN :
            create_room_route(t, u, r, NoAlias, visible) \/ set_room_visibility_route(t, r, visible)
        \/ \E new \in NewRoom : upgrade_room_route(t, u, r, new)
        \/ join_room(t, u, r) \/ bans_room(t, r) \/ unbans_room(t, r)
    \/ \E t \in Task : NewRoom \subseteq taken /\ ban_list_of_rooms(t, taken)
    \/ \E t \in Task :
        \/ takes_room_lock(t) \/ drops_room_lock(t) \/ room_alias_check(t) \/ appends_pdu(t)
        \/ sends_invite(t) \/ transfer(t) \/ move_aliases(t) \/ set_public(t)
        \/ put_owner(t) \/ put_room(t) \/ put_listing(t)
        \/ begin_remove_alias(t) \/ sweep(t) \/ drop_room(t) \/ drop_owner(t)
        \/ ban_row(t) \/ evict(t) \/ drop_aliases(t) \/ set_not_public(t) \/ disable_room(t)
    \/ server_stops
    \/ roomDirectoryDone

-----------------------------------------------------------------------------
RoomDirectoryTypeOK ==
    /\ DOMAIN alias_roomid \subseteq Alias /\ DOMAIN alias_userid \subseteq Alias
    /\ aliasid_alias \subseteq Room \X Alias /\ residents \subseteq Room \X Resident
    /\ room_lock \in [Room -> Task \cup {Open}]

\* An alias that resolves to a room has an owner, who can remove it, at every moment and
\* also after a crash: the order of the writes in set_alias and remove_alias sees to it.
\* And once nothing is being done to it, its room lists it, so that an upgrade moves it
\* and a ban removes it. Excepted are aliases that two requests changed at the same time,
\* since the three tables are not written together; and listings that are lost to a crash,
\* or to remove_alias, which removes those of all the room's aliases.
AliasesAgree ==
    \A a \in DOMAIN alias_roomid \ contested :
        /\ a \in DOMAIN alias_userid
        /\ \/ <<alias_roomid[a], a>> \in aliasid_alias \cup swept
           \/ \E t \in Task : \E i \in DOMAIN work[t] :
                work[t][i].do \in {"put_listing", "drop_room"} /\ work[t][i].alias = a
=============================================================================
