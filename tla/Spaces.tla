------------------------------- MODULE Spaces -------------------------------
(***************************************************************************)
(* The hierarchy of a space: clients page through it, other servers ask    *)
(* for one level of it. Both look rooms up through a cache of summaries,   *)
(* which events that change the children of a room take entries out of.    *)
(* A summary is read from the room's state first and cached afterwards.    *)
(***************************************************************************)
EXTENDS Tasks, SequencesExt, FiniteSetsExt, TLC

CONSTANTS OurSpace, TheirSpace, \* rooms with state here, and rooms elsewhere (numbers: room
                                \* IDs are ordered)
          Suggested,            \* rooms their parents suggest
          Visitor, Asker,       \* local users; other servers
          Denied,               \* <<server, room>> pairs an ACL event denies
          Joined,               \* <<user or server, room>> pairs
          Allowed,              \* the rooms whose members a restricted room lets in
          Join_rule,            \* of every room
          Hierarchy,            \* the children that rooms have to begin with
          Wanted,               \* the limit, max_depth and suggested_only of requests
          MaxForgotten          \* bound: evictions from the cache

ASSUME SpacesAssumption == OurSpace \cup TheirSpace \subseteq Nat \ {0} /\ OurSpace \cap TheirSpace = {}

VARIABLES space_children,               \* the children of each room, in its current state
          roomid_spacehierarchy_cache,
          forgotten,                    \* evictions so far
          stale                         \* rooms whose children changed while a summary was
                                        \* being read or after it was cached

spaceVars == <<space_children, roomid_spacehierarchy_cache, forgotten, stale>>

Space == OurSpace \cup TheirSpace
no_summary(id) == [room_id |-> id, children |-> <<>>]
Unknown == no_summary(0)        \* the room could not be fetched; cached as well
Inaccessible == no_summary(-1)
Failed == <<0>>                 \* instead of the rooms of a page: an error
ordered_ids(S) == SetToSortSeq(S, <)
cache == roomid_spacehierarchy_cache

\* What is cached of a room; children_state has one event for each child.
summary(r) == [room_id |-> r, children |-> ordered_ids(space_children[r])]

is_accessible_child(r, described, id) ==
    /\ id \in Asker => <<id, r>> \notin Denied
    /\ \/ id \in Visitor /\ <<id, r>> \in Joined
       \/ Join_rule[described] = "public"
       \/ Join_rule[described] = "restricted" /\ \E x \in Allowed : <<id, x>> \in Joined

get_parent_children_via(s, suggested_only) ==
    SelectSeq(s.children, LAMBDA c : suggested_only => c \in Suggested)

\* Rooms this server has no state of have no short ID.
get_shortroomid(S) == ordered_ids(S \cap OurSpace)

-----------------------------------------------------------------------------
(* A page of the hierarchy.                                                *)

get_hierarchy(t, u, root, wanted) ==
    /\ begins(t, <<[do |-> "look", walk |-> [who |-> u, root |-> root, queue |-> <<root>>,
                                             rooms |-> <<>>, parents |-> {}, token |-> <<>>,
                                             limit |-> wanted.limit, max_depth |-> wanted.max_depth,
                                             suggested_only |-> wanted.suggested_only, seen |-> {}]]>>)
    /\ UNCHANGED spaceVars

\* The children from the one that the token names at this place on.
skip_to_token(kids, token, at) ==
    LET stop == {i \in DOMAIN kids : kids[i] \notin OurSpace \/ kids[i] = token[at]}
    IN  IF stop = {} THEN <<>> ELSE SubSeq(kids, Min(stop), Len(kids))

\* The walk goes on to the room at the front of the queue, or the answer is made.
go_on(w) == [do |-> IF w.queue = <<>> THEN "answer" ELSE "look", walk |-> w]
refuse(w) == [do |-> "answer", walk |-> [w EXCEPT !.rooms = Failed]]

\* One turn of the loop of get_client_hierarchy, once the lookup has returned.
visit(w, found) ==
    LET r == Head(w.queue)
        rest == Tail(w.queue)
        noted == [w EXCEPT !.queue = rest,
                           !.seen = @ \cup {[room |-> r, found |-> found,
                                             now |-> space_children[r], stale |-> r \in stale]}]
    IN  IF found \in {Unknown, Inaccessible}
        THEN IF r = w.root THEN refuse(noted) ELSE go_on(noted)
        ELSE LET populate == Cardinality(w.parents) >= Len(w.token)
                 all == SelectSeq(get_parent_children_via(found, w.suggested_only),
                                  LAMBDA c : c \notin w.parents)
                 kids == Reverse(IF populate THEN all
                                 ELSE skip_to_token(all, w.token, Cardinality(w.parents) + 1))
                 met == [noted EXCEPT !.parents = @ \cup {r},
                                      !.rooms = IF populate THEN Append(@, found.room_id) ELSE @]
             IN  IF ~populate /\ rest = <<>> /\ kids = <<>> THEN refuse(noted)
                 ELSE IF Len(met.rooms) >= w.limit THEN [do |-> "answer", walk |-> met]
                 ELSE IF Cardinality(met.parents) > w.max_depth THEN go_on(met)
                 ELSE go_on([met EXCEPT !.queue = rest \o kids])

\* One turn of the federation handler: the room asked for, then each of its children.
serve(w, found) ==
    LET r == Head(w.queue)
    IN  IF found \in {Unknown, Inaccessible}
        THEN IF w.parents = {} THEN refuse(w) ELSE go_on([w EXCEPT !.queue = Tail(@)])
        ELSE go_on([w EXCEPT !.parents = @ \cup {r}, !.rooms = Append(@, found.room_id),
                             !.queue = IF w.parents = {} THEN get_parent_children_via(found, w.suggested_only)
                                       ELSE Tail(@)])

turn(w, found) == IF w.who \in Visitor THEN visit(w, found) ELSE serve(w, found)

-----------------------------------------------------------------------------
(* Looking a room up.                                                      *)

caches(r, s) == roomid_spacehierarchy_cache' = (r :> s) @@ cache
uncaches(r) == roomid_spacehierarchy_cache' = [x \in DOMAIN cache \ {r} |-> cache[x]]

\* Some task has read a summary of the room that it has yet to cache.
being_read(r) == \E t \in Task : next_is(t, "insert") /\ now(t).found.room_id = r

\* A child event of the room has been appended that its current state does not have yet.
changing(r) == \E t \in Task : next_is(t, "set_state") /\ now(t).room = r

\* What is not known here is asked of other servers, for clients only.
elsewhere(w) == IF w.who \in Visitor THEN [do |-> "federate", walk |-> w] ELSE turn(w, Unknown)

get_summary_and_children_local(t) ==
    /\ next_is(t, "look")
    /\ LET w == now(t).walk
           r == Head(w.queue)
       IN  goes_on(t, <<IF r \in DOMAIN cache
                        THEN IF cache[r] = Unknown THEN elsewhere(w)
                             ELSE turn(w, IF is_accessible_child(r, cache[r].room_id, w.who)
                                          THEN cache[r] ELSE Inaccessible)
                        ELSE IF r \in OurSpace /\ is_accessible_child(r, r, w.who)
                             THEN [do |-> "insert", walk |-> w, found |-> summary(r)]
                             ELSE elsewhere(w)>>)
    /\ UNCHANGED spaceVars

insert_summary(t) ==
    /\ next_is(t, "insert")
    /\ caches(now(t).found.room_id, now(t).found)
    /\ stale' = IF changing(now(t).found.room_id) THEN stale \cup {now(t).found.room_id} ELSE stale
    /\ goes_on(t, <<turn(now(t).walk, now(t).found)>>)
    /\ UNCHANGED <<space_children, forgotten>>

\* Only the first answer counts. A room of this server is not asked of anyone else.
get_summary_and_children_federation(t) ==
    /\ next_is(t, "federate")
    /\ LET w == now(t).walk
           r == Head(w.queue)
       IN  \/ caches(r, Unknown) /\ goes_on(t, <<turn(w, Unknown)>>)
           \/ /\ r \in TheirSpace
              /\ caches(r, summary(r))
              /\ goes_on(t, <<[do |-> "children", walk |-> w, found |-> summary(r)]>>)
    /\ UNCHANGED <<space_children, forgotten, stale>>

\* A child's summary is cached under the parent's ID, and only if the parent has gone from
\* the cache by then.
cache_insert(t) ==
    /\ next_is(t, "children")
    /\ LET w == now(t).walk
           r == Head(w.queue)
       IN  /\ IF r \in DOMAIN cache \/ now(t).found.children = <<>> THEN UNCHANGED cache
              ELSE \E c \in Range(now(t).found.children) :
                      caches(r, [room_id |-> c,
                                 children |-> IF c \in OurSpace THEN ordered_ids(space_children[c]) ELSE <<>>])
           /\ goes_on(t, <<turn(w, IF is_accessible_child(r, r, w.who) THEN now(t).found ELSE Inaccessible)>>)
    /\ UNCHANGED <<space_children, forgotten, stale>>

\* A page ends; the client may ask for the one that next_batch names.
next_batch(w) == IF w.rooms = Failed \/ w.queue = <<>> THEN <<>>
                 ELSE get_shortroomid(w.parents \cup {Head(w.queue)})

answers(t) ==
    /\ next_is(t, "answer")
    /\ LET w == now(t).walk
       IN  \/ steps_on(t)
           \/ /\ w.who \in Visitor /\ next_batch(w) \notin {<<>>, w.token}
              /\ goes_on(t, <<[do |-> "look", walk |-> [w EXCEPT !.queue = <<w.root>>, !.rooms = <<>>,
                                                                 !.parents = {}, !.seen = {},
                                                                 !.token = next_batch(w)]]>>)
    /\ UNCHANGED spaceVars

\* The least recently used entries make room for others; clear_cache empties it.
forgets(r) ==
    /\ forgotten < MaxForgotten /\ r \in DOMAIN cache
    /\ uncaches(r)
    /\ forgotten' = forgotten + 1
    /\ stale' = IF being_read(r) THEN stale ELSE stale \ {r}
    /\ UNCHANGED <<space_children, taskVars>>

-----------------------------------------------------------------------------
(* An m.space.child event, sent under the state mutex of its room.         *)

space_child_event(t, r, c) ==
    /\ c # r
    /\ \A x \in Task : ~next_is(x, "append") /\ ~next_is(x, "set_state")
    /\ begins(t, <<[do |-> "append", room |-> r], [do |-> "set_state", room |-> r, child |-> c]>>)
    /\ UNCHANGED spaceVars

append_pdu_only(t) ==
    /\ next_is(t, "append")
    /\ steps_on(t)
    /\ UNCHANGED spaceVars
append_space_child(t) ==
    /\ next_is(t, "append")
    /\ uncaches(now(t).room)
    /\ stale' = IF being_read(now(t).room) THEN stale ELSE stale \ {now(t).room}
    /\ steps_on(t)
    /\ UNCHANGED <<space_children, forgotten>>

\* The room's state follows the event: a child is added, or taken away.
set_space_state(t) ==
    /\ next_is(t, "set_state")
    /\ LET r == now(t).room
           c == now(t).child
       IN  /\ space_children' = [space_children EXCEPT ![r] = IF c \in @ THEN @ \ {c} ELSE @ \cup {c}]
           /\ stale' = IF being_read(r) THEN stale \cup {r} ELSE stale
    /\ steps_on(t)
    /\ UNCHANGED <<roomid_spacehierarchy_cache, forgotten>>

-----------------------------------------------------------------------------
no_spaces(children) ==
    /\ space_children = children
    /\ roomid_spacehierarchy_cache = <<>> /\ forgotten = 0 /\ stale = {}

InitSpaces == \E children \in Hierarchy : no_spaces(children)
IdleSpaces == no_spaces([r \in Space |-> {}])

spacesDone == all_idle /\ started = MaxStarted /\ UNCHANGED <<spaceVars, taskVars>>

NextSpaces ==
    \E t \in Task :
        \/ \E u \in Visitor \cup Asker, r \in OurSpace, wanted \in Wanted : get_hierarchy(t, u, r, wanted)
        \/ get_summary_and_children_local(t) \/ insert_summary(t)
        \/ get_summary_and_children_federation(t) \/ cache_insert(t) \/ answers(t)
        \/ \E r \in OurSpace, c \in Space : space_child_event(t, r, c)
        \/ append_space_child(t) \/ set_space_state(t)
        \/ \E r \in Space : forgets(r)
        \/ spacesDone

SpacesTypeOK ==
    /\ space_children \in [Space -> SUBSET Space]
    /\ DOMAIN cache \subseteq Space
    /\ \A r \in DOMAIN cache : cache[r] = Unknown \/ cache[r].room_id \in Space
    /\ forgotten \in 0 .. MaxForgotten /\ stale \subseteq OurSpace

\* A page that neither the limit nor max_depth cut short comes from a lookup of exactly the
\* rooms that can be reached through accessible rooms, the requested one first, however the
\* lookups interleave with child events, evictions and other requests. The children of a room
\* of this server are those of its current state, unless its summary was read or cached while
\* an m.space.child event of the room was on its way into the state.
HierarchyComplete ==
    \A t \in Task :
        LET w == now(t).walk
            shown == {s \in w.seen : s.found \notin {Unknown, Inaccessible}}
        IN  next_is(t, "answer") /\ w.who \in Visitor =>
            /\ \A s \in shown : s.room \in OurSpace /\ ~s.stale => Range(s.found.children) = s.now
            /\ w.rooms # Failed /\ w.token = <<>> /\ Len(w.rooms) < w.limit
                  /\ Cardinality(w.parents) <= w.max_depth
               => {s.room : s \in w.seen} =
                  {w.root} \cup UNION {Range(get_parent_children_via(s.found, w.suggested_only)) : s \in shown}
=============================================================================
