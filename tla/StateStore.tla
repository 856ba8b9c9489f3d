----------------------------- MODULE StateStore -----------------------------
(***************************************************************************)
(* How the states of a room are stored. State keys and events get short    *)
(* numbers, a state is a set of pairs of them, and a state is saved as its *)
(* difference to the room's state before it, in layers. The state of the   *)
(* room changes under its state mutex; the state before an incoming event  *)
(* is saved without it.                                                    *)
(***************************************************************************)
EXTENDS Tasks, FiniteSetsExt, SequencesExt

CONSTANTS Cell,      \* state keys
          Value,     \* events that set one key: an event is a cell and a value
          Given,     \* states computed elsewhere, that are saved as they are
          Layers,    \* layers of differences (3 in the code)
          MaxCrashed \* bound: crashes

ASSUME StateStoreAssumption == Layers \in Nat \ {0} /\ MaxCrashed \in Nat

VARIABLES next_short,      \* the numbers given out
          shortstatekey,   \* cell to number
          shorteventid,    \* event to number
          statekey,        \* number to cell
          eventid,         \* number to event
          statehash,       \* shortstatehash of a set of pairs
          statediff,       \* shortstatehash_statediff
          stateinfo_cache,
          room_hash,       \* roomid_shortstatehash, 0 if the room has none
          event_hash,      \* shorteventid_shortstatehash
          state_lock,      \* the task that holds the room's state mutex
          crashed,         \* crashes so far
          meant            \* the state each shortstatehash was made for

shortVars == <<next_short, shortstatekey, shorteventid, statekey, eventid>>
stateStoreVars == <<shortVars, statehash, statediff, stateinfo_cache, room_hash, event_hash,
                    state_lock, crashed, meant>>

Unlocked == "unlocked"
cells_of(s) == {x[1] : x \in s}
\* In a state x replaces what its cell holds.
with(s, x) == {y \in s : y[1] # x[1]} \cup {x}

-----------------------------------------------------------------------------
(* rooms::short                                                            *)

\* The numbers of new names, in some order.
numbered(names, from) == LET q == SetToSeq(names) IN [x \in names |-> from + CHOOSE i \in 1 .. Len(q) : q[i] = x]
inverted(f) == [n \in {f[x] : x \in DOMAIN f} |-> CHOOSE x \in DOMAIN f : f[x] = n]

\* The first half of get_or_create_shortstatekey looks the keys up; the second gives
\* numbers to those that were not found, also if another task does so in between.
get_or_create_shortstatekey(t, cells, then) ==
    goes_on(t, <<[do |-> "create_keys", found |-> [c \in cells \cap DOMAIN shortstatekey |-> shortstatekey[c]],
                  cells |-> cells]>> \o then)

create_keys(t) ==
    LET missing == now(t).cells \ DOMAIN now(t).found
        new == numbered(missing, next_short)
        keys == new @@ now(t).found
    IN /\ next_is(t, "create_keys")
       /\ next_short' = next_short + Cardinality(missing)
       /\ shortstatekey' = new @@ shortstatekey
       /\ statekey' = statekey @@ inverted(new)
       /\ work' = [work EXCEPT ![t] = <<[Head(Tail(@)) EXCEPT !.keys = keys]>> \o Tail(Tail(@))]
       /\ UNCHANGED <<shorteventid, eventid, statehash, statediff, stateinfo_cache, room_hash,
                      event_hash, state_lock, crashed, meant, started>>

\* The numbers of events; the events of one room are not numbered concurrently.
multi_get_or_create_shorteventid(events) ==
    numbered(events \ DOMAIN shorteventid, next_short) @@ shorteventid

events_numbered(events) ==
    LET new == events \ DOMAIN shorteventid
    IN /\ shorteventid' = multi_get_or_create_shorteventid(events)
       /\ eventid' = eventid @@ inverted([x \in new |-> multi_get_or_create_shorteventid(events)[x]])

compress_state_events(s, keys) ==
    {<<keys[x[1]], multi_get_or_create_shorteventid(s)[x]>> : x \in s}

-----------------------------------------------------------------------------
(* rooms::state_compressor                                                 *)

StateDiff(parent, added, removed) == [parent |-> parent, added |-> added, removed |-> removed]

\* A difference is stored as a row of words: the parent or 0, the pairs added, and if there
\* are pairs removed a 0 and those.
words(pairs) == FlattenSeq(SetToSortSeq(pairs, LAMBDA y, z : y[1] < z[1] \/ (y[1] = z[1] /\ y[2] < z[2])))
save_statediff(diff) ==
    <<diff.parent>> \o words(diff.added)
        \o (IF diff.removed = {} THEN <<>> ELSE <<0>> \o words(diff.removed))
pairs_from(value, i, j) == {<<value[k], value[k + 1]>> : k \in {k \in i .. j - 1 : (k - i) % 2 = 0}}
get_statediff(value) ==
    LET zeroes == {i \in 2 .. Len(value) : i % 2 = 0 /\ value[i] = 0}
        end == IF zeroes = {} THEN Len(value) + 1 ELSE Min(zeroes)
    IN StateDiff(value[1], pairs_from(value, 2, end - 1), pairs_from(value, end + 1, Len(value)))

\* The layers of a state, bottom first; <<>> if one of them is not in the database.
RECURSIVE load_shortstatehash_info(_)
new_shortstatehash_info(h) ==
    LET diff == get_statediff(statediff[h])
        below == IF diff.parent = 0 THEN <<>> ELSE load_shortstatehash_info(diff.parent)
        info(full) == [shortstatehash |-> h, full_state |-> full, added |-> diff.added,
                       removed |-> diff.removed]
    IN IF h \notin DOMAIN statediff THEN <<>>
       ELSE IF diff.parent = 0 THEN <<info(diff.added)>>
       ELSE IF below = <<>> THEN <<>>
       ELSE Append(below, info((Last(below).full_state \cup diff.added) \ diff.removed))
load_shortstatehash_info(h) ==
    IF h \in DOMAIN stateinfo_cache THEN stateinfo_cache[h] ELSE new_shortstatehash_info(h)

\* What was computed is cached, for the layers below as well.
cache_shortstatehash_info(stack) ==
    LET computed == {i \in DOMAIN stack :
                        \A j \in i .. Len(stack) : stack[j].shortstatehash \notin DOMAIN stateinfo_cache}
    IN stateinfo_cache' = [h \in {stack[i].shortstatehash : i \in computed} |->
            SubSeq(stack, 1, CHOOSE i \in computed : stack[i].shortstatehash = h)] @@ stateinfo_cache

\* A difference to a layer, as a difference to the layer below that one.
combined_forgets_removed(parent, new, removed) ==
    [added |-> (parent.added \ removed) \cup (new \ parent.removed), removed |-> parent.removed \ new]
combined(parent, new, removed) ==
    LET parent_removed == parent.removed \cup (removed \ parent.added)
    IN [added |-> (parent.added \ removed) \cup (new \ parent_removed),
        removed |-> parent_removed \ new]

\* The difference to save: to the top layer, or if that would be one layer too many or
\* the difference is too big, to a layer below.
RECURSIVE save_state_from_diff(_, _, _, _)
save_state_from_diff(new, removed, diff_to_sibling, parents) ==
    LET parent == Last(parents)
        diffsum == Cardinality(new) + Cardinality(removed)
        parent_diff == Cardinality(parent.added) + Cardinality(parent.removed)
        below == combined(parent, new, removed)
    IN IF parents = <<>> THEN StateDiff(0, new, removed)
       ELSE IF Len(parents) > Layers \/ diffsum * diffsum >= 2 * diff_to_sibling * parent_diff
       THEN save_state_from_diff(below.added, below.removed, diffsum, Front(parents))
       ELSE StateDiff(parent.shortstatehash, new, removed)

\* The difference of a whole state to the top layer.
diff_to(parents, state) ==
    LET full == IF parents = <<>> THEN {} ELSE Last(parents).full_state
    IN [added |-> state \ full, removed |-> full \ state]

saves(h, diff, wanted) ==
    /\ statediff' = (h :> save_statediff(diff)) @@ statediff
    /\ meant' = (h :> wanted) @@ meant

-----------------------------------------------------------------------------
(* append_to_state: a state event of this server joins the room's state.   *)

unlocks(t) == state_lock' = IF state_lock = t THEN Unlocked ELSE state_lock

lock(t) ==
    /\ next_is(t, "lock") /\ state_lock = Unlocked
    /\ state_lock' = t
    /\ steps_on(t)
    /\ UNCHANGED <<shortVars, statehash, statediff, stateinfo_cache, room_hash, event_hash,
                   crashed, meant>>

append_request(t, x) == begins(t, <<[do |-> "lock"], [do |-> "append", event |-> x]>>)
                        /\ UNCHANGED stateStoreVars

\* The state before the event is recorded and loaded; if it cannot be, the request fails.
append_to_state(t) ==
    LET x == now(t).event
        p == room_hash
        parents == load_shortstatehash_info(p)
    IN /\ next_is(t, "append")
       /\ events_numbered({x}) /\ next_short' = next_short + Cardinality({x} \ DOMAIN shorteventid)
       /\ event_hash' = IF p = 0 THEN event_hash ELSE (x :> p) @@ event_hash
       /\ IF p # 0 /\ parents = <<>>
          THEN ends_with(t, <<>>) /\ unlocks(t) /\ UNCHANGED stateinfo_cache
          ELSE /\ cache_shortstatehash_info(parents)
               /\ get_or_create_shortstatekey(t, {x[1]},
                      <<[do |-> "append_new", event |-> x, keys |-> <<>>, parents |-> parents]>>)
               /\ UNCHANGED state_lock
       /\ UNCHANGED <<shortstatekey, statekey, statehash, statediff, room_hash, crashed, meant>>

append_new(t) ==
    LET x == now(t).event
        parents == now(t).parents
        full == IF parents = <<>> THEN {} ELSE Last(parents).full_state
        new == <<now(t).keys[x[1]], shorteventid[x]>>
        replaces == {y \in full : y[1] = new[1]}
        first == {y \in replaces : \A z \in replaces : y[2] <= z[2]}
        before == IF parents = <<>> THEN {} ELSE meant[Last(parents).shortstatehash]
    IN /\ next_is(t, "append_new")
       /\ IF first = {new}
          THEN goes_on(t, <<[do |-> "set_room_hash", hash |-> room_hash]>>)
               /\ UNCHANGED <<next_short, statediff, meant>>
          ELSE /\ saves(next_short, save_state_from_diff({new}, first, 2, parents), with(before, x))
               /\ next_short' = next_short + 1
               /\ goes_on(t, <<[do |-> "set_room_hash", hash |-> next_short]>>)
       /\ UNCHANGED <<shortstatekey, shorteventid, statekey, eventid, statehash, stateinfo_cache,
                      room_hash, event_hash, state_lock, crashed>>

set_room_hash(t) ==
    /\ next_is(t, "set_room_hash")
    /\ room_hash' = now(t).hash
    /\ unlocks(t)
    /\ steps_on(t)
    /\ UNCHANGED <<shortVars, statehash, statediff, stateinfo_cache, event_hash, crashed, meant>>

-----------------------------------------------------------------------------
(* save_state and set_event_state: a state computed elsewhere is saved, to *)
(* become the room's or as the one before an incoming event.               *)

hashing(s, x) == [do |-> "hash", state |-> s, event |-> x, keys |-> <<>>]

save_state(t, s) ==
    /\ begins(t, <<[do |-> "lock"], [do |-> "keys", state |-> s], hashing(s, <<>>)>>)
    /\ UNCHANGED stateStoreVars

set_event_state(t, s, x) ==
    /\ begins(t, <<[do |-> "keys", state |-> s], hashing(s, x)>>)
    /\ UNCHANGED stateStoreVars

look_up_keys(t) ==
    /\ next_is(t, "keys")
    /\ get_or_create_shortstatekey(t, cells_of(now(t).state), <<>>)
    /\ UNCHANGED stateStoreVars

\* get_or_create_shortstatehash looks the state up.
look_up_hash(t) ==
    LET s == now(t).state
        compressed == compress_state_events(s, now(t).keys)
        new == s \ DOMAIN shorteventid
    IN /\ next_is(t, "hash")
       /\ events_numbered(s) /\ next_short' = next_short + Cardinality(new)
       /\ goes_on(t, <<[do |-> "save", state |-> s, event |-> now(t).event, compressed |-> compressed,
                        previous |-> room_hash, existed |-> compressed \in DOMAIN statehash,
                        hash |-> IF compressed \in DOMAIN statehash THEN statehash[compressed] ELSE 0]>>)
       /\ UNCHANGED <<shortstatekey, statekey, statehash, statediff, stateinfo_cache, room_hash,
                      event_hash, state_lock, crashed, meant>>

create_hash(t) ==
    /\ next_is(t, "save") /\ now(t).hash = 0
    /\ statehash' = (now(t).compressed :> next_short) @@ statehash
    /\ next_short' = next_short + 1
    /\ goes_on(t, <<[now(t) EXCEPT !.hash = next_short]>>)
    /\ UNCHANGED <<shortstatekey, shorteventid, statekey, eventid, statediff, stateinfo_cache,
                   room_hash, event_hash, state_lock, crashed, meant>>

\* The difference is written unless the state was known; save_state takes layers that
\* cannot be loaded for none, set_event_state fails.
save(t) ==
    LET step == now(t)
        h == step.hash
        of_event == step.event # <<>>
        unchanged == ~of_event /\ h = step.previous
        loads == IF of_event THEN ~step.existed ELSE ~unchanged
        parents == IF step.previous = 0 \/ ~loads THEN <<>> ELSE load_shortstatehash_info(step.previous)
        diff == diff_to(parents, step.compressed)
    IN /\ next_is(t, "save") /\ h # 0
       /\ IF of_event /\ loads /\ step.previous # 0 /\ parents = <<>>
          THEN steps_on(t) /\ UNCHANGED <<statediff, meant, stateinfo_cache, event_hash>>
          ELSE /\ IF step.existed \/ unchanged THEN UNCHANGED <<statediff, meant>>
                  ELSE saves(h, save_state_from_diff(diff.added, diff.removed,
                                    IF of_event THEN 1000000 ELSE 2, parents), step.state)
               /\ cache_shortstatehash_info(parents)
               /\ event_hash' = IF of_event THEN (step.event :> h) @@ event_hash ELSE event_hash
               /\ IF of_event THEN steps_on(t)
                  ELSE goes_on(t, <<[do |-> "set_room_hash", hash |-> h]>>)
       /\ UNCHANGED <<shortVars, statehash, room_hash, state_lock, crashed>>

-----------------------------------------------------------------------------
clear_cache ==
    /\ DOMAIN stateinfo_cache # {}
    /\ stateinfo_cache' = <<>>
    /\ UNCHANGED <<shortVars, statehash, statediff, room_hash, event_hash, state_lock, crashed,
                   meant, taskVars>>

crash ==
    /\ crashed < MaxCrashed
    /\ crashed' = crashed + 1
    /\ work' = [t \in Task |-> <<>>]
    /\ state_lock' = Unlocked /\ stateinfo_cache' = <<>>
    /\ UNCHANGED <<shortVars, statehash, statediff, room_hash, event_hash, meant, started>>

InitStateStore ==
    /\ next_short = 1
    /\ shortstatekey = <<>> /\ shorteventid = <<>> /\ statekey = <<>> /\ eventid = <<>>
    /\ statehash = <<>> /\ statediff = <<>> /\ stateinfo_cache = <<>>
    /\ room_hash = 0 /\ event_hash = <<>>
    /\ state_lock = Unlocked /\ crashed = 0 /\ meant = <<>>

stateStoreDone == all_idle /\ started = MaxStarted /\ UNCHANGED <<stateStoreVars, taskVars>>

NextStateStore ==
    \/ \E t \in Task :
        \/ \E x \in Cell \X Value : append_request(t, x)
        \/ \E s \in Given : save_state(t, s) \/ set_event_state(t, s, <<"incoming">>)
        \/ lock(t) \/ append_to_state(t) \/ append_new(t) \/ set_room_hash(t)
        \/ look_up_keys(t) \/ create_keys(t) \/ look_up_hash(t) \/ create_hash(t) \/ save(t)
    \/ clear_cache
    \/ crash
    \/ stateStoreDone

-----------------------------------------------------------------------------
StateStoreTypeOK ==
    /\ DOMAIN statediff \subseteq 1 .. next_short
    /\ \A h \in DOMAIN statediff : get_statediff(statediff[h]).parent < h
    /\ state_lock \in Task \cup {Unlocked}

\* Cells that two tasks gave a number to at the same time.
raced == {c \in Cell : Cardinality({n \in DOMAIN statekey : statekey[n] = c}) > 1}

\* What the readers of a state find: the event of a cell, by its number, and all events.
load_full_state(h) == Last(load_shortstatehash_info(h)).full_state
state_get_shortid(h, c) == Min({y[2] : y \in {z \in load_full_state(h) : z[1] = shortstatekey[c]}})
state_get_id(h, c) == eventid[state_get_shortid(h, c)]
state_full_ids(h) == {eventid[y[2]] : y \in load_full_state(h)}

\* The state that is recorded for the room or for an event is, when it is loaded from its
\* layers of differences, the state it was recorded for: save_state_from_diff may fold a
\* difference into the layers below it any number of times, tasks may save states based on
\* a state that the room has left already, and the layers may come from the cache. Its
\* layers are all in the database, unless the process stopped between the two writes that
\* save_state and set_event_state make (the hash is never saved again then) or they are
\* still to be made. Cells that were numbered twice are excepted: states made with one of
\* the numbers do not show what was set under the other.
StateAsSaved ==
    \A h \in ({room_hash} \ {0}) \cup {event_hash[x] : x \in DOMAIN event_hash} :
        /\ load_shortstatehash_info(h) = <<>> => crashed > 0 \/ pending({"save"})
        /\ load_shortstatehash_info(h) # <<>> =>
             /\ {x \in state_full_ids(h) : x[1] \notin raced} = {x \in meant[h] : x[1] \notin raced}
             /\ \A x \in meant[h] : x[1] \notin raced => state_get_id(h, x[1]) = x
=============================================================================
