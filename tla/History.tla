------------------------------- MODULE History -------------------------------
(***************************************************************************)
(* Reading a room page by page: its messages, the context of an event, its *)
(* threads, the relations of an event, a search, and the backfill that     *)
(* another server asks for. Each page is a request of its own that starts  *)
(* where the token of the last one says; between two pages events are      *)
(* appended, backfilled, redacted, put into threads, and become visible or *)
(* hidden. One user reads, with one device.                                *)
(*                                                                         *)
(* An event is in the timeline at its count, negative if backfilled.       *)
(***************************************************************************)
EXTENDS Integers, Sequences, FiniteSets, SequencesExt, FiniteSetsExt, Tasks

CONSTANTS Post,          \* events
          Content,         \* what each is: kind, sender, words, relates_to, threaded, redacts, visibility, was_joined
          NoPost,
          Earlier,         \* the events that the room has, oldest first
          Older,           \* the events before ours, newest first, that other servers have
          Ask,             \* what may be read: kind, dir, limit, base, words, senders
          Half,            \* 2^63
          BATCH_MAX,
          MaxTurns         \* bound: lost responses, and changes of membership and of the ignored users

ASSUME HistoryAssumption ==
    /\ \A e \in Post : Content[e].relates_to \in Post \cup {NoPost} /\ Content[e].redacts \in Post \cup {NoPost}
    /\ \A a \in Ask : a.limit > 0 /\ a.base \in Post

VARIABLES counter,         \* the global counter
          place,           \* the count of each event; 0 if it is not stored
          redacted_posts,
          tokenids, tofrom_relation, threadid_userids,
          lazyloadedids,   \* by member: unseen (-1), seen (0), or the token of the second time
          joined_now, ignored_users,
          paging,          \* what each task reads: ask, from, and the ghosts sent, due, done
          members_got,     \* members whose event the device has received
          turns           \* lost responses and changes so far

historyVars == <<counter, place, redacted_posts, tokenids, tofrom_relation, threadid_userids, lazyloadedids,
                 joined_now, ignored_users, paging, members_got, turns>>
tables == <<counter, place, redacted_posts, tokenids, tofrom_relation, threadid_userids>>
others_of_reader == <<joined_now, ignored_users, turns>>

-----------------------------------------------------------------------------
(* Counts, and the order of their keys.                                    *)

max_count == Half - 1
min_count == -Half
into_unsigned(c) == c % (2 * Half)
from_unsigned(u) == IF u >= Half THEN u - 2 * Half ELSE u
saturating_inc(c, dir) == IF dir = "f" THEN c + 1 ELSE IF c = min_count THEN c ELSE c - 1

\* The bytes of a key, as a number: those of a backfilled count come after a zero word.
raw_id(c) == IF c > 0 THEN c * 2 * Half ELSE into_unsigned(c)

stored == {e \in Post : place[e] # 0}
at_count(c) == CHOOSE e \in stored : place[e] = c

\* Events in the order of their keys, forward or backward.
precedes(d, e, dir) == IF dir = "f" THEN raw_id(place[d]) < raw_id(place[e]) ELSE raw_id(place[d]) > raw_id(place[e])
in_order(events, dir) ==
    [i \in 1 .. Cardinality(events) |->
        CHOOSE e \in events : Cardinality({d \in events : precedes(d, e, dir)}) = i - 1]

\* The events of a direction, from a count on.
reaching(key, dir) ==
    in_order({e \in stored : IF dir = "f" THEN raw_id(place[e]) >= key ELSE raw_id(place[e]) <= key}, dir)

\* They begin after the event of the count.
pdus_from_base(from, dir) == reaching(raw_id(from), dir)
pdus_from(from, dir) == reaching(raw_id(saturating_inc(from, dir)), dir)

take(n, s) == SubSeq(s, 1, IF n < Len(s) THEN n ELSE Len(s))

-----------------------------------------------------------------------------
(* Who sees what. A backfilled event has no state and is seen by all. What *)
(* "invited" asks of the past is like what "joined" does.                  *)

can_see(e, joined) ==
    \/ place[e] < 0
    \/ Content[e].visibility = "world_readable"
    \/ Content[e].visibility = "shared" /\ joined
    \/ Content[e].visibility = "joined" /\ Content[e].was_joined
user_can_see_event(e) == can_see(e, joined_now)

server_can_see_event(e) == place[e] < 0 \/ Content[e].visibility # "joined" \/ Content[e].was_joined

is_ignored_pdu(e, ignored) == Content[e].kind = "dummy" \/ (Content[e].kind = "message" /\ Content[e].sender \in ignored)

\* An event that passes the three filters of a page.
passes(a, e, joined, ignored) ==
    Content[e].sender \in a.senders /\ ~is_ignored_pdu(e, ignored) /\ can_see(e, joined)
shows(a, e) == passes(a, e, joined_now, ignored_users)

-----------------------------------------------------------------------------
(* Events come in. Those of the room are appended one at a time.           *)

event_step(what, e) == [do |-> what, event |-> e]
appending == pending({"index_pdu", "deindex_pdu", "replace_pdu", "add_relation", "add_to_thread"})

append_pdu(t, e) ==
    /\ place[e] = 0 /\ e \notin ToSet(Older) /\ ~appending
    /\ begins(t, (IF Content[e].redacts # NoPost THEN <<event_step("deindex_pdu", e), event_step("replace_pdu", e)>>
                  ELSE <<event_step("index_pdu", e)>>)
                 \o <<event_step("add_relation", e), event_step("add_to_thread", e)>>)
    /\ counter' = counter + 2 /\ place' = [place EXCEPT ![e] = counter + 2]
    /\ UNCHANGED <<redacted_posts, tokenids, tofrom_relation, threadid_userids, lazyloadedids, others_of_reader,
                   paging, members_got>>

index_pdu(t) ==
    /\ next_is(t, "index_pdu") /\ steps_on(t)
    /\ LET e == now(t).event
       IN tokenids' = tokenids \cup (IF Content[e].kind = "message" THEN Content[e].words \X {place[e]} ELSE {})
    /\ UNCHANGED <<counter, place, redacted_posts, tofrom_relation, threadid_userids, lazyloadedids,
                   others_of_reader, paging, members_got>>

\* What the readers of some kinds are owed is void.
void(kinds) == [t \in Task |-> IF paging[t].ask.kind \in kinds THEN [paging[t] EXCEPT !.due = {}] ELSE paging[t]]

\* A redaction, by someone who may, takes the words of its target out of the index ...
deindex_pdu(t) ==
    /\ next_is(t, "deindex_pdu") /\ steps_on(t)
    /\ LET e == Content[now(t).event].redacts
       IN IF place[e] # 0 THEN tokenids' = {x \in tokenids : x[2] # place[e]} /\ paging' = void({"search"})
          ELSE UNCHANGED <<tokenids, paging>>
    /\ UNCHANGED <<counter, place, redacted_posts, tofrom_relation, threadid_userids, lazyloadedids,
                   others_of_reader, members_got>>

\* ... and replaces it.
replace_pdu(t) ==
    /\ next_is(t, "replace_pdu") /\ steps_on(t)
    /\ LET e == Content[now(t).event].redacts
       IN redacted_posts' = IF place[e] # 0 THEN redacted_posts \cup {e} ELSE redacted_posts
    /\ paging' = void({"search"})
    /\ UNCHANGED <<counter, place, tokenids, tofrom_relation, threadid_userids, lazyloadedids,
                   others_of_reader, members_got>>

\* Relations with backfilled events are not kept.
add_relation(t) ==
    /\ next_is(t, "add_relation") /\ steps_on(t)
    /\ LET e == now(t).event
           to == Content[e].relates_to
       IN tofrom_relation' = IF to # NoPost /\ place[to] > 0 THEN tofrom_relation \cup {<<place[to], place[e]>>}
                             ELSE tofrom_relation
    /\ UNCHANGED <<counter, place, redacted_posts, tokenids, threadid_userids, lazyloadedids,
                   others_of_reader, paging, members_got>>

add_to_thread(t) ==
    /\ next_is(t, "add_to_thread") /\ steps_on(t)
    /\ LET e == now(t).event
           root == Content[e].relates_to
       IN threadid_userids' = IF Content[e].threaded /\ place[root] # 0 THEN threadid_userids \cup {place[root]}
                              ELSE threadid_userids
    /\ UNCHANGED <<counter, place, redacted_posts, tokenids, tofrom_relation, lazyloadedids,
                   others_of_reader, paging, members_got>>

-----------------------------------------------------------------------------
(* Backfill, when a page starts at or before our first event.              *)

first_item_in_room == in_order(stored, "f")[1]

\* A server answers with the events before our first one, or none does.
backfill_if_required(t) ==
    /\ next_is(t, "backfill_if_required")
    /\ LET first == place[first_item_in_room]
           unknown == SelectSeq(Older, LAMBDA e : place[e] = 0)
       IN \/ steps_on(t)
          \/ /\ first >= paging[t].from /\ unknown # <<>>
             /\ goes_on(t, <<event_step("backfill_pdu", Head(unknown))>>)
    /\ UNCHANGED historyVars

\* It is skipped if it has come in the meantime.
backfill_pdu(t) ==
    /\ next_is(t, "backfill_pdu")
    /\ LET e == now(t).event
       IN IF place[e] # 0 THEN steps_on(t) /\ UNCHANGED <<counter, place>>
          ELSE /\ goes_on(t, <<event_step("index_pdu", e)>>)
               /\ counter' = counter + 1 /\ place' = [place EXCEPT ![e] = -(counter + 1)]
    /\ UNCHANGED <<redacted_posts, tokenids, tofrom_relation, threadid_userids, lazyloadedids, others_of_reader,
                   paging, members_got>>

-----------------------------------------------------------------------------
(* A page of each kind: its events, and the token of the next page.        *)

no_token == <<>>
token_of(s) == IF s = <<>> THEN no_token ELSE <<place[Last(s)]>>
page_of(s, token) == [events |-> s, token |-> token]

get_message_events(a, from) ==
    LET events == take(a.limit, SelectSeq(pdus_from(from, a.dir), LAMBDA e : shows(a, e)))
    IN page_of(events, token_of(events))

\* The events around one; the next pages go on in one direction. They are listed in that
\* direction here.
get_context(a) ==
    LET base == place[a.base]
        side(dir) == take(a.limit \div 2, SelectSeq(pdus_from(base, dir), LAMBDA e : shows(a, e)))
        ahead == side(a.dir)
        behind == Reverse(side(IF a.dir = "f" THEN "b" ELSE "f"))
    IN page_of(behind \o (IF is_ignored_pdu(a.base, ignored_users) THEN <<>> ELSE <<a.base>>) \o ahead,
               IF ahead = <<>> THEN <<base>> ELSE token_of(ahead))

\* Those that the user does not see are left out after the page was cut.
threads_until(from) == SelectSeq(pdus_from(from, "b"), LAMBDA e : place[e] \in threadid_userids)
get_threads(a, from) ==
    LET threads == SelectSeq(take(a.limit, threads_until(from)), user_can_see_event)
    IN page_of(threads, IF Len(threads) >= a.limit THEN token_of(threads) ELSE no_token)

\* The events related to that of a count: the key has the unsigned count.
related(to, from, dir) ==
    LET current == into_unsigned(saturating_inc(from, dir))
        counts == {from_unsigned(x[2]) : x \in {y \in tofrom_relation : y[1] = to /\ IF dir = "f" THEN y[2] >= current ELSE y[2] <= current}}
    IN in_order({at_count(c) : c \in counts}, dir)

\* Direct relations, then those of the last one, of the one before it and so on, until there
\* are enough.
get_relations(a, from) ==
    LET direct == related(IF place[a.base] > 0 THEN place[a.base] ELSE 0, from, a.dir)
        indirect == FoldSeq(LAMBDA e, s : s \o related(place[e], from, a.dir), <<>>, Reverse(direct))
        enough == IF a.limit > Len(direct) THEN a.limit - Len(direct) ELSE 1
    IN direct \o take(enough, indirect)

\* The next page starts at the first event of a page that goes backward.
paginate_relations_with_filter(a, from) ==
    LET events == take(a.limit, SelectSeq(get_relations(a, from), user_can_see_event))
    IN page_of(events, IF a.dir = "f" \/ events = <<>> THEN token_of(events) ELSE <<place[Head(events)]>>)

\* The events with all of the words, newest first.
search_pdu_ids(text) == in_order({e \in stored : \A w \in text : <<w, place[e]>> \in tokenids}, "b")
search_pdus(text) == SelectSeq(search_pdu_ids(text), LAMBDA e : e \notin redacted_posts /\ user_can_see_event(e))

\* Only the members of a room search it. The token counts the events that were found before.
category_room_events(a, from) ==
    LET seen == IF joined_now THEN search_pdus(a.words) ELSE <<>>
        next_batch == IF from < a.limit * BATCH_MAX THEN from ELSE a.limit * BATCH_MAX
        results == take(a.limit, SubSeq(seen, next_batch + 1, Len(seen)))
    IN page_of(results, IF Len(results) >= a.limit THEN <<next_batch + Len(results)>> ELSE no_token)

\* What another server is sent; it goes on from the oldest event it got.
get_backfill(a, from) ==
    LET pdus == SelectSeq(take(a.limit, pdus_from(from + 1, "b")), server_can_see_event)
        oldest == token_of(pdus)
    IN page_of(SelectSeq(pdus, LAMBDA e : place[e] < from), IF oldest = <<from>> THEN no_token ELSE oldest)

page_for(a, from) ==
    CASE a.kind = "messages" -> get_message_events(a, from)
      [] a.kind = "threads" -> get_threads(a, from)
      [] a.kind = "relations" -> paginate_relations_with_filter(a, from)
      [] a.kind = "search" -> category_room_events(a, from)
      [] a.kind = "server" -> get_backfill(a, from)

-----------------------------------------------------------------------------
(* A reader asks for page after page.                                      *)

step(what) == [do |-> what]
next_page(a) == IF a.kind = "messages" /\ a.dir = "b" THEN <<step("backfill_if_required"), step("page")>> ELSE <<step("page")>>

first_token(a) == IF a.kind = "search" THEN 0
                  ELSE IF a.kind = "server" THEN place[a.base]
                  ELSE IF a.dir = "f" THEN min_count ELSE max_count

\* What the reader is to get: the events that there are for it as it starts.
owed(a) ==
    CASE a.kind = "messages" -> {e \in stored : shows(a, e)}
      [] a.kind = "context" -> {e \in stored : shows(a, e) /\ IF a.dir = "f" THEN raw_id(place[e]) > raw_id(place[a.base])
                                                              ELSE raw_id(place[e]) < raw_id(place[a.base])}
      [] a.kind = "threads" -> {e \in stored : place[e] \in threadid_userids}
      [] a.kind = "relations" -> IF a.dir = "f" THEN {} ELSE {e \in ToSet(related(place[a.base], max_count, "b")) : user_can_see_event(e)}
      [] a.kind = "search" -> IF joined_now THEN ToSet(search_pdus(a.words)) ELSE {}
      [] a.kind = "server" -> {e \in stored : raw_id(place[e]) < raw_id(place[a.base])}

reads(t, a) ==
    /\ place[a.base] # 0
    /\ begins(t, IF a.kind = "context" THEN <<step("context")>> ELSE next_page(a))
    /\ paging' = [paging EXCEPT ![t] = [ask |-> a, from |-> first_token(a), sent |-> <<>>, due |-> owed(a), done |-> FALSE]]
    /\ UNCHANGED <<tables, lazyloadedids, others_of_reader, members_got>>

\* Pages of messages come with the events of members.
lazily(a, page) == IF a.kind \in {"messages", "context"}
                   THEN <<[do |-> "witness", senders |-> {Content[e].sender : e \in ToSet(page.events)}, page |-> page]>>
                   ELSE <<[do |-> "respond", page |-> page, members |-> {}]>>

\* The base event of a context must be seen.
page(t) ==
    /\ \/ /\ next_is(t, "page")
          /\ goes_on(t, lazily(paging[t].ask, page_for(paging[t].ask, paging[t].from)))
       \/ /\ next_is(t, "context")
          /\ goes_on(t, IF user_can_see_event(paging[t].ask.base) THEN lazily(paging[t].ask, get_context(paging[t].ask))
                        ELSE <<>>)
    /\ UNCHANGED historyVars

\* The rows of the senders are read ...
witness(t) ==
    /\ next_is(t, "witness")
    /\ goes_on(t, <<[do |-> "witness_retain", status |-> [u \in now(t).senders |-> lazyloadedids[u]], page |-> now(t).page]>>)
    /\ UNCHANGED historyVars

\* ... and written: the first time as seen, the second time with the token of the request. A
\* member is sent both times, and whenever that token comes again.
witness_retain_once(t) ==
    /\ next_is(t, "witness_retain")
    /\ LET status == now(t).status
       IN /\ lazyloadedids' = [u \in DOMAIN lazyloadedids |-> IF u \in DOMAIN status THEN 0 ELSE lazyloadedids[u]]
          /\ goes_on(t, <<[do |-> "respond", page |-> now(t).page, members |-> {u \in DOMAIN status : status[u] = -1}]>>)
    /\ UNCHANGED <<tables, others_of_reader, paging, members_got>>
witness_retain(t) ==
    /\ next_is(t, "witness_retain")
    /\ LET status == now(t).status
           token == IF paging[t].ask.kind = "context" /\ paging[t].sent = <<>> THEN into_unsigned(place[paging[t].ask.base])
                    ELSE into_unsigned(paging[t].from)
       IN /\ lazyloadedids' = [u \in DOMAIN lazyloadedids |->
                                 IF u \notin DOMAIN status \/ status[u] > 0 THEN lazyloadedids[u]
                                 ELSE IF status[u] = -1 THEN 0 ELSE token]
          /\ goes_on(t, <<[do |-> "respond", page |-> now(t).page,
                            members |-> {u \in DOMAIN status : status[u] \in {-1, 0, token}}]>>)
    /\ UNCHANGED <<tables, others_of_reader, paging, members_got>>

\* The response arrives, and the reader asks for the next page, if there is a token for one.
page_arrives(t) ==
    /\ next_is(t, "respond")
    /\ LET p == paging[t]
           a == IF p.ask.kind = "context" THEN [p.ask EXCEPT !.kind = "messages"] ELSE p.ask
           token == now(t).page.token
       IN /\ paging' = [paging EXCEPT ![t] = [p EXCEPT !.ask = a, !.sent = @ \o now(t).page.events,
                                                       !.from = IF token = no_token THEN @ ELSE token[1],
                                                       !.done = (token = no_token)]]
          /\ goes_on(t, IF token = no_token THEN <<>> ELSE next_page(a))
    /\ members_got' = members_got \cup now(t).members
    /\ UNCHANGED <<tables, lazyloadedids, others_of_reader>>

\* The response is lost, and the reader asks again.
page_lost(t) ==
    /\ next_is(t, "respond") /\ turns < MaxTurns
    /\ goes_on(t, IF paging[t].ask.kind = "context" THEN <<step("context")>> ELSE next_page(paging[t].ask))
    /\ turns' = turns + 1
    /\ UNCHANGED <<tables, lazyloadedids, joined_now, ignored_users, paging, members_got>>

-----------------------------------------------------------------------------
(* The user joins or leaves the room, or ignores someone or not.           *)

changes_what_shows ==
    /\ turns < MaxTurns /\ turns' = turns + 1
    /\ \/ joined_now' = ~joined_now /\ UNCHANGED ignored_users
       \/ /\ \E u \in DOMAIN lazyloadedids : ignored_users' = IF u \in ignored_users THEN {} ELSE {u}
          /\ UNCHANGED joined_now
    /\ paging' = [t \in Task |->
          LET p == paging[t]
          IN [p EXCEPT !.due = IF p.ask.kind \in {"messages", "context"} THEN {e \in @ : passes(p.ask, e, joined_now', ignored_users')}
                                ELSE {}]]
    /\ UNCHANGED <<tables, lazyloadedids, members_got, taskVars>>

\* An initial sync of the device.
lazy_loading_reset ==
    /\ turns < MaxTurns /\ turns' = turns + 1
    /\ lazyloadedids' = [u \in DOMAIN lazyloadedids |-> -1]
    /\ UNCHANGED <<tables, joined_now, ignored_users, paging, members_got, taskVars>>

-----------------------------------------------------------------------------
no_paging == [ask |-> CHOOSE a \in Ask : TRUE, from |-> 0, sent |-> <<>>, due |-> {}, done |-> FALSE]

\* The room has its earlier events.
InitHistory ==
    /\ counter = 2 * Len(Earlier)
    /\ place = [e \in Post |-> LET at == {i \in DOMAIN Earlier : Earlier[i] = e} IN IF at = {} THEN 0 ELSE 2 * Max(at)]
    /\ redacted_posts = {}
    /\ tokenids = UNION {Content[e].words \X {place[e]} : e \in ToSet(Earlier)}
    /\ tofrom_relation = {<<place[Content[e].relates_to], place[e]>> : e \in {d \in ToSet(Earlier) : Content[d].relates_to # NoPost}}
    /\ threadid_userids = {place[Content[e].relates_to] : e \in {d \in ToSet(Earlier) : Content[d].threaded}}
    /\ lazyloadedids = [u \in {Content[e].sender : e \in Post} |-> -1]
    /\ joined_now = TRUE /\ ignored_users = {}
    /\ paging = [t \in Task |-> no_paging]
    /\ members_got = {} /\ turns = 0

historyDone == all_idle /\ started = MaxStarted /\ UNCHANGED <<historyVars, taskVars>>

NextHistory ==
    \/ \E t \in Task :
          \/ \E e \in Post : append_pdu(t, e)
          \/ \E a \in Ask : reads(t, a)
          \/ index_pdu(t) \/ deindex_pdu(t) \/ replace_pdu(t) \/ add_relation(t) \/ add_to_thread(t)
          \/ backfill_if_required(t) \/ backfill_pdu(t)
          \/ page(t) \/ witness(t) \/ witness_retain(t) \/ page_arrives(t) \/ page_lost(t)
    \/ changes_what_shows \/ lazy_loading_reset
    \/ historyDone

\* A reader that has come to the last page has got every event that there was for it when it
\* began and that stayed visible, whatever was appended, backfilled or redacted meanwhile; of
\* messages and threads each once, and in order. Excepted are threads when some are hidden,
\* backfill when some events are, and searches of more than BATCH_MAX pages.
PagesComplete ==
    \A t \in Task :
       LET p == paging[t]
           sent == ToSet(p.sent)
           excepted == \/ p.ask.kind = "threads" /\ \E e \in stored : place[e] \in threadid_userids /\ ~user_can_see_event(e)
                       \/ p.ask.kind = "server" /\ \E e \in stored : ~server_can_see_event(e)
                       \/ p.ask.kind = "search" /\ Len(p.sent) > p.ask.limit * BATCH_MAX
       IN /\ p.done => p.due \subseteq sent \/ excepted
          /\ p.ask.kind \in {"messages", "threads"} =>
                \A i, j \in DOMAIN p.sent : i < j => precedes(p.sent[i], p.sent[j], p.ask.dir)

\* A device that asks again when a response is lost has in the end received the member event of
\* every sender of the messages it got: the table of those already sent never hides one from it.
MembersSent ==
    all_idle => \A t \in Task : \A e \in ToSet(paging[t].sent) :
                   paging[t].ask.kind = "messages" => Content[e].sender \in members_got
=============================================================================
