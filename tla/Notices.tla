------------------------------- MODULE Notices -------------------------------
(***************************************************************************)
(* What the events of a room do to those who have not read them: the       *)
(* counts of unread events and of highlights, the pushes, the receipts.    *)
(* Events are appended under the mutex of the room; receipts, push rules   *)
(* and pushers change beside that, without it. A receipt also shows its    *)
(* user online.                                                            *)
(***************************************************************************)
EXTENDS Presence

CONSTANTS Notice,          \* events of the room
          Unread,          \* the one of another server in it at first, unread by ours
          Author,          \* who sends each
          Target,          \* whose membership each is about, if it is a member event
          Pushkey,
          NoAppend

ASSUME NoticesAssumption ==
    /\ Author \in [Notice -> Seen] /\ Target \in [Notice -> SUBSET Seen]
    /\ Cardinality(Unread) <= 1 /\ \A e \in Unread : Author[e] \in Afar /\ Target[e] = {}

VARIABLES notice_at,       \* the count of each event in the timeline; 0 if it is not there
          notice_count,    \* the numbers given
          room_mutex,
          userroomid_notificationcount, userroomid_highlightcount, roomuserid_lastnotificationread,
          roomuserid_privateread,          \* a count, and the number of the update
          readreceiptid_readreceipt, fully_read,
          push_rules,      \* the rules of the users who have some
          senderkey_pusher, pushkey_deviceid,
          push_queue, pushed

countVars == <<notice_at, notice_count, room_mutex, userroomid_notificationcount, userroomid_highlightcount>>
readVars == <<roomuserid_lastnotificationread, roomuserid_privateread, readreceiptid_readreceipt, fully_read>>
pushVars == <<push_rules, senderkey_pusher, pushkey_deviceid, push_queue, pushed>>
noticeVars == <<countVars, readVars, pushVars>>

\* A rule makes an event notify, or highlights it.
Rule == {"notify", "highlight"}
server_default == {"notify"}
rules_of(u) == IF u \in DOMAIN push_rules THEN push_rules[u] ELSE server_default

does(what, u) == [do |-> what, user |-> u]

-----------------------------------------------------------------------------
(* append_pdu, from an event of ours or of another server. Its author has  *)
(* read the room before it is in it.                                       *)

append_steps_marked_first(e) ==
    <<does("mark_own", Author[e]), does("reset_notification_counts", Author[e]), does("lock_state", Author[e]),
      [do |-> "insert_pdu", event |-> e]>>
append_steps(e) ==
    <<does("lock_state", Author[e]), does("mark_own", Author[e]), does("reset_notification_counts", Author[e]),
      [do |-> "insert_pdu", event |-> e]>>

append_notice(t, e) ==
    /\ notice_at[e] = 0 /\ ~\E q \in Task : \E i \in DOMAIN work[q] : work[q][i].do = "insert_pdu" /\ work[q][i].event = e
    /\ begins(t, append_steps(e))
    /\ UNCHANGED <<presenceVars, noticeVars>>

lock_state(t) ==
    /\ next_is(t, "lock_state") /\ steps_on(t)
    /\ room_mutex = NoAppend /\ room_mutex' = t
    /\ UNCHANGED <<presenceVars, notice_at, notice_count, userroomid_notificationcount, userroomid_highlightcount,
                   readVars, pushVars>>

mark_own(t) ==
    /\ next_is(t, "mark_own") /\ steps_on(t)
    /\ notice_count' = notice_count + 2
    /\ roomuserid_privateread' = [roomuserid_privateread EXCEPT ![now(t).user] = <<notice_count + 1, notice_count'>>]
    /\ UNCHANGED <<presenceVars, notice_at, room_mutex, userroomid_notificationcount, userroomid_highlightcount,
                   roomuserid_lastnotificationread, readreceiptid_readreceipt, fully_read, pushVars>>

reset_notification_counts(t) ==
    /\ next_is(t, "reset_notification_counts") /\ steps_on(t)
    /\ userroomid_highlightcount' = [userroomid_highlightcount EXCEPT ![now(t).user] = 0]
    /\ userroomid_notificationcount' = [userroomid_notificationcount EXCEPT ![now(t).user] = 0]
    /\ notice_count' = notice_count + 1
    /\ roomuserid_lastnotificationread' = [roomuserid_lastnotificationread EXCEPT ![now(t).user] = notice_count']
    /\ UNCHANGED <<presenceVars, notice_at, room_mutex, roomuserid_privateread, readreceiptid_readreceipt, fully_read,
                   pushVars>>

\* Our users in the room but the author, some of whom may ignore the author, and the one a
\* member event is about, be it the author.
push_target(e) == (Chatter \ {Author[e]}) \cup (Chatter \cap Target[e])

insert_pdu(t) ==
    /\ next_is(t, "insert_pdu")
    /\ LET e == now(t).event
       IN /\ notice_count' = notice_count + 1
          /\ notice_at' = [notice_at EXCEPT ![e] = notice_count']
          /\ \E ignoring \in SUBSET (Chatter \ {Author[e]}) :
                goes_on(t, <<[do |-> "push", event |-> e, push_target |-> push_target(e) \ (ignoring \ Target[e]),
                              increments |-> <<>>]>>)
    /\ UNCHANGED <<presenceVars, room_mutex, userroomid_notificationcount, userroomid_highlightcount, readVars, pushVars>>

\* The rules of each target are looked up, and a push is queued for each of their pushers. Then
\* the counts are incremented.
push(t) ==
    /\ next_is(t, "push")
    /\ LET p == now(t)
       IN IF p.push_target = {} THEN goes_on(t, p.increments \o <<does("unlock_state", Author[p.event])>>) /\ UNCHANGED push_queue
          ELSE \E u \in p.push_target :
                 LET increment(rule) == IF rule \in rules_of(u) THEN <<[do |-> "increment", user |-> u, table |-> rule]>> ELSE <<>>
                 IN /\ push_queue' = push_queue \cup {<<p.event, k>> : k \in {j \in senderkey_pusher : j[1] = u}}
                    /\ goes_on(t, <<[p EXCEPT !.push_target = @ \ {u},
                                              !.increments = increment("notify") \o @ \o increment("highlight")]>>)
    /\ UNCHANGED <<presenceVars, countVars, readVars, push_rules, senderkey_pusher, pushkey_deviceid, pushed>>

\* A count is read, and written one higher; a receipt may have reset it in between.
increment(t) ==
    /\ next_is(t, "increment")
    /\ LET u == now(t).user
           old == IF now(t).table = "notify" THEN userroomid_notificationcount[u] ELSE userroomid_highlightcount[u]
       IN goes_on(t, <<[do |-> "put_count", user |-> u, table |-> now(t).table, count |-> old + 1]>>)
    /\ UNCHANGED <<presenceVars, noticeVars>>

put_count(t) ==
    /\ next_is(t, "put_count") /\ steps_on(t)
    /\ LET put(counts, table) == IF now(t).table = table THEN [counts EXCEPT ![now(t).user] = now(t).count] ELSE counts
       IN /\ userroomid_notificationcount' = put(userroomid_notificationcount, "notify")
          /\ userroomid_highlightcount' = put(userroomid_highlightcount, "highlight")
    /\ UNCHANGED <<presenceVars, notice_at, notice_count, room_mutex, readVars, pushVars>>

unlock_state(t) ==
    /\ next_is(t, "unlock_state") /\ steps_on(t)
    /\ room_mutex' = NoAppend
    /\ UNCHANGED <<presenceVars, notice_at, notice_count, userroomid_notificationcount, userroomid_highlightcount,
                   readVars, pushVars>>

-----------------------------------------------------------------------------
(* Receipts and read markers.                                              *)

public_receipt(u, e) == <<does("remove_receipts", u), [do |-> "put_receipt", user |-> u, event |-> e]>>
private_receipt(u, e) == <<[do |-> "private_read_set", user |-> u, event |-> e]>>
fully_read_at(u, e) == <<[do |-> "put_fully_read", user |-> u, event |-> e]>>

set_read_marker_route(t, u, e) ==
    /\ \E fully, read, private \in BOOLEAN :
          begins(t, (IF fully THEN fully_read_at(u, e) ELSE <<>>)
                    \o (IF private \/ read THEN <<does("reset_notification_counts", u)>> ELSE <<>>)
                    \o pings(u, "online")
                    \o (IF read THEN public_receipt(u, e) ELSE <<>>)
                    \o (IF private THEN private_receipt(u, e) ELSE <<>>))
    /\ UNCHANGED <<presenceVars, noticeVars>>

create_receipt_route(t, u, e) ==
    /\ \/ begins(t, pings(u, "online") \o fully_read_at(u, e))
       \/ begins(t, <<does("reset_notification_counts", u)>> \o pings(u, "online") \o public_receipt(u, e))
       \/ begins(t, <<does("reset_notification_counts", u)>> \o pings(u, "online") \o private_receipt(u, e))
    /\ UNCHANGED <<presenceVars, noticeVars>>

\* Another server sends a receipt of its own user in a room it is in.
handle_edu_receipt(t, u, e) ==
    /\ begins(t, public_receipt(u, e))
    /\ UNCHANGED <<presenceVars, noticeVars>>

remove_receipts(t) ==
    /\ next_is(t, "remove_receipts") /\ steps_on(t)
    /\ readreceiptid_readreceipt' = {x \in readreceiptid_readreceipt : x.user # now(t).user}
    /\ UNCHANGED <<presenceVars, countVars, roomuserid_lastnotificationread, roomuserid_privateread, fully_read, pushVars>>

put_receipt(t) ==
    /\ next_is(t, "put_receipt") /\ steps_on(t)
    /\ notice_count' = notice_count + 1
    /\ readreceiptid_readreceipt' = readreceiptid_readreceipt \cup
            {[user |-> now(t).user, count |-> notice_count', event |-> now(t).event]}
    /\ UNCHANGED <<presenceVars, notice_at, room_mutex, userroomid_notificationcount, userroomid_highlightcount,
                   roomuserid_lastnotificationread, roomuserid_privateread, fully_read, pushVars>>

\* The event must be in the timeline.
private_read_set(t) ==
    /\ next_is(t, "private_read_set") /\ steps_on(t)
    /\ LET at == notice_at[now(t).event]
       IN IF at = 0 THEN UNCHANGED <<notice_count, roomuserid_privateread>>
          ELSE /\ notice_count' = notice_count + 1
               /\ roomuserid_privateread' = [roomuserid_privateread EXCEPT ![now(t).user] = <<at, notice_count'>>]
    /\ UNCHANGED <<presenceVars, notice_at, room_mutex, userroomid_notificationcount, userroomid_highlightcount,
                   roomuserid_lastnotificationread, readreceiptid_readreceipt, fully_read, pushVars>>

put_fully_read(t) ==
    /\ next_is(t, "put_fully_read") /\ steps_on(t)
    /\ fully_read' = [fully_read EXCEPT ![now(t).user] = {now(t).event}]
    /\ UNCHANGED <<presenceVars, countVars, roomuserid_lastnotificationread, roomuserid_privateread,
                   readreceiptid_readreceipt, pushVars>>

-----------------------------------------------------------------------------
(* Push rules are read, changed and written as a whole.                    *)

changes(u, adds, drops) == <<[do |-> "read_rules", user |-> u, adds |-> adds, drops |-> drops]>>

set_pushrule_route(t, u) ==
    /\ \E rule \in Rule : begins(t, changes(u, {rule}, {}))
    /\ UNCHANGED <<presenceVars, noticeVars>>

delete_pushrule_route(t, u) ==
    /\ \E rule \in Rule : begins(t, changes(u, {}, {rule}))
    /\ UNCHANGED <<presenceVars, noticeVars>>

set_pushrule_enabled_route(t, u) ==
    /\ \E rule \in Rule : begins(t, changes(u, {rule}, {})) \/ begins(t, changes(u, {}, {rule}))
    /\ UNCHANGED <<presenceVars, noticeVars>>

set_pushrule_actions_route(t, u) ==
    /\ \E actions \in SUBSET Rule : begins(t, changes(u, actions, Rule \ actions))
    /\ UNCHANGED <<presenceVars, noticeVars>>

\* A user without rules gets the default ones when they are listed; a change finds none.
get_pushrules_all_route(t, u) ==
    /\ u \notin DOMAIN push_rules
    /\ begins(t, <<[do |-> "write_rules", user |-> u, rules |-> server_default]>>)
    /\ UNCHANGED <<presenceVars, noticeVars>>

read_rules(t) ==
    /\ next_is(t, "read_rules")
    /\ LET r == now(t)
       IN goes_on(t, IF r.user \notin DOMAIN push_rules THEN <<>>
                     ELSE <<[do |-> "write_rules", user |-> r.user,
                             rules |-> (push_rules[r.user] \cup r.adds) \ r.drops]>>)
    /\ UNCHANGED <<presenceVars, noticeVars>>

write_rules(t) ==
    /\ next_is(t, "write_rules") /\ steps_on(t)
    /\ push_rules' = [u \in DOMAIN push_rules \cup {now(t).user} |-> IF u = now(t).user THEN now(t).rules ELSE push_rules[u]]
    /\ UNCHANGED <<presenceVars, countVars, readVars, senderkey_pusher, pushkey_deviceid, push_queue, pushed>>

-----------------------------------------------------------------------------
(* Pushers, and the sender that takes the pushes to their gateways.        *)

set_pusher(t, u, k) ==
    /\ begins(t, <<[do |-> "put_pusher", user |-> u, key |-> k], [do |-> "put_pusher_device", user |-> u, key |-> k]>>)
    /\ UNCHANGED <<presenceVars, noticeVars>>

delete_pusher(t, u, k) ==
    /\ begins(t, <<[do |-> "del_pusher", user |-> u, key |-> k], [do |-> "cleanup_events", user |-> u, key |-> k]>>)
    /\ UNCHANGED <<presenceVars, noticeVars>>

pusher_step(t) ==
    /\ ~idle(t) /\ now(t).do \in {"put_pusher", "put_pusher_device", "del_pusher", "cleanup_events"} /\ steps_on(t)
    /\ LET s == now(t)
           pusher == <<s.user, s.key>>
       IN /\ senderkey_pusher' = IF s.do = "put_pusher" THEN senderkey_pusher \cup {pusher}
                                 ELSE IF s.do = "del_pusher" THEN senderkey_pusher \ {pusher} ELSE senderkey_pusher
          /\ pushkey_deviceid' = IF s.do = "put_pusher_device" THEN pushkey_deviceid \cup {s.key}
                                 ELSE IF s.do = "del_pusher" THEN pushkey_deviceid \ {s.key} ELSE pushkey_deviceid
          /\ push_queue' = IF s.do = "cleanup_events" THEN {x \in push_queue : x[2] # pusher} ELSE push_queue
    /\ UNCHANGED <<presenceVars, countVars, readVars, push_rules, pushed>>

\* The pusher and the rules are looked up again. A push without its pusher fails, and stays in the
\* queue; one that the gateway does not take is not sent again.
send_push_notice ==
    /\ \E x \in push_queue, taken \in BOOLEAN :
          /\ x[2] \in senderkey_pusher
          /\ push_queue' = push_queue \ {x}
          /\ pushed' = IF "notify" \in rules_of(x[2][1]) /\ taken THEN pushed \cup {x} ELSE pushed
    /\ UNCHANGED <<presenceVars, countVars, readVars, push_rules, senderkey_pusher, pushkey_deviceid, taskVars>>

-----------------------------------------------------------------------------
InitNotices ==
    /\ notice_at = [e \in Notice |-> IF e \in Unread THEN 1 ELSE 0] /\ notice_count = 1 /\ room_mutex = NoAppend
    /\ userroomid_notificationcount = [u \in Seen |-> IF u \in Chatter THEN Cardinality(Unread) ELSE 0]
    /\ userroomid_highlightcount = [u \in Seen |-> 0]
    /\ roomuserid_lastnotificationread = [u \in Seen |-> 0] /\ roomuserid_privateread = [u \in Seen |-> <<0, 0>>]
    /\ readreceiptid_readreceipt = {} /\ fully_read = [u \in Seen |-> {}]
    /\ push_rules \in {[u \in users |-> server_default] : users \in {{}, Chatter}}
    /\ senderkey_pusher = {} /\ pushkey_deviceid = {} /\ push_queue = {} /\ pushed = {}

noticesDone ==
    /\ all_idle /\ started = MaxStarted /\ \A x \in push_queue : x[2] \notin senderkey_pusher
    /\ UNCHANGED <<presenceVars, noticeVars, taskVars>>

NextNotices ==
    \/ \E t \in Task :
          \/ \E e \in Notice : append_notice(t, e)
          \/ lock_state(t) \/ mark_own(t) \/ reset_notification_counts(t) \/ insert_pdu(t) \/ push(t)
          \/ increment(t) \/ put_count(t) \/ unlock_state(t)
          \/ \E u \in Chatter, e \in Notice : set_read_marker_route(t, u, e) \/ create_receipt_route(t, u, e)
          \/ \E u \in Afar, e \in Notice : handle_edu_receipt(t, u, e)
          \/ remove_receipts(t) \/ put_receipt(t) \/ private_read_set(t) \/ put_fully_read(t)
          \/ \E u \in Chatter :
               \/ set_pushrule_route(t, u) \/ delete_pushrule_route(t, u) \/ set_pushrule_enabled_route(t, u)
               \/ set_pushrule_actions_route(t, u) \/ get_pushrules_all_route(t, u)
          \/ read_rules(t) \/ write_rules(t)
          \/ \E u \in Chatter, k \in Pushkey : set_pusher(t, u, k) \/ delete_pusher(t, u, k)
          \/ pusher_step(t)
          \/ presence_steps(t) /\ UNCHANGED noticeVars
    \/ send_push_notice
    \/ noticesDone

\* What a user sends clears what was unread before it: the count of unread events of a user is
\* never more than the events pushed to them since the last event of their own. It holds although
\* increments read and write the count in two steps beside receipts that reset it, because the
\* reset of an event's author and the increments of an event are both under the mutex of the room.
OwnMessageClears ==
    \A u \in Chatter :
       LET own == {notice_at[e] : e \in {d \in Notice : Author[d] = u}}
           since == {e \in Notice : notice_at[e] # 0 /\ u \in push_target(e) /\ \A n \in own : n <= notice_at[e]}
       IN userroomid_notificationcount[u] <= Cardinality(since)
=============================================================================
