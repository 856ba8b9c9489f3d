----------------------------- MODULE Migrations -----------------------------
(***************************************************************************)
(* What a start does to the database before anything is served: a new one  *)
(* is filled, an old one is migrated. Every migration reads a table row by *)
(* row, writes as it goes, and is marked as done at its end; a crash in    *)
(* between leaves it to the next start, on what it has done so far.        *)
(*                                                                         *)
(* There is one room. Writes reach the disk in their order, so that those  *)
(* a crash loses are the last ones: it is as if it had come earlier.       *)
(***************************************************************************)
EXTENDS Integers, SequencesExt, FiniteSetsExt

CONSTANTS Database,    \* the databases that a start may find
          Bot,         \* the server's own user
          ADMIN_EVENTS,\* events of the admin room
          MaxHalts     \* bound: crashes and stops

VARIABLES store,       \* the database
          before_start,\* the database that was found first
          plan,        \* what the start has yet to do
          server,      \* "stopped", "starting", "serving" or "refused"
          halts

migrationVars == <<store, before_start, plan, server, halts>>

DATABASE_VERSION == 17
fixes == <<"feat_sha256_media", "fix_bad_double_separator_in_state_cache",
           "retroactively_fix_bad_data_from_roomuserid_joined",
           "fix_referencedevents_missing_sep", "fix_readreceiptid_readreceipt_duplicates">>
Fixes == ToSet(fixes)

ASSUME MigrationsAssumption ==
    /\ ADMIN_EVENTS \in Nat /\ MaxHalts \in Nat
    /\ \A d \in Database : d.version \in Nat /\ d.done \subseteq Fixes

takes_step(what) == <<[do |-> what]>>
step_for(what, x) == <<[do |-> what, on |-> x]>>
for_each(what, xs) == [i \in DOMAIN xs |-> [do |-> what, on |-> xs[i]]]
next_step(what) == server = "starting" /\ plan # <<>> /\ Head(plan).do = what
on == Head(plan).on

\* The step is taken, and turns out to consist of others.
continues(steps) == plan' = steps \o Tail(plan) /\ UNCHANGED <<before_start, server, halts>>
writes_store(new) == store' = new /\ continues(<<>>)
marks_done(fix) == step_for("insert_flag", fix)

-----------------------------------------------------------------------------
(* The start.                                                              *)

fresh_without_newest_flag ==
    step_for("bump_database_version", DATABASE_VERSION)
    \o for_each("insert_flag", Front(fixes))
    \o takes_step("create_server_user") \o [i \in 1 .. ADMIN_EVENTS |-> [do |-> "admin_room_event"]]

\* The server's user comes after the version and the flags: without it, the next start begins
\* anew.
fresh ==
    step_for("bump_database_version", DATABASE_VERSION)
    \o for_each("insert_flag", fixes)
    \o takes_step("create_server_user") \o [i \in 1 .. ADMIN_EVENTS |-> [do |-> "admin_room_event"]]

migrate ==
    takes_step("db_lt_11") \o takes_step("db_lt_12") \o takes_step("db_lt_13") \o takes_step("sha256_media")
    \o takes_step("double_separator") \o takes_step("bad_joined") \o takes_step("referenced_events") \o takes_step("read_receipts")
    \o takes_step("db_lt_17") \o takes_step("version_is_latest")

migrations ==
    /\ server = "stopped"
    /\ IF store.users = {} THEN plan' = fresh /\ server' = "starting"
       ELSE IF Bot \in store.users THEN plan' = migrate /\ server' = "starting"
       ELSE plan' = <<>> /\ server' = "refused"
    /\ UNCHANGED <<store, before_start, halts>>

refuses == server' = "refused" /\ plan' = <<>> /\ UNCHANGED <<store, before_start, halts>>

serve_requests ==
    /\ server = "starting" /\ plan = <<>> /\ server' = "serving"
    /\ UNCHANGED <<store, before_start, plan, halts>>

\* The process ends, in the middle of the start or later.
halt ==
    /\ server \in {"starting", "serving"} /\ halts < MaxHalts
    /\ halts' = halts + 1 /\ server' = "stopped" /\ plan' = <<>>
    /\ UNCHANGED <<store, before_start>>

-----------------------------------------------------------------------------
(* A new database.                                                         *)

bump_database_version ==
    next_step("bump_database_version") /\ writes_store([store EXCEPT !.version = on])
insert_flag == next_step("insert_flag") /\ writes_store([store EXCEPT !.done = @ \cup {on}])
create_server_user == next_step("create_server_user") /\ writes_store([store EXCEPT !.users = @ \cup {Bot}])
admin_room_event == next_step("admin_room_event") /\ writes_store([store EXCEPT !.admin_room = @ + 1])

-----------------------------------------------------------------------------
(* Push rules: names that were misspelt, and the default rules. Accounts   *)
(* without a password are passed over; every other one has push rules. An  *)
(* update counts from when the index has it.                               *)

list_local_users == store.users \cap store.password
unless_done(steps, done) == continues(IF done THEN <<>> ELSE steps) /\ UNCHANGED store

db_lt_11 == next_step("db_lt_11") /\ IF store.version < 11 THEN refuses ELSE continues(<<>>) /\ UNCHANGED store
db_lt_12 ==
    /\ next_step("db_lt_12")
    /\ unless_done(for_each("rename_rules", SetToSeq(list_local_users)) \o step_for("bump_database_version", 12),
                   store.version >= 12)
db_lt_13 ==
    /\ next_step("db_lt_13")
    /\ unless_done(for_each("default_rules", SetToSeq(list_local_users)) \o step_for("bump_database_version", 13),
                   store.version >= 13)

rename_rules == next_step("rename_rules") /\ writes_store([store EXCEPT !.misspelt = @ \ {on}])
default_rules == next_step("default_rules") /\ writes_store([store EXCEPT !.outdated = @ \ {on}])

\* The files are another matter (Media).
sha256_media ==
    /\ next_step("sha256_media")
    /\ unless_done(marks_done("feat_sha256_media"), "feat_sha256_media" \in store.done)

-----------------------------------------------------------------------------
(* Keys of roomuserid_joined with two separators. A key is removed before  *)
(* it is put back.                                                         *)

fix_bad_double_separator ==
    FlattenSeq([i \in DOMAIN SetToSeq(store.doubled) |->
                   step_for("remove_doubled", SetToSeq(store.doubled)[i])
                   \o step_for("put_joined", SetToSeq(store.doubled)[i])])
double_separator ==
    /\ next_step("double_separator")
    /\ unless_done(fix_bad_double_separator \o marks_done("fix_bad_double_separator_in_state_cache"),
                   "fix_bad_double_separator_in_state_cache" \in store.done)
remove_doubled == next_step("remove_doubled") /\ writes_store([store EXCEPT !.doubled = @ \ {on}])
put_joined == next_step("put_joined") /\ writes_store([store EXCEPT !.room_joined = @ \cup {on}])

-----------------------------------------------------------------------------
(* Memberships that the broken keys had left wrong. Those who are to be    *)
(* marked as joined, and those to be marked as left, are chosen by the     *)
(* same test. The rows of invitations and knocks are left out (Membership).*)

joined_members == SetToSeq(store.room_joined \cap store.state_joined)
non_joined_members == SetToSeq(store.room_joined \cap store.state_joined)

bad_joined ==
    /\ next_step("bad_joined")
    /\ unless_done(for_each("mark_as_joined", joined_members) \o for_each("mark_as_left", non_joined_members)
                   \o takes_step("update_joined_count") \o marks_done("retroactively_fix_bad_data_from_roomuserid_joined"),
                   "retroactively_fix_bad_data_from_roomuserid_joined" \in store.done)

mark_as_joined ==
    /\ next_step("mark_as_joined")
    /\ continues(step_for("put_user_joined", on) \o step_for("put_joined", on) \o step_for("remove_left", on))
    /\ UNCHANGED store
mark_as_left ==
    /\ next_step("mark_as_left")
    /\ continues(step_for("put_left", on) \o step_for("remove_user_joined", on) \o step_for("remove_joined", on))
    /\ UNCHANGED store
put_user_joined == next_step("put_user_joined") /\ writes_store([store EXCEPT !.user_joined = @ \cup {on}])
remove_left == next_step("remove_left") /\ writes_store([store EXCEPT !.left = @ \ {on}])
put_left == next_step("put_left") /\ writes_store([store EXCEPT !.left = @ \cup {on}])
remove_user_joined == next_step("remove_user_joined") /\ writes_store([store EXCEPT !.user_joined = @ \ {on}])
remove_joined == next_step("remove_joined") /\ writes_store([store EXCEPT !.room_joined = @ \ {on}])
update_joined_count ==
    next_step("update_joined_count") /\ writes_store([store EXCEPT !.joined_count = Cardinality(store.room_joined)])

-----------------------------------------------------------------------------
(* Keys of referencedevents without a separator. A key is put before the   *)
(* one it replaces is removed.                                             *)

fix_referencedevents(e) == step_for("put_reference", e) \o step_for("remove_reference", e)
referenced_events ==
    LET missing == SetToSeq(store.unseparated)
    IN /\ next_step("referenced_events")
       /\ unless_done(FlattenSeq([i \in DOMAIN missing |-> fix_referencedevents(missing[i])])
                      \o marks_done("fix_referencedevents_missing_sep"),
                      "fix_referencedevents_missing_sep" \in store.done /\ store.version >= 17)
put_reference == next_step("put_reference") /\ writes_store([store EXCEPT !.references = @ \cup {on}])
remove_reference == next_step("remove_reference") /\ writes_store([store EXCEPT !.unseparated = @ \ {on}])

-----------------------------------------------------------------------------
(* Receipts that were not removed when newer ones came. They are read in   *)
(* their order; one that follows another of its user is removed.           *)

in_order == SetToSortSeq(store.receipts, LAMBDA a, b : a[1] < b[1])
duplicates ==
    {i \in DOMAIN in_order : i > 1 /\ in_order[i][2] = in_order[i - 1][2]}
read_receipts ==
    /\ next_step("read_receipts")
    /\ unless_done([i \in 1 .. Cardinality(duplicates) |->
                       [do |-> "del_receipt", on |-> in_order[SetToSortSeq(duplicates, <)[i]]]]
                   \o marks_done("fix_readreceiptid_readreceipt_duplicates"),
                   "fix_readreceiptid_readreceipt_duplicates" \in store.done /\ store.version >= 17)
del_receipt == next_step("del_receipt") /\ writes_store([store EXCEPT !.receipts = @ \ {on}])

db_lt_17 ==
    /\ next_step("db_lt_17")
    /\ unless_done(step_for("bump_database_version", 17), store.version >= 17)
version_is_latest ==
    next_step("version_is_latest") /\ IF store.version # DATABASE_VERSION THEN refuses ELSE continues(<<>>) /\ UNCHANGED store

-----------------------------------------------------------------------------
migrationDone == (server = "refused" \/ (server = "serving" /\ halts = MaxHalts)) /\ UNCHANGED migrationVars

InitMigrations ==
    store \in Database /\ before_start = store /\ plan = <<>> /\ server = "stopped" /\ halts = 0
IdleMigrations ==
    store = (CHOOSE d \in Database : TRUE) /\ before_start = store /\ plan = <<>> /\ server = "refused" /\ halts = 0

NextMigrations ==
    \/ migrations \/ serve_requests \/ halt \/ migrationDone
    \/ bump_database_version \/ insert_flag \/ create_server_user \/ admin_room_event
    \/ db_lt_11 \/ db_lt_12 \/ rename_rules \/ db_lt_13 \/ default_rules \/ sha256_media
    \/ double_separator \/ remove_doubled \/ put_joined
    \/ bad_joined \/ mark_as_joined \/ put_user_joined \/ remove_left
    \/ mark_as_left \/ put_left \/ remove_user_joined \/ remove_joined \/ update_joined_count
    \/ referenced_events \/ put_reference \/ remove_reference \/ read_receipts \/ del_receipt
    \/ db_lt_17 \/ version_is_latest

\* Whatever starts were broken off before, what is served is a migrated database of the latest
\* version: nothing is left of what the migrations fix, no reference between events is lost,
\* and whoever had a receipt has one. The memberships are left out, which the migrations do not
\* keep.
MigratedWhole ==
    server = "serving" =>
        /\ store.version = DATABASE_VERSION /\ store.done = Fixes
        /\ list_local_users \cap (store.misspelt \cup store.outdated) = {}
        /\ store.doubled = {} /\ store.unseparated = {}
        /\ store.references = before_start.references \cup before_start.unseparated
        /\ duplicates = {} /\ {r[2] : r \in store.receipts} = {r[2] : r \in before_start.receipts}
=============================================================================
