-------------------------------- MODULE Keys --------------------------------
(***************************************************************************)
(* The end-to-end encryption keys the server keeps for clients: one-time   *)
(* keys, cross-signing keys and their signatures, the announcement of key  *)
(* changes, and messages between devices. Keys are read, checked and       *)
(* written back in separate steps; requests interleave between them.       *)
(***************************************************************************)
EXTENDS Tasks

CONSTANTS OneTimeKey,   \* one-time keys a device of ours uploads
          Signer,       \* local users who sign the master key of a remote user
          Message       \* the messages of one sendToDevice transaction

ASSUME MessageAssumption == Cardinality(Message) \in Nat

VARIABLES one_time_keys,  \* onetimekeyid_onetimekeys of the device
          cross_signing,  \* the three cross-signing keys of a local user; 0: none
          unasked,        \* keys replaced by a request that did not authenticate
          raced_upload,   \* whether two uploads of them overlapped
          signatures,     \* signers in the remote user's master key in keyid_key
          announced,      \* whether keychangeid_userid has a row after the last change
          inbox,          \* how often each message is in todeviceid_events
          txnid           \* whether the transaction's ID is saved

crossVars == <<cross_signing, unasked, raced_upload>>
deviceVars == <<inbox, txnid>>
keysVars == <<one_time_keys, crossVars, signatures, announced, deviceVars>>

Part == {"master", "user", "self"}
Uploads == [Part -> 0 .. 2]     \* 0: the request has no such key

\* Another task is to take such a step.
others_do(t, what) ==
    \E s \in Task \ {t} : \E i \in 1 .. Len(work[s]) : work[s][i].do = what

mark_device_key_update == << [do |-> "announce"] >>

key_is_announced(t) ==
    /\ next_is(t, "announce") /\ steps_on(t)
    /\ announced' = TRUE
    /\ UNCHANGED <<one_time_keys, crossVars, signatures, deviceVars>>

-----------------------------------------------------------------------------
(* One-time keys.                                                          *)

\* A client that missed the answer uploads its keys again.
upload_keys_route(t) ==
    \E k \in OneTimeKey, device_keys \in BOOLEAN :
        /\ begins(t, << [do |-> "add_one_time_key", k |-> k] >>
                     \o IF device_keys THEN << [do |-> "add_device_keys"] >> ELSE <<>>)
        /\ UNCHANGED keysVars

add_one_time_key(t) ==
    /\ next_is(t, "add_one_time_key") /\ steps_on(t)
    /\ one_time_keys' = one_time_keys \cup {now(t).k}
    /\ UNCHANGED <<crossVars, signatures, deviceVars, announced>>

\* The same keys again are ignored.
add_device_keys(t) ==
    /\ next_is(t, "add_device_keys")
    /\ \E same \in BOOLEAN :
        /\ goes_on(t, IF same THEN <<>> ELSE mark_device_key_update)
        /\ announced' = (announced /\ same)
    /\ UNCHANGED <<one_time_keys, crossVars, signatures, deviceVars>>

claim_keys_route(t) ==
    /\ begins(t, << [do |-> "take_one_time_key"] >>)
    /\ UNCHANGED keysVars

\* The first key of the device is read, and removed; nothing is found when there is none.
take_one_time_key(t) ==
    /\ next_is(t, "take_one_time_key")
    /\ goes_on(t, IF one_time_keys = {} THEN <<>>
                  ELSE << [do |-> "remove_one_time_key",
                           k |-> CHOOSE k \in one_time_keys : TRUE] >>)
    /\ UNCHANGED keysVars

one_time_key_is_removed(t) ==
    /\ next_is(t, "remove_one_time_key") /\ steps_on(t)
    /\ one_time_keys' = one_time_keys \ {now(t).k}
    /\ UNCHANGED <<crossVars, signatures, deviceVars, announced>>

-----------------------------------------------------------------------------
(* Cross-signing keys.                                                     *)

\* Whether the request may go on without authentication: "same" when it uploads what
\* there is, "new" when there was no master key, else "auth".
check_for_new_keys_any_missing(keys) ==
    IF \E p \in Part : keys[p] # 0 /\ cross_signing[p] = 0 THEN "new"
    ELSE IF \A p \in Part : keys[p] \in {0, cross_signing[p]} THEN "same"
    ELSE "auth"
check_for_new_keys(keys) ==
    LET empty == keys["master"] # 0 /\ cross_signing["master"] = 0
        changes(p) == keys[p] # 0 /\ cross_signing[p] \notin {0, keys[p]}
        alone(p) == keys[p] # 0 /\ cross_signing[p] = 0 /\ ~empty
    IN IF (\E p \in Part : changes(p)) \/ alone("user") \/ alone("self") THEN "auth"
       ELSE IF empty THEN "new" ELSE "same"

upload_signing_keys_route(t) ==
    \E keys \in Uploads, password \in BOOLEAN :
        LET found == check_for_new_keys(keys)
        IN /\ found = "new" \/ (found = "auth" /\ password)
           /\ begins(t, << [do |-> "add_cross_signing_keys", keys |-> keys,
                            asked |-> found = "auth"] >> \o mark_device_key_update)
           /\ raced_upload' = (raced_upload \/ others_do(t, "add_cross_signing_keys"))
           /\ UNCHANGED <<one_time_keys, cross_signing, unasked, signatures, deviceVars, announced>>

add_cross_signing_keys(t) ==
    /\ next_is(t, "add_cross_signing_keys") /\ steps_on(t)
    /\ LET replaces(p) == now(t).keys[p] # 0
       IN /\ cross_signing' = [p \in Part |-> IF replaces(p) THEN now(t).keys[p]
                                              ELSE cross_signing[p]]
          /\ unasked' = unasked \cup {p \in Part : /\ replaces(p) /\ ~now(t).asked
                                                   /\ cross_signing[p] \notin {0, now(t).keys[p]}}
    /\ announced' = FALSE
    /\ UNCHANGED <<one_time_keys, raced_upload, signatures, deviceVars>>

-----------------------------------------------------------------------------
(* Signatures of the master key of a remote user.                          *)

upload_signatures_route(t) ==
    \E s \in Signer :
        /\ begins(t, << [do |-> "read_key", s |-> s] >>)
        /\ UNCHANGED keysVars

\* The key is read with the signatures it has, and written back with one more.
sign_key(t) ==
    /\ next_is(t, "read_key")
    /\ goes_on(t, << [do |-> "write_key", with |-> signatures \cup {now(t).s}, by |-> {now(t).s}] >>
                  \o mark_device_key_update)
    /\ UNCHANGED keysVars

\* A query of a local user gets the key from its server; what the database adds to it
\* is only the signatures this user may see.
get_keys_helper(t) ==
    \E s \in Signer :
        /\ begins(t, << [do |-> "write_key", with |-> signatures \cap {s}, by |-> {}] >>)
        /\ UNCHANGED keysVars

key_is_written_back(t) ==
    /\ next_is(t, "write_key") /\ steps_on(t)
    /\ signatures' = now(t).with
    /\ announced' = (announced /\ now(t).by = {})
    /\ UNCHANGED <<one_time_keys, crossVars, deviceVars>>

-----------------------------------------------------------------------------
(* Messages to devices: a transaction's ID is looked up before its messages *)
(* are stored and saved afterwards. An invalid message ends it half-way.   *)

send_event_to_device_route(t) ==
    /\ ~txnid
    /\ \E order \in [1 .. Cardinality(Message) -> Message] :
          /\ \A m \in Message : \E i \in DOMAIN order : order[i] = m
          /\ begins(t, [i \in DOMAIN order |-> [do |-> "to_device", m |-> order[i]]]
                       \o << [do |-> "add_txnid"] >>)
    /\ UNCHANGED <<one_time_keys, crossVars, signatures, inbox, txnid, announced>>

add_to_device_event(t) ==
    /\ next_is(t, "to_device") /\ steps_on(t)
    /\ inbox' = [inbox EXCEPT ![now(t).m] = @ + 1]
    /\ UNCHANGED <<one_time_keys, crossVars, signatures, txnid, announced>>

to_device_event_is_invalid(t) ==
    /\ next_is(t, "to_device") /\ ends_with(t, <<>>)
    /\ UNCHANGED <<one_time_keys, crossVars, signatures, inbox, txnid, announced>>

add_txnid(t) ==
    /\ next_is(t, "add_txnid") /\ steps_on(t)
    /\ txnid' = TRUE
    /\ UNCHANGED <<one_time_keys, crossVars, signatures, inbox, announced>>

-----------------------------------------------------------------------------
\* A device that has uploaded its one-time keys.
InitKeys ==
    /\ one_time_keys = OneTimeKey 
    /\ cross_signing = [p \in Part |-> 0] /\ unasked = {} /\ raced_upload = FALSE
    /\ signatures = {}
    /\ announced = TRUE
    /\ inbox = [m \in Message |-> 0] /\ txnid = FALSE

keysDone == all_idle /\ UNCHANGED <<keysVars, taskVars>>

NextKeys ==
    \/ \E t \in Task :
        \/ upload_keys_route(t)
        \/ add_one_time_key(t)
        \/ add_device_keys(t)
        \/ claim_keys_route(t)
        \/ take_one_time_key(t)
        \/ one_time_key_is_removed(t)
        \/ upload_signing_keys_route(t)
        \/ add_cross_signing_keys(t)
        \/ upload_signatures_route(t)
        \/ sign_key(t)
        \/ get_keys_helper(t)
        \/ key_is_written_back(t)
        \/ key_is_announced(t)
        \/ send_event_to_device_route(t)
        \/ add_to_device_event(t)
        \/ to_device_event_is_invalid(t)
        \/ add_txnid(t)
    \/ keysDone

SpecKeys == InitKeys /\ InitTasks(0) /\ [][NextKeys]_<<keysVars, taskVars>>

-----------------------------------------------------------------------------
KeysTypeOK ==
    /\ one_time_keys \subseteq OneTimeKey
    /\ cross_signing \in [Part -> 0 .. 2]
    /\ signatures \subseteq Signer
    /\ announced \in BOOLEAN /\ txnid \in BOOLEAN
    /\ inbox \in [Message -> 0 .. MaxStarted]

\* Without authentication an upload may set up cross-signing but replace no key that was
\* there (check_for_new_keys, MSC3967), unless two uploads overlapped.
ReplacedWithPassword == unasked = {} \/ raced_upload

-----------------------------------------------------------------------------
(* An inductive invariant. Of the steps a task has yet to take only the    *)
(* first can be an upload of cross-signing keys.                           *)

Upload == [do : {"add_cross_signing_keys"}, keys : Uploads, asked : BOOLEAN]
KeyRequest ==
    [do : {"announce", "add_device_keys", "take_one_time_key", "add_txnid"}]
    \cup [do : {"add_one_time_key", "remove_one_time_key"}, k : OneTimeKey]
    \cup [do : {"read_key"}, s : Signer]
    \cup [do : {"write_key"}, with : SUBSET Signer, by : SUBSET Signer]
    \cup [do : {"to_device"}, m : Message]
KeyPlan(q) ==
    \/ q \in Seq(KeyRequest)
    \/ q # <<>> /\ Head(q) \in Upload /\ Tail(q) \in Seq(KeyRequest)

\* As long as no two uploads overlapped, an upload that was let through without authentication
\* finds the keys as check_for_new_keys found them, since no other is under way.
Undisturbed(t) ==
    next_is(t, "add_cross_signing_keys") =>
        /\ \A s \in Task \ {t} : ~next_is(s, "add_cross_signing_keys")
        /\ ~now(t).asked => \A p \in Part : now(t).keys[p] # 0 => cross_signing[p] \in {0, now(t).keys[p]}
KeysInv ==
    /\ one_time_keys \subseteq OneTimeKey /\ signatures \subseteq Signer
    /\ DOMAIN work = Task /\ \A t \in Task : KeyPlan(work[t])
    /\ raced_upload \in BOOLEAN
    /\ ~raced_upload => unasked = {} /\ \A t \in Task : Undisturbed(t)
=============================================================================
