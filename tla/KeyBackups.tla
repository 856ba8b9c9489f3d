----------------------------- MODULE KeyBackups -----------------------------
(***************************************************************************)
(* Server-side backups of room keys: versions of a backup, their etags and *)
(* the keys of each. A version is a number of the global counter kept as a *)
(* decimal string, and strings are what the database orders. One user, one *)
(* room; the keys of a session differ in what makes one better.            *)
(***************************************************************************)
EXTENDS Tasks

CONSTANTS Session,      \* sessions of the room
          FirstCount    \* the global counter when the first version was made

ASSUME KeyBackupsAssumption == FirstCount \in Nat /\ MaxStarted \in Nat

VARIABLES counter,      \* globals::next_count
          algorithm,    \* backupid_algorithm: the versions there are
          etag,         \* backupid_etag; 0: no row
          backup,       \* backupkeyid_backup; a key of each version and session
          raced_session,\* whether two requests wrote a key at once
          worsened      \* whether a session's key was replaced by a worse one

backupHistory == <<raced_session, worsened>>
backupVars == <<counter, algorithm, etag, backup, backupHistory>>

Version == FirstCount .. FirstCount + 2 * MaxStarted + 1
KeyData == [verified : BOOLEAN, first_message_index : 0 .. 1, forwarded_count : 0 .. 1]
NoKeyData == [verified |-> FALSE, first_message_index |-> 9, forwarded_count |-> 9]

\* The order of decimal strings of up to two digits.
as_string(n) == IF n < 10 THEN 11 * n ELSE 11 * (n \div 10) + 1 + (n % 10)

get_latest_backup_version(vs) == CHOOSE v \in vs : \A w \in vs : as_string(w) <= as_string(v)

\* Only the latest version may be written to, if there is one.
may_manipulate(v) == algorithm # {} => get_latest_backup_version(algorithm) = v

\* Verified first, then the lower index, then fewer forwards.
ok_to_replace_same(old, new) ==
    IF old.verified # new.verified THEN ~old.verified
    ELSE new.first_message_index <= old.first_message_index
ok_to_replace(old, new) ==
    \/ old = NoKeyData
    \/ IF old.verified # new.verified THEN ~old.verified
       ELSE \/ new.first_message_index < old.first_message_index
            \/ /\ new.first_message_index = old.first_message_index
               /\ new.forwarded_count < old.forwarded_count

\* The better a key the lower its rank: what ok_to_replace is to preserve.
rank(k) == (IF k.verified THEN 0 ELSE 4) + 2 * k.first_message_index + k.forwarded_count

\* Another task has yet to do this to the version.
others_write(t, v, kinds) ==
    \E s \in Task \ {t} : \E i \in 1 .. Len(work[s]) :
        work[s][i].v = v /\ work[s][i].do \in kinds

-----------------------------------------------------------------------------
request_of(t, steps) == begins(t, steps) /\ UNCHANGED <<algorithm, etag, backup, backupHistory>>

answer(v) == << [do |-> "get_etag", v |-> v] >>

create_backup_version_route(t) ==
    /\ counter' = counter + 2
    /\ request_of(t, << [do |-> "put_algorithm", v |-> counter + 1],
                        [do |-> "put_etag", v |-> counter + 1, n |-> counter + 2] >>)

update_backup_version_route(t) ==
    \E v \in algorithm :
        /\ counter' = counter + 1
        /\ request_of(t, << [do |-> "put_etag", v |-> v, n |-> counter + 1],
                            [do |-> "put_algorithm", v |-> v] >>)

delete_backup_version_route(t) ==
    \E v \in algorithm :
        /\ request_of(t, << [do |-> "del_algorithm", v |-> v], [do |-> "del_etag", v |-> v],
                            [do |-> "del_keys", v |-> v, ss |-> Session] >>)
        /\ UNCHANGED counter

\* Every key of the request is added, better or not.
add_backup_keys_route(t) ==
    \E v \in Version, s \in Session, k \in KeyData :
        /\ may_manipulate(v)
        /\ request_of(t, << [do |-> "add_key", v |-> v, s |-> s, k |-> k, old |-> k] >>
                         \o answer(v))
        /\ UNCHANGED counter

\* With one room the keys of the room are those of the backup.
add_backup_keys_for_room_route(t) == add_backup_keys_route(t)

add_backup_keys_for_session_route(t) ==
    \E v \in Version, s \in Session, k \in KeyData :
        /\ may_manipulate(v)
        /\ LET old == backup[<<v, s>>]
           IN request_of(t, (IF ok_to_replace(old, k)
                             THEN << [do |-> "add_key", v |-> v, s |-> s, k |-> k, old |-> old] >>
                             ELSE <<>>) \o answer(v))
        /\ UNCHANGED counter

delete_backup_keys_route(t) ==
    \E v \in Version, ss \in SUBSET Session \ {{}} :
        /\ request_of(t, << [do |-> "del_keys", v |-> v, ss |-> ss] >> \o answer(v))
        /\ UNCHANGED counter

delete_backup_keys_for_room_route(t) == delete_backup_keys_route(t)

-----------------------------------------------------------------------------
algorithm_is_put(t) ==
    /\ next_is(t, "put_algorithm") /\ steps_on(t)
    /\ algorithm' = algorithm \cup {now(t).v}
    /\ UNCHANGED <<counter, etag, backup, backupHistory>>

etag_is_put(t) ==
    /\ next_is(t, "put_etag") /\ steps_on(t)
    /\ etag' = [etag EXCEPT ![now(t).v] = now(t).n]
    /\ UNCHANGED <<counter, algorithm, backup, backupHistory>>

\* The version must exist; its etag changes, then the key is put.
add_key(t) ==
    /\ next_is(t, "add_key")
    /\ IF now(t).v \in algorithm
       THEN /\ counter' = counter + 1
            /\ etag' = [etag EXCEPT ![now(t).v] = counter + 1]
            /\ goes_on(t, << [do |-> "put_key", v |-> now(t).v, s |-> now(t).s, k |-> now(t).k,
                              old |-> now(t).old] >>)
       ELSE ends_with(t, <<>>) /\ UNCHANGED <<counter, etag>>
    /\ UNCHANGED <<algorithm, backup, backupHistory>>

key_is_put(t) ==
    /\ next_is(t, "put_key") /\ steps_on(t)
    /\ LET v == now(t).v
           s == now(t).s
       IN /\ backup' = [backup EXCEPT ![<<v, s>>] = now(t).k]
          /\ raced_session' = (raced_session \/ backup[<<v, s>>] # now(t).old
                                 \/ others_write(t, v, {"put_key", "add_key"}))
          /\ worsened' = (worsened \/ (/\ now(t).old # now(t).k /\ backup[<<v, s>>] # NoKeyData
                                        /\ rank(now(t).k) > rank(backup[<<v, s>>])))
    /\ UNCHANGED <<counter, algorithm, etag>>

algorithm_is_deleted(t) ==
    /\ next_is(t, "del_algorithm") /\ steps_on(t)
    /\ algorithm' = algorithm \ {now(t).v}
    /\ UNCHANGED <<counter, etag, backup, backupHistory>>

etag_is_deleted(t) ==
    /\ next_is(t, "del_etag") /\ steps_on(t)
    /\ etag' = [etag EXCEPT ![now(t).v] = 0]
    /\ UNCHANGED <<counter, algorithm, backup, backupHistory>>

keys_are_deleted(t) ==
    /\ next_is(t, "del_keys") /\ steps_on(t)
    /\ backup' = [x \in DOMAIN backup |-> IF x[1] = now(t).v /\ x[2] \in now(t).ss
                                          THEN NoKeyData ELSE backup[x]]
    /\ UNCHANGED <<counter, algorithm, etag, backupHistory>>

\* The answer gives the etag; without one the request panics, which ends it too.
get_etag(t) == next_is(t, "get_etag") /\ steps_on(t) /\ UNCHANGED backupVars

-----------------------------------------------------------------------------
\* A user with one version and no keys in it yet.
InitKeyBackups ==
    /\ counter = FirstCount + 1
    /\ algorithm = {FirstCount}
    /\ etag = [v \in Version |-> IF v = FirstCount THEN FirstCount + 1 ELSE 0]
    /\ backup = [x \in Version \X Session |-> NoKeyData]
    /\ raced_session = FALSE /\ worsened = FALSE

keyBackupsDone == all_idle /\ UNCHANGED <<backupVars, taskVars>>

NextKeyBackups ==
    \/ \E t \in Task :
        \/ create_backup_version_route(t)
        \/ update_backup_version_route(t)
        \/ delete_backup_version_route(t)
        \/ add_backup_keys_route(t)
        \/ add_backup_keys_for_room_route(t)
        \/ add_backup_keys_for_session_route(t)
        \/ delete_backup_keys_for_room_route(t)
        \/ delete_backup_keys_route(t)
        \/ algorithm_is_put(t)
        \/ etag_is_put(t)
        \/ add_key(t)
        \/ key_is_put(t)
        \/ algorithm_is_deleted(t)
        \/ etag_is_deleted(t)
        \/ keys_are_deleted(t)
        \/ get_etag(t)
    \/ keyBackupsDone

SpecKeyBackups == InitKeyBackups /\ InitTasks(0) /\ [][NextKeyBackups]_<<backupVars, taskVars>>

-----------------------------------------------------------------------------
KeyBackupsTypeOK ==
    /\ algorithm \subseteq Version
    /\ etag \in [Version -> {0} \cup Nat]
    /\ backup \in [Version \X Session -> KeyData \cup {NoKeyData}]

\* add_backup_keys_for_session_route never replaces a key by one that is worse, unless
\* two requests wrote the key of the session at once.
BetterKeyKept == ~worsened \/ raced_session

\* What a request has yet to do. A key it is to put is one that was added without comparison,
\* or better than the one it found.
KeyStep ==
    {x \in [do : {"add_key", "put_key"}, v : Version, s : Session, k : KeyData,
            old : KeyData \cup {NoKeyData}] : x.old = x.k \/ ok_to_replace(x.old, x.k)}
BackupStep ==
    KeyStep \cup [do : {"put_algorithm", "del_algorithm", "del_etag", "get_etag"}, v : Nat]
            \cup [do : {"put_etag"}, v : Nat, n : Nat]
            \cup [do : {"del_keys"}, v : Nat, ss : SUBSET Session]
KeyBackupsInv ==
    /\ work \in [Task -> Seq(BackupStep)]
    /\ counter \in Nat /\ algorithm \subseteq Nat
    /\ backup \in [Version \X Session -> KeyData \cup {NoKeyData}]
    /\ raced_session \in BOOLEAN /\ worsened \in BOOLEAN
    /\ BetterKeyKept
=============================================================================
