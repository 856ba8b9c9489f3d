---------------------------- MODULE Tasks_proofs ----------------------------
(***************************************************************************)
(* Proofs for the services whose requests are tasks, lists of steps that   *)
(* are taken one at a time: the key backups, the resolver and the keys     *)
(* that users sign each other with. What a task has still to do was        *)
(* decided when it began, from tables that others have changed since; the  *)
(* three inductive invariants are about that.                              *)
(***************************************************************************)
EXTENDS KeyBackups, Resolver, Keys, TLAPS

-----------------------------------------------------------------------------
(* Lists of steps.                                                         *)

\* Lists that are equal step by step are equal.
LEMMA StepByStep ==
    ASSUME NEW S, NEW a \in Seq(S), NEW b \in Seq(S), Len(a) = Len(b), \A i \in 1 .. Len(a) : a[i] = b[i]
    PROVE  a = b
BY SMTT(20)

\* One list after another.
LEMMA OneAfterAnother ==
    ASSUME NEW S, NEW a \in Seq(S), NEW b \in Seq(S)
    PROVE  /\ a \o b \in Seq(S) /\ Len(a \o b) = Len(a) + Len(b)
           /\ \A i \in 1 .. Len(a) : (a \o b)[i] = a[i]
           /\ \A i \in 1 .. Len(b) : (a \o b)[Len(a) + i] = b[i]
OBVIOUS

-----------------------------------------------------------------------------
(* Key backups.                                                            *)

\* A task's steps stay steps of a kind when it begins, goes on or gives up.
LEMMA WorkType ==
    ASSUME NEW S, work \in [Task -> Seq(S)], NEW t \in Task, NEW steps \in Seq(S),
           \/ begins(t, steps) \/ ends_with(t, steps) \/ (~idle(t) /\ goes_on(t, steps))
    PROVE  work' \in [Task -> Seq(S)]
<1>1. work[t] \in Seq(S)
  OBVIOUS
<1>2. work[t] # <<>> => steps \o Tail(work[t]) \in Seq(S)
  BY <1>1
<1>3. \/ work' = [work EXCEPT ![t] = steps]
      \/ work[t] # <<>> /\ work' = [work EXCEPT ![t] = steps \o Tail(work[t])]
  BY Zenon DEF begins, ends_with, goes_on, idle
<1> QED
  BY Zenon, <1>2, <1>3

\* The steps that a request begins with are listed one by one.
LEMMA ShortLists ==
    ASSUME NEW S, NEW a \in S, NEW b \in S, NEW c \in S
    PROVE  <<a>> \in Seq(S) /\ <<a, b>> \in Seq(S) /\ <<a, b, c>> \in Seq(S)
OBVIOUS

\* The next step of a task that is not idle.
LEMMA NowIn ==
    ASSUME NEW S, work \in [Task -> Seq(S)], NEW t \in Task, ~idle(t)
    PROVE  now(t) \in S
BY DEF idle, now

\* The kinds of steps of a request to the key backups.
LEMMA StepTypes ==
    /\ \A v \in Nat, a \in {"put_algorithm", "del_algorithm", "del_etag", "get_etag"} : [do |-> a, v |-> v] \in BackupStep
    /\ \A v \in Nat, n \in Nat : [do |-> "put_etag", v |-> v, n |-> n] \in BackupStep
    /\ \A v \in Nat, ss \in SUBSET Session : [do |-> "del_keys", v |-> v, ss |-> ss] \in BackupStep
    /\ KeyStep \subseteq BackupStep
BY Zenon DEF BackupStep

\* Versions of a backup are numbers of the global counter.
LEMMA VersionType == Version \subseteq Nat
BY KeyBackupsAssumption DEF Version

\* What ok_to_replace allows to be put in the place of a key has a lower rank.
LEMMA BetterIsLower ==
    ASSUME NEW old \in KeyData, NEW new \in KeyData, ok_to_replace(old, new)
    PROVE  ~(rank(new) > rank(old))
<1>1. /\ old.first_message_index \in 0 .. 1 /\ old.forwarded_count \in 0 .. 1
      /\ new.first_message_index \in 0 .. 1 /\ new.forwarded_count \in 0 .. 1
  BY DEF KeyData
<1>2. old # NoKeyData
  BY <1>1 DEF NoKeyData
<1>3. CASE old.verified = new.verified
  <2>1. \/ new.first_message_index < old.first_message_index
        \/ /\ new.first_message_index = old.first_message_index
           /\ new.forwarded_count < old.forwarded_count
    BY Zenon, <1>2, <1>3 DEF ok_to_replace
  <2>2. CASE old.verified
    BY <1>1, <1>3, <2>1, <2>2 DEF rank
  <2>3. CASE ~old.verified
    BY <1>1, <1>3, <2>1, <2>3 DEF rank
  <2> QED
    BY Zenon, <2>2, <2>3
<1>4. CASE old.verified # new.verified
  <2>1. ~old.verified
    BY Zenon, <1>2, <1>4 DEF ok_to_replace
  <2>2. new.verified
    <3>1. old.verified \in BOOLEAN /\ new.verified \in BOOLEAN
      BY Zenon DEF KeyData
    <3> QED
      BY Zenon, <1>4, <2>1, <3>1
  <2> QED
    BY <1>1, <2>1, <2>2 DEF rank
<1> QED
  BY Zenon, <1>3, <1>4

\* At first there is no backup.
LEMMA InitBackups == InitKeyBackups /\ InitTasks(0) => KeyBackupsInv
<1> SUFFICES ASSUME InitKeyBackups, InitTasks(0) PROVE KeyBackupsInv
  OBVIOUS
<1>1. counter \in Nat /\ algorithm \subseteq Nat
  BY KeyBackupsAssumption DEF InitKeyBackups
<1>2. work \in [Task -> Seq(BackupStep)]
  BY DEF InitTasks
<1>3. backup \in [Version \X Session -> KeyData \cup {NoKeyData}]
  BY Zenon DEF InitKeyBackups
<1> QED
  BY Zenon, <1>1, <1>2, <1>3 DEF InitKeyBackups, KeyBackupsInv, BetterKeyKept

\* Steps that neither write keys nor versions.
LEMMA SameBackups ==
    ASSUME KeyBackupsInv, work' \in [Task -> Seq(BackupStep)],
           UNCHANGED <<counter, algorithm, backup, raced_session, worsened>>
    PROVE  KeyBackupsInv'
<1>1. /\ counter' = counter /\ algorithm' = algorithm /\ backup' = backup
      /\ raced_session' = raced_session /\ worsened' = worsened
  BY Zenon
<1> QED
  BY <1>1 DEF KeyBackupsInv, BetterKeyKept

\* A route only plans what to do.
LEMMA RouteBackups ==
    ASSUME KeyBackupsInv, NEW t \in Task, NEW steps \in Seq(BackupStep), request_of(t, steps),
           counter' \in Nat
    PROVE  KeyBackupsInv'
<1>1. work' \in [Task -> Seq(BackupStep)]
  BY Zenon, WorkType DEF KeyBackupsInv, request_of
<1> QED
  BY Zenon, <1>1 DEF KeyBackupsInv, request_of, backupHistory, BetterKeyKept

\* The routes of the key backups.
LEMMA RoutesBackups ==
    ASSUME KeyBackupsInv, NEW t \in Task,
           \/ create_backup_version_route(t) \/ update_backup_version_route(t)
           \/ delete_backup_version_route(t) \/ add_backup_keys_route(t)
           \/ add_backup_keys_for_room_route(t) \/ add_backup_keys_for_session_route(t)
           \/ delete_backup_keys_for_room_route(t) \/ delete_backup_keys_route(t)
    PROVE  KeyBackupsInv'
<1>0. counter \in Nat /\ algorithm \subseteq Nat
  BY Zenon DEF KeyBackupsInv
<1>a. \A v \in Nat : answer(v) \in Seq(BackupStep)
  BY Zenon, StepTypes, ShortLists DEF answer
<1>1. CASE create_backup_version_route(t)
  <2>1. counter + 1 \in Nat /\ counter + 2 \in Nat
    BY <1>0
  <2>2. << [do |-> "put_algorithm", v |-> counter + 1],
           [do |-> "put_etag", v |-> counter + 1, n |-> counter + 2] >> \in Seq(BackupStep)
    BY Zenon, <2>1, StepTypes, ShortLists
  <2> QED
    BY Zenon, <1>1, <2>1, <2>2, RouteBackups DEF create_backup_version_route
<1>2. CASE update_backup_version_route(t)
  <2>1. PICK v \in algorithm :
          /\ counter' = counter + 1
          /\ request_of(t, << [do |-> "put_etag", v |-> v, n |-> counter + 1],
                              [do |-> "put_algorithm", v |-> v] >>)
    BY Zenon, <1>2 DEF update_backup_version_route
  <2>2. counter + 1 \in Nat /\ v \in Nat
    BY <1>0
  <2>3. << [do |-> "put_etag", v |-> v, n |-> counter + 1], [do |-> "put_algorithm", v |-> v] >> \in Seq(BackupStep)
    BY Zenon, <2>2, StepTypes, ShortLists
  <2> QED
    BY Zenon, <2>1, <2>2, <2>3, RouteBackups
<1>3. CASE delete_backup_version_route(t)
  <2>1. PICK v \in algorithm :
          /\ request_of(t, << [do |-> "del_algorithm", v |-> v], [do |-> "del_etag", v |-> v],
                              [do |-> "del_keys", v |-> v, ss |-> Session] >>)
          /\ UNCHANGED counter
    BY Zenon, <1>3 DEF delete_backup_version_route
  <2>2. << [do |-> "del_algorithm", v |-> v], [do |-> "del_etag", v |-> v],
           [do |-> "del_keys", v |-> v, ss |-> Session] >> \in Seq(BackupStep)
    BY Zenon, <1>0, StepTypes, ShortLists
  <2> QED
    BY Zenon, <1>0, <2>1, <2>2, RouteBackups
<1>4. CASE add_backup_keys_route(t) \/ add_backup_keys_for_room_route(t)
  <2>1. PICK v \in Version, s \in Session, k \in KeyData :
          /\ request_of(t, << [do |-> "add_key", v |-> v, s |-> s, k |-> k, old |-> k] >> \o answer(v))
          /\ UNCHANGED counter
    BY Zenon, <1>4 DEF add_backup_keys_route, add_backup_keys_for_room_route
  <2>2. [do |-> "add_key", v |-> v, s |-> s, k |-> k, old |-> k] \in BackupStep
    BY Zenon DEF BackupStep, KeyStep
  <2>3. << [do |-> "add_key", v |-> v, s |-> s, k |-> k, old |-> k] >> \o answer(v) \in Seq(BackupStep)
    BY <1>a, <2>2, VersionType
  <2> QED
    BY Zenon, <1>0, <2>1, <2>3, RouteBackups
<1>5. CASE add_backup_keys_for_session_route(t)
  <2>1. PICK v \in Version, s \in Session, k \in KeyData :
          /\ request_of(t, (IF ok_to_replace(backup[<<v, s>>], k)
                            THEN << [do |-> "add_key", v |-> v, s |-> s, k |-> k, old |-> backup[<<v, s>>]] >>
                            ELSE <<>>) \o answer(v))
          /\ UNCHANGED counter
    BY Zenon, <1>5 DEF add_backup_keys_for_session_route
  <2> DEFINE old == backup[<<v, s>>]
             x == [do |-> "add_key", v |-> v, s |-> s, k |-> k, old |-> old]
  <2>2. old \in KeyData \cup {NoKeyData}
    BY DEF KeyBackupsInv
  <2>3. ok_to_replace(old, k) => x \in BackupStep
    BY Zenon, <2>2 DEF BackupStep, KeyStep
  <2> HIDE DEF x
  <2>4. (IF ok_to_replace(old, k) THEN <<x>> ELSE <<>>) \o answer(v) \in Seq(BackupStep)
    BY <1>a, <2>3, VersionType
  <2> QED
    BY Zenon, <1>0, <2>1, <2>4, RouteBackups DEF x
<1>6. CASE delete_backup_keys_for_room_route(t) \/ delete_backup_keys_route(t)
  <2>1. PICK v \in Version, ss \in SUBSET Session :
          /\ request_of(t, << [do |-> "del_keys", v |-> v, ss |-> ss] >> \o answer(v))
          /\ UNCHANGED counter
    BY Zenon, <1>6 DEF delete_backup_keys_for_room_route, delete_backup_keys_route
  <2>2. << [do |-> "del_keys", v |-> v, ss |-> ss] >> \o answer(v) \in Seq(BackupStep)
    BY <1>a, StepTypes, VersionType
  <2> QED
    BY Zenon, <1>0, <2>1, <2>2, RouteBackups
<1> QED
  BY Zenon, <1>1, <1>2, <1>3, <1>4, <1>5, <1>6

\* The writes of a request, but those of keys.
LEMMA StepsBackups ==
    ASSUME KeyBackupsInv, NEW t \in Task,
           \/ algorithm_is_put(t) \/ etag_is_put(t) \/ add_key(t) \/ algorithm_is_deleted(t)
           \/ etag_is_deleted(t) \/ keys_are_deleted(t) \/ get_etag(t)
    PROVE  KeyBackupsInv'
<1>0. /\ work \in [Task -> Seq(BackupStep)] /\ counter \in Nat /\ algorithm \subseteq Nat
      /\ backup \in [Version \X Session -> KeyData \cup {NoKeyData}]
  BY Zenon DEF KeyBackupsInv
<1>1. ~idle(t) /\ now(t) \in BackupStep
  BY Zenon, <1>0, NowIn DEF algorithm_is_put, etag_is_put, add_key, algorithm_is_deleted,
     etag_is_deleted, keys_are_deleted, get_etag, next_is
<1>2. steps_on(t) => work' \in [Task -> Seq(BackupStep)]
  <2>1. <<>> \in Seq(BackupStep)
    OBVIOUS
  <2> QED
    BY Zenon, <1>0, <1>1, <2>1, WorkType DEF steps_on
<1>3. CASE add_key(t)
  <2>1. now(t).do = "add_key"
    BY Zenon, <1>3 DEF add_key, next_is, now
  <2>2. now(t) \in KeyStep
    BY <1>1, <2>1 DEF BackupStep
  <2> DEFINE x == [do |-> "put_key", v |-> now(t).v, s |-> now(t).s, k |-> now(t).k, old |-> now(t).old]
  <2>3. x \in BackupStep
    BY Zenon, <2>2 DEF KeyStep, BackupStep
  <2>4. <<x>> \in Seq(BackupStep) /\ <<>> \in Seq(BackupStep)
    <3> HIDE DEF x
    <3> QED BY <2>3
  <2>5. work' \in [Task -> Seq(BackupStep)]
    BY Zenon, <1>0, <1>1, <1>3, <2>4, WorkType DEF add_key
  <2>6. counter' \in Nat
    BY <1>0, <1>3 DEF add_key
  <2> QED
    BY Zenon, <1>3, <2>5, <2>6 DEF add_key, KeyBackupsInv, backupHistory, BetterKeyKept
<1>4. CASE algorithm_is_put(t)
  <2>1. now(t).do = "put_algorithm"
    BY Zenon, <1>4 DEF algorithm_is_put, next_is, now
  <2>2. now(t).v \in Nat
    BY Zenon, <1>1, <2>1 DEF BackupStep, KeyStep
  <2>3. algorithm' \subseteq Nat
    BY Zenon, <1>0, <1>4, <2>2 DEF algorithm_is_put
  <2> QED
    BY Zenon, <1>2, <1>4, <2>3 DEF algorithm_is_put, KeyBackupsInv, backupHistory, BetterKeyKept
<1>5. CASE keys_are_deleted(t)
  <2>1. backup' \in [Version \X Session -> KeyData \cup {NoKeyData}]
    BY Zenon, <1>0, <1>5 DEF keys_are_deleted
  <2> QED
    BY Zenon, <1>2, <1>5, <2>1 DEF keys_are_deleted, KeyBackupsInv, backupHistory, BetterKeyKept
<1>6. CASE algorithm_is_deleted(t)
  <2>1. algorithm' \subseteq Nat
    BY Zenon, <1>0, <1>6 DEF algorithm_is_deleted
  <2> QED
    BY Zenon, <1>2, <1>6, <2>1 DEF algorithm_is_deleted, KeyBackupsInv, backupHistory, BetterKeyKept
<1>7. CASE etag_is_put(t) \/ etag_is_deleted(t) \/ get_etag(t)
  BY Zenon, <1>2, <1>7, SameBackups DEF etag_is_put, etag_is_deleted, get_etag, backupVars, backupHistory
<1> QED
  BY Zenon, <1>3, <1>4, <1>5, <1>6, <1>7

\* A key that nobody has written since it was compared is replaced by a better one.
LEMMA PutBackups == ASSUME KeyBackupsInv, NEW t \in Task, key_is_put(t) PROVE KeyBackupsInv'
<1>0. /\ work \in [Task -> Seq(BackupStep)] /\ backup \in [Version \X Session -> KeyData \cup {NoKeyData}]
  BY Zenon DEF KeyBackupsInv
<1>1. ~idle(t) /\ now(t).do = "put_key" /\ steps_on(t)
  BY Zenon DEF key_is_put, next_is, now
<1>2. now(t) \in BackupStep
  BY Zenon, <1>0, <1>1, NowIn
<1>3. now(t) \in KeyStep
  BY <1>1, <1>2 DEF BackupStep
<1> DEFINE v == now(t).v
           s == now(t).s
           k == now(t).k
           old == now(t).old
<1>4. v \in Version /\ s \in Session /\ k \in KeyData /\ old \in KeyData \cup {NoKeyData}
  BY <1>3 DEF KeyStep
<1>5. old = k \/ ok_to_replace(old, k)
  BY Zenon, <1>3 DEF KeyStep
<1>6. /\ backup' = [backup EXCEPT ![<<v, s>>] = k]
      /\ raced_session' = (raced_session \/ backup[<<v, s>>] # old
                             \/ others_write(t, v, {"put_key", "add_key"}))
      /\ worsened' = (worsened \/ (/\ old # k /\ backup[<<v, s>>] # NoKeyData
                                    /\ rank(k) > rank(backup[<<v, s>>])))
      /\ UNCHANGED <<counter, algorithm, etag>>
  BY Zenon DEF key_is_put
<1> HIDE DEF v, s, k, old
<1>7. backup' \in [Version \X Session -> KeyData \cup {NoKeyData}]
  BY <1>0, <1>4, <1>6
<1>8. work' \in [Task -> Seq(BackupStep)]
  <2>1. <<>> \in Seq(BackupStep)
    OBVIOUS
  <2> QED
    BY Zenon, <1>0, <1>1, <2>1, WorkType DEF steps_on
<1>9. old # NoKeyData /\ old # k => ~(rank(k) > rank(old))
  BY Zenon, <1>4, <1>5, BetterIsLower
<1>10. BetterKeyKept'
  BY Zenon, <1>6, <1>9 DEF KeyBackupsInv, BetterKeyKept
<1>11. raced_session' \in BOOLEAN /\ worsened' \in BOOLEAN
  BY Zenon, <1>6
<1> QED
  BY Zenon, <1>6, <1>7, <1>8, <1>10, <1>11 DEF KeyBackupsInv

\* A key in a backup is replaced only by a better one, unless two requests wrote it at the same
\* time: for any number of requests, sessions and versions. What a request carries from its
\* comparison (add_backup_keys_for_session_route) to its write (add_key) is in KeyStep; that the
\* comparison is right is BetterIsLower.
THEOREM BackupsKeepBetterKeys == SpecKeyBackups => []BetterKeyKept
<1>1. KeyBackupsInv /\ [NextKeyBackups]_<<backupVars, taskVars>> => KeyBackupsInv'
  <2>1. KeyBackupsInv /\ UNCHANGED <<backupVars, taskVars>> => KeyBackupsInv'
    <3>1. KeyBackupsInv /\ UNCHANGED taskVars => work' \in [Task -> Seq(BackupStep)]
      BY Zenon DEF taskVars, KeyBackupsInv
    <3> QED
      BY Zenon, <3>1, SameBackups DEF backupVars, backupHistory
  <2> QED
    BY Zenon, <2>1, RoutesBackups, StepsBackups, PutBackups DEF NextKeyBackups, keyBackupsDone
<1>2. KeyBackupsInv => BetterKeyKept
  BY Zenon DEF KeyBackupsInv
<1> QED
  BY <1>1, <1>2, InitBackups, PTL DEF SpecKeyBackups

-----------------------------------------------------------------------------
(* The resolver of server names.                                           *)

\* Two steps, one after the other.
LEMMA TwoSteps == ASSUME NEW a, NEW b PROVE <<a>> \o <<b>> = <<a, b>>
<1> DEFINE S == {a, b}
<1>1. <<a>> \in Seq(S) /\ <<b>> \in Seq(S) /\ <<a, b>> \in Seq(S)
  OBVIOUS
<1>2. Len(<<a>>) = 1 /\ Len(<<b>>) = 1 /\ Len(<<a, b>>) = 2
  OBVIOUS
<1>3. <<a>>[1] = a /\ <<b>>[1] = b /\ <<a, b>>[1] = a /\ <<a, b>>[2] = b
  OBVIOUS
<1> HIDE DEF S
<1>4. ASSUME NEW s \in Seq(S), NEW u \in Seq(S), Len(s) = 1, Len(u) = 1,
             NEW w \in Seq(S), Len(w) = 2, w[1] = s[1], w[2] = u[1]
      PROVE  s \o u = w
  <2>1. s \o u \in Seq(S) /\ Len(s \o u) = Len(s) + Len(u)
    BY Zenon, OneAfterAnother
  <2>2. s \o u \in Seq(S) /\ Len(s \o u) = 2
    BY <1>4, <2>1
  <2>3. 1 \in 1 .. Len(s) /\ 1 \in 1 .. Len(u) /\ Len(s) + 1 = 2
    BY <1>4
  <2>4. (s \o u)[1] = s[1] /\ (s \o u)[Len(s) + 1] = u[1]
    BY <2>3, OneAfterAnother
  <2>5. (s \o u)[2] = u[1]
    BY Zenon, <2>3, <2>4
  <2>6. \A i \in 1 .. Len(s \o u) : (s \o u)[i] = w[i]
    BY <1>4, <2>2, <2>4, <2>5
  <2> QED
    BY <1>4, <2>2, <2>6, StepByStep
<1> QED
  BY Zenon, <1>1, <1>2, <1>3, <1>4

\* Lists of one or two steps.
LEMMA FewSteps ==
    /\ \A a : Head(<<a>>) = a /\ Tail(<<a>>) = <<>> /\ <<a>> # <<>> /\ <<a>> \o <<>> = <<a>> /\ <<>> \o <<a>> = <<a>>
    /\ \A a, b : Head(<<a>> \o <<b>>) = a /\ Tail(<<a>> \o <<b>>) = <<b>> /\ (<<a>> \o <<b>>) \o <<>> = <<a>> \o <<b>>
    /\ <<>> \o <<>> = <<>>
<1>1. \A a : Head(<<a>>) = a /\ Tail(<<a>>) = <<>> /\ <<a>> # <<>>
  OBVIOUS
<1>2. \A a : <<a>> \o <<>> = <<a>> /\ <<>> \o <<a>> = <<a>>
  OBVIOUS
<1>3. \A a, b : Head(<<a, b>>) = a /\ Tail(<<a, b>>) = <<b>>
  OBVIOUS
<1>4. \A a, b : <<a, b>> \o <<>> = <<a, b>>
  OBVIOUS
<1>5. <<>> \o <<>> = <<>>
  OBVIOUS
<1>6. ASSUME NEW a, NEW b
      PROVE  Head(<<a>> \o <<b>>) = a /\ Tail(<<a>> \o <<b>>) = <<b>> /\ (<<a>> \o <<b>>) \o <<>> = <<a>> \o <<b>>
  <2>1. <<a>> \o <<b>> = <<a, b>>
    BY Zenon, TwoSteps
  <2> QED
    BY Zenon, <1>3, <1>4, <2>1
<1> QED
  BY Zenon, <1>1, <1>2, <1>5, <1>6

\* The first of one or two steps, and what is left after it.
LEMMA FirstStep ==
    /\ \A w, a : w = <<a>> => Head(w) = a /\ Tail(w) = <<>>
    /\ \A w, a, b : w = <<a>> \o <<b>> => Head(w) = a /\ Tail(w) = <<b>>
BY ZenonT(40), FewSteps

\* What the rules say does not change while resolverVars but the caches do.
LEMMA SameRules ==
    ASSUME dns' = dns
    PROVE  /\ \A h : (lookup_ip(h))' = lookup_ip(h)
           /\ \A n, d : (authority(n, d))' = authority(n, d) /\ (by_rules(n, d))' = by_rules(n, d)
           /\ two_addresses' = two_addresses
BY SMTT(20) DEF lookup_ip, authority, by_rules, by_srv, two_addresses, is_literal, get_ip_with_port, default_port

\* Names and those who answer for them.
LEMMA AuthorityType ==
    ASSUME dns \in World, NEW n \in Name, NEW d
    PROVE  authority(n, d).host \in Host \cup Literal /\ authority(n, d).port \in Nat
BY Zenon, ResolverAssumption DEF authority

\* Nothing is forgotten, unless the caches are cleared.
Later ==
    /\ dns' = dns /\ cleared' \in BOOLEAN /\ (cleared => cleared') /\ unanswered \subseteq unanswered'
    /\ \A h \in Host : overrides[h] # NoOverride => overrides'[h] # NoOverride \/ cleared'

\* A server that is reached as the rules say is still reached so when the caches have grown.
LEMMA ReachesLater ==
    ASSUME dns \in World, Later, NEW n \in Name, NEW d \in delegations(n)
    PROVE  d \in (delegations(n))' /\ (reaches(n, d) => (reaches(n, d))')
<1>1. d \in (delegations(n))'
  BY Zenon DEF delegations, Later
<1>2. authority(n, d).host \in Host \cup Literal
  BY Zenon, AuthorityType
<1>3. reaches(n, d) => (reaches(n, d))'
  BY Zenon, <1>2, SameRules DEF Later, reaches, is_literal
<1> QED
  BY Zenon, <1>1, <1>3

\* What a task has planned stays right when the caches have grown.
LEMMA PlannedLater ==
    ASSUME dns \in World, Later, NEW steps, Planned(steps)
    PROVE  (Planned(steps))'
<1>1. ASSUME NEW n \in Name, Resolving(n, steps) PROVE (Resolving(n, steps))'
  BY Zenon, <1>1 DEF Resolving, Later, may_delegate, is_literal, lookup
<1>2. ASSUME NEW n \in Name, NEW d \in delegations(n), Resolved(n, d, steps) PROVE (Resolved(n, d, steps))'
  BY Zenon, <1>2, SameRules, ReachesLater DEF Resolved, Later, is_literal, lookup, resolved
<1> QED
  BY Zenon, <1>1, <1>2, ReachesLater DEF Planned, clear_destinations, clear_overrides

\* So does a cached destination,
LEMMA DestinationLater ==
    ASSUME dns \in World, Later, NEW n \in Name, DestinationOf(n), destinations'[n] = destinations[n]
    PROVE  (DestinationOf(n))'
<1>1. CASE destinations[n] = NoDestination
  BY Zenon, <1>1 DEF DestinationOf, NoDestination
<1>2. ASSUME NEW d \in delegations(n), reaches(n, d),
             destinations[n] \in [host : {authority(n, d).host}, port : {by_rules(n, d)[2]}, valid : BOOLEAN]
      PROVE  (DestinationOf(n))'
  <2>1. destinations'[n] \in [host : {(authority(n, d).host)'}, port : {(by_rules(n, d)[2])'}, valid : BOOLEAN]
    BY ZenonT(40), <1>2, SameRules DEF Later
  <2> QED
    BY Zenon, <1>2, <2>1, ReachesLater DEF DestinationOf
<1> QED
  BY Zenon, <1>1, <1>2 DEF DestinationOf

\* a cached override, while the records stay what they are,
LEMMA OverrideLater ==
    ASSUME dns' = dns, NEW h \in Host, OverrideOf(h), overrides'[h] = overrides[h]
    PROVE  (OverrideOf(h))'
BY ZenonT(40), SameRules DEF OverrideOf, NoOverride

\* and so do the servers that were dialled.
LEMMA DialledLater ==
    ASSUME dns \in World, Later, dialled' = dialled, DialsItsServer
    PROVE  DialsItsServer'
<1>1. \A n : delegations(n) \subseteq (delegations(n))'
  BY Zenon DEF delegations, Later
<1> QED
  BY ZenonT(40), <1>1, SameRules DEF DialsItsServer, Later

\* What is left to do after each of the steps of a plan.
LEMMA Plans ==
    ASSUME NEW w, Planned(w), w # <<>>
    PROVE  LET x == Head(w)
           IN /\ x.do = "resolve_actual_dest" => x.name \in Name /\ Tail(w) = <<>>
              /\ x.do = "request_well_known" => x.name \in Name /\ may_delegate(x.name) /\ Tail(w) = <<>>
              /\ x.do = "actual_dest_3_3" =>
                    /\ x.name \in Name /\ may_delegate(x.name) /\ Tail(w) = <<>>
                    /\ dns.well_known[x.name] # NoName /\ may_delegate(dns.well_known[x.name])
              /\ x.do = "actual_dest_4" =>
                    /\ x.name \in Name /\ may_delegate(x.name) /\ Tail(w) = <<>>
                    /\ dns.well_known[x.name] = NoName \/ x.name \in unanswered
              /\ x.do = "query_and_cache_override" =>
                    \/ \E n \in Name : /\ may_delegate(n) /\ x.unter = n.host /\ x.host = n.host
                                       /\ Tail(w) = <<[do |-> "request_well_known", name |-> n]>>
                    \/ \E n \in Name : \E d \in delegations(n) : Resolved(n, d, w)
              /\ x.do \in {"set_destination", "perform"} => \E n \in Name : \E d \in delegations(n) : Resolved(n, d, w)
              /\ x.do \in {"clear_destinations", "clear_overrides"} => Tail(w) \in {<<>>, clear_destinations, clear_overrides}
<1> DEFINE x == Head(w)
<1>1. ASSUME NEW n \in Name, Resolving(n, w) PROVE
       \/ x = [do |-> "resolve_actual_dest", name |-> n] /\ Tail(w) = <<>>
       \/ x = [do |-> "request_well_known", name |-> n] /\ Tail(w) = <<>> /\ may_delegate(n)
       \/ /\ x = [do |-> "query_and_cache_override", unter |-> n.host, host |-> n.host] /\ may_delegate(n)
          /\ Tail(w) = <<[do |-> "request_well_known", name |-> n]>>
       \/ /\ x = [do |-> "actual_dest_3_3", name |-> n] /\ Tail(w) = <<>>
          /\ may_delegate(n) /\ dns.well_known[n] # NoName /\ may_delegate(dns.well_known[n])
       \/ /\ x = [do |-> "actual_dest_4", name |-> n] /\ Tail(w) = <<>>
          /\ may_delegate(n) /\ (dns.well_known[n] = NoName \/ n \in unanswered)
  <2>1. CASE may_delegate(n) /\ w = lookup(n.host, n.host) \o <<[do |-> "request_well_known", name |-> n]>>
    <3> DEFINE A == [do |-> "query_and_cache_override", unter |-> n.host, host |-> n.host]
               B == [do |-> "request_well_known", name |-> n]
    <3>1. w = <<A>> \o <<B>>
      BY Zenon, <2>1 DEF lookup
    <3> HIDE DEF A, B
    <3>2. w = <<A, B>>
      BY Zenon, <3>1, TwoSteps
    <3>3. Head(w) = A /\ Tail(w) = <<B>>
      BY <3>2
    <3> QED
      BY Zenon, <2>1, <3>3 DEF A, B
  <2>2. CASE w = <<[do |-> "resolve_actual_dest", name |-> n]>>
    BY Zenon, <2>2, FirstStep
  <2>3. CASE may_delegate(n) /\ w = <<[do |-> "request_well_known", name |-> n]>>
    BY Zenon, <2>3, FirstStep
  <2>4. CASE /\ may_delegate(n) /\ dns.well_known[n] # NoName /\ may_delegate(dns.well_known[n])
             /\ w = <<[do |-> "actual_dest_3_3", name |-> n]>>
    <3>1. x = [do |-> "actual_dest_3_3", name |-> n] /\ Tail(w) = <<>>
      BY Zenon, <2>4, FirstStep
    <3> QED
      BY Zenon, <2>4, <3>1
  <2>5. CASE /\ may_delegate(n) /\ (dns.well_known[n] = NoName \/ n \in unanswered)
             /\ w = <<[do |-> "actual_dest_4", name |-> n]>>
    <3>1. x = [do |-> "actual_dest_4", name |-> n] /\ Tail(w) = <<>>
      BY Zenon, <2>5, FirstStep
    <3> QED
      BY Zenon, <2>5, <3>1
  <2> QED
    BY Zenon, <1>1, <2>1, <2>2, <2>3, <2>4, <2>5 DEF Resolving
<1>2. ASSUME NEW n \in Name, NEW d \in delegations(n), Resolved(n, d, w)
      PROVE  x.do \in {"query_and_cache_override", "set_destination", "perform"}
  <2>1. \/ \E u, h : x = [do |-> "query_and_cache_override", unter |-> u, host |-> h]
        \/ \E h, p : x = [do |-> "set_destination", name |-> n, host |-> h, port |-> p]
        \/ \E e : x = [do |-> "perform", name |-> n, dest |-> e]
    <3> DEFINE h == authority(n, d).host
               p == by_rules(n, d)[2]
    <3>1. ASSUME NEW y, w = lookup(h, y) \o resolved(n, h, p) PROVE x = [do |-> "query_and_cache_override", unter |-> h, host |-> y]
      <4> DEFINE A == [do |-> "query_and_cache_override", unter |-> h, host |-> y]
                 B == [do |-> "set_destination", name |-> n, host |-> h, port |-> p]
      <4>1. w = <<A>> \o <<B>>
        BY Zenon, <3>1 DEF lookup, resolved
      <4> HIDE DEF A, B
      <4>2. Head(w) = A
        BY <4>1, FirstStep
      <4> QED
        BY Zenon, <4>2 DEF A
    <3>2. ASSUME w = resolved(n, h, p) PROVE x = [do |-> "set_destination", name |-> n, host |-> h, port |-> p]
      BY Zenon, <3>2, FirstStep DEF resolved
    <3>3. ASSUME NEW e, w = <<[do |-> "perform", name |-> n, dest |-> e]>> PROVE x = [do |-> "perform", name |-> n, dest |-> e]
      BY Zenon, <3>3, FirstStep
    <3> QED
      BY Zenon, <1>2, <3>1, <3>2, <3>3 DEF Resolved
  <2> QED
    BY <2>1
<1>3. CASE w \in {clear_destinations, clear_overrides, clear_destinations \o clear_overrides, clear_overrides \o clear_destinations}
  <2>1. /\ x \in {[do |-> "clear_destinations"], [do |-> "clear_overrides"]}
        /\ Tail(w) \in {<<>>, clear_destinations, clear_overrides}
    BY ZenonT(40), <1>3, FirstStep DEF clear_destinations, clear_overrides
  <2> HIDE DEF x
  <2>2. x.do \in {"clear_destinations", "clear_overrides"}
    BY <2>1
  <2> QED
    BY Zenon, <2>1, <2>2 DEF x
<1>4. CASE \E n \in Name : Resolving(n, w)
  <2>1. PICK n \in Name : Resolving(n, w)
    BY <1>4
  <2> HIDE DEF x
  <2>2. CASE x = [do |-> "resolve_actual_dest", name |-> n] /\ Tail(w) = <<>>
    <3>1. x.do = "resolve_actual_dest" /\ x.name = n
      BY Zenon, <2>2
    <3> QED
      BY Zenon, <2>2, <3>1 DEF x
  <2>3. CASE x = [do |-> "request_well_known", name |-> n] /\ Tail(w) = <<>> /\ may_delegate(n)
    <3>1. x.do = "request_well_known" /\ x.name = n
      BY Zenon, <2>3
    <3> QED
      BY Zenon, <2>3, <3>1 DEF x
  <2>4. CASE /\ x = [do |-> "query_and_cache_override", unter |-> n.host, host |-> n.host] /\ may_delegate(n)
             /\ Tail(w) = <<[do |-> "request_well_known", name |-> n]>>
    <3>1. x.do = "query_and_cache_override" /\ x.unter = n.host /\ x.host = n.host
      BY Zenon, <2>4
    <3> QED
      BY Zenon, <2>4, <3>1 DEF x
  <2>5. CASE /\ x = [do |-> "actual_dest_3_3", name |-> n] /\ Tail(w) = <<>>
             /\ may_delegate(n) /\ dns.well_known[n] # NoName /\ may_delegate(dns.well_known[n])
    <3>1. x.do = "actual_dest_3_3" /\ x.name = n
      BY Zenon, <2>5
    <3> QED
      BY Zenon, <2>5, <3>1 DEF x
  <2>6. CASE /\ x = [do |-> "actual_dest_4", name |-> n] /\ Tail(w) = <<>>
             /\ may_delegate(n) /\ (dns.well_known[n] = NoName \/ n \in unanswered)
    <3>1. x.do = "actual_dest_4" /\ x.name = n
      BY Zenon, <2>6
    <3> QED
      BY Zenon, <2>6, <3>1 DEF x
  <2> QED
    BY Zenon, <1>1, <2>1, <2>2, <2>3, <2>4, <2>5, <2>6 DEF x
<1>5. CASE \E n \in Name : \E d \in delegations(n) : Resolved(n, d, w)
  <2>1. x.do \in {"query_and_cache_override", "set_destination", "perform"}
    BY Zenon, <1>2, <1>5
  <2> QED
    BY Zenon, <1>5, <2>1
<1> QED
  BY Zenon, <1>3, <1>4, <1>5 DEF Planned

\* A task goes on by a plan; the caches are still right.
LEMMA ResolverFrame ==
    ASSUME ResolverInv, Later, NEW t \in Task, NEW steps, work' = [work EXCEPT ![t] = steps], (Planned(steps))',
           DOMAIN destinations' = Name, \A n \in Name : destinations'[n] = destinations[n] \/ (DestinationOf(n))',
           DOMAIN overrides' = Host, \A h \in Host : overrides'[h] = overrides[h] \/ (OverrideOf(h))',
           dialled' = dialled \/ DialsItsServer'
    PROVE  ResolverInv'
<1>1. \A n \in Name : (DestinationOf(n))'
  BY Zenon, DestinationLater DEF ResolverInv
<1>2. \A h \in Host : (OverrideOf(h))'
  BY Zenon, OverrideLater DEF ResolverInv, Later
<1>3. DOMAIN work' = Task
  BY Zenon DEF ResolverInv
<1>4. \A u \in Task : work'[u] = work[u] \/ work'[u] = steps
  BY Zenon DEF ResolverInv
<1>5. \A u \in Task : (Planned(work[u]))'
  BY Zenon, <1>4, PlannedLater DEF ResolverInv
<1> QED
  BY Zenon, <1>1, <1>2, <1>3, <1>5, DialledLater DEF ResolverInv, Later

\* The rules for a plan that has just been made.
LEMMA ResolvedPlan ==
    ASSUME ResolverInv, NEW n \in Name, NEW d \in delegations(n)
    PROVE  LET m == authority(n, d)
           IN /\ is_literal(m.host) => Planned(resolved(n, m.host, get_ip_with_port(m).port))
              /\ ~is_literal(m.host) /\ m.port # 0 => Planned(lookup(m.host, m.host) \o resolved(n, m.host, m.port))
              /\ may_delegate(m) => Planned(srv(n, m.host))
<1> DEFINE m == authority(n, d)
<1>1. ASSUME is_literal(m.host) PROVE Planned(resolved(n, m.host, get_ip_with_port(m).port))
  <2>1. by_rules(n, d)[2] = get_ip_with_port(m).port
    BY <1>1 DEF by_rules
  <2> QED
    BY Zenon, <1>1, <2>1 DEF Planned, Resolved, reaches
<1>2. ASSUME ~is_literal(m.host), m.port # 0 PROVE Planned(lookup(m.host, m.host) \o resolved(n, m.host, m.port))
  <2>1. by_rules(n, d)[2] = m.port
    BY <1>2 DEF by_rules, get_ip_with_port
  <2> QED
    BY Zenon, <1>2, <2>1 DEF Planned, Resolved
<1>3. ASSUME may_delegate(m) PROVE Planned(srv(n, m.host))
  <2>1. CASE dns.srv[m.host] = NoName
    <3>1. by_rules(n, d)[2] = default_port
      BY Zenon, <1>3, <2>1 DEF by_rules, by_srv, may_delegate
    <3> QED
      BY Zenon, <1>3, <2>1, <3>1 DEF Planned, Resolved, srv, may_delegate
  <2>2. CASE dns.srv[m.host] # NoName
    <3>1. by_rules(n, d)[2] = dns.srv[m.host].port
      BY Zenon, <1>3, <2>2 DEF by_rules, by_srv, may_delegate
    <3> QED
      BY Zenon, <1>3, <2>2, <3>1 DEF Planned, Resolved, srv, may_delegate
  <2> QED
    BY Zenon, <2>1, <2>2
<1> QED
  BY Zenon, <1>1, <1>2, <1>3

\* Steps that leave the caches alone.
LEMMA QuietResolver ==
    ASSUME ResolverInv, UNCHANGED <<dns, destinations, overrides, dialled, cleared>>, unanswered \subseteq unanswered',
           NEW t \in Task, NEW steps, work' = [work EXCEPT ![t] = steps], Planned(steps) \/ (Planned(steps))'
    PROVE  ResolverInv'
<1>1. Later
  BY Zenon DEF Later, ResolverInv
<1>2. (Planned(steps))'
  BY Zenon, <1>1, PlannedLater DEF ResolverInv
<1>3. DOMAIN destinations' = Name /\ DOMAIN overrides' = Host
  BY Zenon DEF ResolverInv
<1> QED
  BY Zenon, <1>1, <1>2, <1>3, ResolverFrame

\* What a task has to do, and its next step.
LEMMA NextPlan ==
    ASSUME ResolverInv, NEW t \in Task, ~idle(t)
    PROVE  Planned(work[t]) /\ work[t] # <<>> /\ now(t) = Head(work[t])
BY Zenon DEF ResolverInv, idle, now

\* The steps of a plan, when nothing follows them.
LEMMA PlanAlone ==
    ASSUME NEW a, NEW b
    PROVE  <<>> \o <<>> = <<>> /\ <<a>> \o <<>> = <<a>> /\ (<<a>> \o <<b>>) \o <<>> = <<a>> \o <<b>>
BY Zenon, FewSteps

\* Steps 1 and 2 of the rules.
LEMMA ResolveStep == ASSUME ResolverInv, NEW t \in Task, resolve_actual_dest(t) PROVE ResolverInv'
<1> DEFINE n == now(t).name
           steps == IF is_literal(n.host) THEN resolved(n, n.host, get_ip_with_port(n).port)
                    ELSE IF n.port # 0 THEN lookup(n.host, n.host) \o resolved(n, n.host, n.port)
                    ELSE lookup(n.host, n.host) \o <<[do |-> "request_well_known", name |-> n]>>
<1>1. ~idle(t) /\ now(t).do = "resolve_actual_dest" /\ goes_on(t, steps) /\ UNCHANGED resolverVars
  BY Zenon DEF resolve_actual_dest, next_is, now
<1>2. n \in Name /\ Tail(work[t]) = <<>>
  BY Zenon, <1>1, NextPlan, Plans
<1>3. steps \o <<>> = steps
  BY Zenon, PlanAlone DEF resolved, lookup
<1>4. Planned(steps)
  <2>1. CASE may_delegate(n)
    BY Zenon, <1>2, <2>1 DEF Planned, Resolving, may_delegate
  <2>2. CASE ~may_delegate(n)
    <3>1. authority(n, TRUE) = n /\ TRUE \in delegations(n)
      BY Zenon, <2>2 DEF authority, may_delegate, delegations
    <3> QED
      BY Zenon, <1>2, <2>2, <3>1, ResolvedPlan DEF may_delegate
  <2> QED
    BY Zenon, <2>1, <2>2
<1> HIDE DEF steps
<1>5. work' = [work EXCEPT ![t] = steps]
  BY Zenon, <1>1, <1>2, <1>3 DEF goes_on
<1> QED
  BY Zenon, <1>1, <1>4, <1>5, QuietResolver DEF resolverVars

\* Steps 3 to 5: the delegation and the SRV record.
LEMMA DelegateStep ==
    ASSUME ResolverInv, NEW t \in Task, request_well_known(t) \/ actual_dest_3_3(t) \/ actual_dest_4(t)
    PROVE  ResolverInv'
<1> DEFINE n == now(t).name
           d == dns.well_known[n]
<1>1. ~idle(t)
  BY Zenon DEF request_well_known, actual_dest_3_3, actual_dest_4, next_is
<1>2. \A x, y, h : srv(x, h) \o <<>> = srv(x, h)
  BY ZenonT(40), PlanAlone DEF srv, lookup, resolved
<1>3. CASE actual_dest_3_3(t)
  <2>1. now(t).do = "actual_dest_3_3" /\ goes_on(t, srv(n, d.host)) /\ UNCHANGED resolverVars
    BY Zenon, <1>3 DEF actual_dest_3_3, next_is, now
  <2>2. n \in Name /\ Tail(work[t]) = <<>> /\ may_delegate(n) /\ d # NoName /\ may_delegate(d)
    BY Zenon, <1>1, <2>1, NextPlan, Plans
  <2>3. authority(n, TRUE) = d /\ TRUE \in delegations(n)
    BY Zenon, <2>2 DEF authority, may_delegate, delegations
  <2>4. Planned(srv(n, d.host))
    BY Zenon, <2>2, <2>3, ResolvedPlan
  <2>5. work' = [work EXCEPT ![t] = srv(n, d.host)]
    BY Zenon, <1>2, <2>1, <2>2 DEF goes_on
  <2> QED
    BY Zenon, <2>1, <2>4, <2>5, QuietResolver DEF resolverVars
<1>4. CASE actual_dest_4(t)
  <2>1. now(t).do = "actual_dest_4" /\ goes_on(t, srv(n, n.host)) /\ UNCHANGED resolverVars
    BY Zenon, <1>4 DEF actual_dest_4, next_is, now
  <2>2. n \in Name /\ Tail(work[t]) = <<>> /\ may_delegate(n) /\ (d = NoName \/ n \in unanswered)
    BY Zenon, <1>1, <2>1, NextPlan, Plans
  <2>3. \E e \in delegations(n) : authority(n, e) = n
    BY Zenon, <2>2 DEF authority, delegations
  <2>4. Planned(srv(n, n.host))
    BY Zenon, <2>2, <2>3, ResolvedPlan
  <2>5. work' = [work EXCEPT ![t] = srv(n, n.host)]
    BY Zenon, <1>2, <2>1, <2>2 DEF goes_on
  <2> QED
    BY Zenon, <2>1, <2>4, <2>5, QuietResolver DEF resolverVars
<1>5. CASE request_well_known(t)
  <2>0. now(t).do = "request_well_known"
    BY Zenon, <1>5 DEF request_well_known, next_is, now
  <2>1. PICK N \in Name : N = n /\ Tail(work[t]) = <<>> /\ may_delegate(N)
    BY Zenon, <1>1, <2>0, NextPlan, Plans
  <2> DEFINE D == dns.well_known[N]
             undelegated == <<[do |-> "actual_dest_4", name |-> N]>>
             delegated == IF is_literal(D.host) THEN resolved(N, D.host, get_ip_with_port(D).port)
                          ELSE IF D.port # 0 THEN lookup(D.host, D.host) \o resolved(N, D.host, D.port)
                          ELSE <<[do |-> "actual_dest_3_3", name |-> N]>>
  <2>2. /\ UNCHANGED <<dns, destinations, overrides, dialled, cleared>>
        /\ \/ D = NoName /\ goes_on(t, undelegated) /\ unanswered' = unanswered
           \/ D # NoName /\ goes_on(t, delegated) /\ unanswered' = unanswered
           \/ goes_on(t, undelegated) /\ unanswered' = unanswered \cup {N}
    BY Zenon, <1>5, <2>1 DEF request_well_known
  <2>3. undelegated \o <<>> = undelegated /\ delegated \o <<>> = delegated
    BY Zenon, PlanAlone DEF resolved, lookup
  <2>5. ASSUME D = NoName \/ N \in unanswered' PROVE (Planned(undelegated))'
    BY Zenon, <2>1, <2>2, <2>5 DEF Planned, Resolving, may_delegate, is_literal
  <2>6. ASSUME D # NoName PROVE Planned(delegated)
    <3>1. authority(N, TRUE) = D /\ TRUE \in delegations(N)
      BY Zenon, <2>1, <2>6 DEF authority, may_delegate, delegations
    <3>2. CASE may_delegate(D)
      BY Zenon, <2>1, <2>6, <3>2 DEF Planned, Resolving, may_delegate
    <3>3. CASE ~may_delegate(D)
      BY Zenon, <3>1, <3>3, ResolvedPlan DEF may_delegate
    <3> QED
      BY Zenon, <3>2, <3>3
  <2>7. unanswered \subseteq unanswered'
    BY Zenon, <2>2
  <2>8. CASE goes_on(t, undelegated) /\ (D = NoName \/ N \in unanswered')
    <3>1. work' = [work EXCEPT ![t] = undelegated]
      BY Zenon, <2>1, <2>3, <2>8 DEF goes_on
    <3> QED
      BY Zenon, <2>2, <2>5, <2>7, <2>8, <3>1, QuietResolver
  <2>9. CASE goes_on(t, delegated) /\ D # NoName
    <3> HIDE DEF delegated
    <3>1. work' = [work EXCEPT ![t] = delegated]
      BY Zenon, <2>1, <2>3, <2>9 DEF goes_on
    <3>2. Planned(delegated)
      BY Zenon, <2>6, <2>9
    <3> QED
      BY Zenon, <2>2, <2>7, <3>1, <3>2, QuietResolver
  <2> QED
    BY Zenon, <2>2, <2>8, <2>9
<1> QED
  BY Zenon, <1>3, <1>4, <1>5

\* A task that has nothing left to do.
LEMMA EndResolver ==
    ASSUME ResolverInv, UNCHANGED <<dns, destinations, overrides, dialled, cleared, unanswered>>,
           NEW t \in Task, work' = [work EXCEPT ![t] = <<>>]
    PROVE  ResolverInv'
<1>1. Planned(<<>>)
  BY Zenon DEF Planned
<1> QED
  BY Zenon, <1>1, QuietResolver

\* The plan of a destination, by its next step.
LEMMA DestinationPlan ==
    ASSUME ResolverInv, NEW w, NEW n \in Name, NEW d \in delegations(n), Resolved(n, d, w)
    PROVE  LET m == authority(n, d)
               h == m.host
               port == by_rules(n, d)[2]
               target == IF m.port # 0 \/ dns.srv[h] = NoName THEN h ELSE dns.srv[h].host
               x == Head(w)
           IN /\ x.do = "query_and_cache_override" =>
                    ~is_literal(h) /\ x.unter = h /\ x.host = target /\ Tail(w) = resolved(n, h, port)
              /\ x.do = "set_destination" =>
                    reaches(n, d) /\ x.name = n /\ x.host = h /\ x.port = port /\ Tail(w) = <<>>
              /\ x.do = "perform" =>
                    /\ reaches(n, d) /\ x.name = n /\ Tail(w) = <<>>
                    /\ x.dest.host = h /\ x.dest.port = port
<1> DEFINE m == authority(n, d)
           h == m.host
           port == by_rules(n, d)[2]
           target == IF m.port # 0 \/ dns.srv[h] = NoName THEN h ELSE dns.srv[h].host
           x == Head(w)
<1>1. CASE ~is_literal(h) /\ w = lookup(h, target) \o resolved(n, h, port)
  <2> DEFINE A == [do |-> "query_and_cache_override", unter |-> h, host |-> target]
             B == [do |-> "set_destination", name |-> n, host |-> h, port |-> port]
  <2>1. w = <<A>> \o <<B>>
    BY Zenon, <1>1 DEF lookup, resolved
  <2> HIDE DEF A, B
  <2>2. w = <<A, B>>
    BY Zenon, <2>1, TwoSteps
  <2>3. x = A /\ Tail(w) = <<B>>
    BY <2>2
  <2>4. A.do = "query_and_cache_override" /\ A.unter = h /\ A.host = target
    BY Zenon DEF A
  <2>5. <<B>> = resolved(n, h, port)
    BY Zenon DEF B, resolved
  <2>6. x.do = "query_and_cache_override" /\ x.unter = h /\ x.host = target /\ Tail(w) = resolved(n, h, port)
    BY Zenon, <2>3, <2>4, <2>5
  <2> HIDE DEF x
  <2>7. x.do # "set_destination" /\ x.do # "perform"
    BY Zenon, <2>6
  <2> QED
    BY Zenon, <1>1, <2>6, <2>7 DEF x
<1>2. CASE reaches(n, d) /\ w = resolved(n, h, port)
  <2>1. x = [do |-> "set_destination", name |-> n, host |-> h, port |-> port] /\ Tail(w) = <<>>
    BY Zenon, <1>2, FirstStep DEF resolved
  <2> HIDE DEF x
  <2>2. x.do = "set_destination" /\ x.name = n /\ x.host = h /\ x.port = port
    BY Zenon, <2>1
  <2>3. x.do # "query_and_cache_override" /\ x.do # "perform"
    BY Zenon, <2>2
  <2> QED
    BY Zenon, <1>2, <2>1, <2>2, <2>3 DEF x
<1>3. ASSUME reaches(n, d), NEW e \in [host : {h}, port : {port}, valid : BOOLEAN],
             w = <<[do |-> "perform", name |-> n, dest |-> e]>>
      PROVE  x.do = "perform" /\ x.name = n /\ x.dest.host = h /\ x.dest.port = port /\ Tail(w) = <<>>
             /\ x.do # "query_and_cache_override" /\ x.do # "set_destination"
  <2>1. x = [do |-> "perform", name |-> n, dest |-> e] /\ Tail(w) = <<>>
    BY Zenon, <1>3, FirstStep
  <2> HIDE DEF x
  <2>2. x.do = "perform" /\ x.name = n /\ x.dest = e
    BY <2>1
  <2>3. x.do # "query_and_cache_override" /\ x.do # "set_destination"
    BY <2>2
  <2>4. e.host = h /\ e.port = port
    BY <1>3
  <2> QED
    BY Zenon, <2>1, <2>2, <2>3, <2>4
<1> QED
  BY Zenon, <1>1, <1>2, <1>3 DEF Resolved

\* A host's entry is that of its own address or of its SRV record's target.
LEMMA PutOverride ==
    ASSUME ResolverInv, NEW u \in Host, NEW x \in {u} \cup {dns.srv[u].host : r \in {dns.srv[u]} \ {NoName}}, dns' = dns,
           overrides' = IF overrides[u].valid \/ lookup_ip(x) = NoAddr THEN overrides
                        ELSE [overrides EXCEPT ![u] = [addr |-> lookup_ip(x), overriding |-> IF x = u THEN NoHost ELSE x,
                                                       valid |-> TRUE]]
    PROVE  /\ DOMAIN overrides' = Host
           /\ \A h \in Host : overrides'[h] = overrides[h] \/ (OverrideOf(h))'
           /\ \A h \in Host : overrides[h] # NoOverride => overrides'[h] # NoOverride
           /\ lookup_ip(x) = NoAddr \/ overrides'[u] # NoOverride
<1> DEFINE entry == [addr |-> lookup_ip(x), overriding |-> IF x = u THEN NoHost ELSE x, valid |-> TRUE]
<1>1. entry.valid = TRUE /\ NoOverride.valid = FALSE
  BY Zenon DEF NoOverride
<1>2. entry # NoOverride
  BY Zenon, <1>1
<1>3. CASE overrides[u].valid \/ lookup_ip(x) = NoAddr
  <2>1. overrides[u].valid => overrides[u] # NoOverride
    BY Zenon, <1>1
  <2>2. overrides' = overrides
    BY Zenon, <1>3
  <2> QED
    BY Zenon, <1>3, <2>1, <2>2 DEF ResolverInv
<1>4. CASE ~(overrides[u].valid \/ lookup_ip(x) = NoAddr)
  <2>1. overrides' = [overrides EXCEPT ![u] = entry] /\ lookup_ip(x) # NoAddr
    BY Zenon, <1>4
  <2>2. (lookup_ip(x))' = lookup_ip(x)
    BY Zenon, SameRules
  <2>3. entry \in [addr : {(lookup_ip(x))'}, overriding : {IF x = u THEN NoHost ELSE x}, valid : BOOLEAN]
    BY Zenon, <2>2
  <2> HIDE DEF entry
  <2>4. DOMAIN overrides' = Host /\ overrides'[u] = entry /\ \A h \in Host \ {u} : overrides'[h] = overrides[h]
    BY Zenon, <2>1 DEF ResolverInv
  <2>5. (OverrideOf(u))'
    BY ZenonT(40), <2>1, <2>2, <2>3, <2>4 DEF OverrideOf
  <2> QED
    BY Zenon, <1>2, <2>4, <2>5
<1> QED
  BY Zenon, <1>3, <1>4

\* The address of a host is looked up and cached.
LEMMA OverrideStep == ASSUME ResolverInv, NEW t \in Task, query_and_cache_override(t) PROVE ResolverInv'
<1>1. ~idle(t) /\ now(t).do = "query_and_cache_override"
  BY Zenon DEF query_and_cache_override, next_is, now
<1>2. /\ steps_on(t) /\ UNCHANGED <<dns, destinations, dialled, cleared, unanswered>>
      /\ overrides' = IF overrides[now(t).unter].valid \/ lookup_ip(now(t).host) = NoAddr THEN overrides
                      ELSE [overrides EXCEPT ![now(t).unter] =
                              [addr |-> lookup_ip(now(t).host),
                               overriding |-> IF now(t).host = now(t).unter THEN NoHost ELSE now(t).host, valid |-> TRUE]]
  BY Zenon DEF query_and_cache_override
<1>3. dns \in World /\ cleared \in BOOLEAN /\ DOMAIN destinations = Name
  BY Zenon DEF ResolverInv
<1>4. ASSUME NEW h \in Host, NEW x \in {h} \cup {dns.srv[h].host : r \in {dns.srv[h]} \ {NoName}},
             now(t).unter = h, now(t).host = x, NEW steps, Tail(work[t]) = steps, <<>> \o steps = steps,
             Later /\ (lookup_ip(x) = NoAddr \/ overrides'[h] # NoOverride) => (Planned(steps))'
      PROVE  ResolverInv'
  <2>1. /\ DOMAIN overrides' = Host
        /\ \A g \in Host : overrides'[g] = overrides[g] \/ (OverrideOf(g))'
        /\ \A g \in Host : overrides[g] # NoOverride => overrides'[g] # NoOverride
        /\ lookup_ip(x) = NoAddr \/ overrides'[h] # NoOverride
    BY Zenon, <1>2, <1>4, PutOverride
  <2>2. Later
    BY Zenon, <1>2, <1>3, <2>1 DEF Later
  <2>3. work' = [work EXCEPT ![t] = steps]
    BY Zenon, <1>2, <1>4 DEF steps_on, goes_on
  <2> QED
    BY Zenon, <1>2, <1>3, <1>4, <2>1, <2>2, <2>3, ResolverFrame
<1>5. ASSUME NEW n \in Name, may_delegate(n), now(t).unter = n.host, now(t).host = n.host,
             Tail(work[t]) = <<[do |-> "request_well_known", name |-> n]>>
      PROVE  ResolverInv'
  <2> DEFINE steps == <<[do |-> "request_well_known", name |-> n]>>
  <2>1. n.host \in Host
    BY Zenon, <1>5, ResolverAssumption DEF may_delegate, is_literal
  <2>2. <<>> \o steps = steps
    BY Zenon, FewSteps
  <2>3. Later => (Planned(steps))'
    BY Zenon, <1>5 DEF Planned, Resolving, may_delegate, is_literal
  <2> QED
    BY Zenon, <1>4, <1>5, <2>1, <2>2, <2>3
<1>6. ASSUME NEW n \in Name, NEW d \in delegations(n), Resolved(n, d, work[t]) PROVE ResolverInv'
  <2> DEFINE m == authority(n, d)
             h == m.host
             port == by_rules(n, d)[2]
             target == IF m.port # 0 \/ dns.srv[h] = NoName THEN h ELSE dns.srv[h].host
  <2>1. /\ ~is_literal(h) /\ now(t).unter = h /\ now(t).host = target
        /\ Tail(work[t]) = resolved(n, h, port)
    BY Zenon, <1>1, <1>6, DestinationPlan DEF now
  <2>2. h \in Host
    BY Zenon, <1>3, <2>1, AuthorityType DEF is_literal
  <2>3. target \in {h} \cup {dns.srv[h].host : r \in {dns.srv[h]} \ {NoName}}
    BY Zenon
  <2>4. by_rules(n, d)[1] = lookup_ip(target)
    <3>1. CASE m.port # 0
      BY Zenon, <2>1, <3>1 DEF by_rules
    <3>2. CASE m.port = 0 /\ dns.srv[h] = NoName
      BY Zenon, <2>1, <3>2 DEF by_rules, by_srv
    <3>3. CASE m.port = 0 /\ dns.srv[h] # NoName
      BY Zenon, <2>1, <3>3 DEF by_rules, by_srv
    <3> QED
      BY Zenon, <3>1, <3>2, <3>3
  <2>5. PICK H, P, X : H = h /\ P = port /\ X = target
    BY Zenon
  <2>6. ASSUME Later, lookup_ip(X) = NoAddr \/ overrides'[H] # NoOverride
        PROVE  (Planned(resolved(n, H, P)))'
    <3>1. (authority(n, d))' = m /\ (by_rules(n, d))' = by_rules(n, d)
      BY Zenon, <2>6, SameRules DEF Later
    <3>2. (authority(n, d).host)' = H /\ (by_rules(n, d)[2])' = P
      BY Zenon, <2>5, <3>1
    <3>3. (reaches(n, d))'
      BY Zenon, <2>4, <2>5, <2>6, <3>1, <3>2 DEF reaches
    <3>4. d \in (delegations(n))'
      BY Zenon, <1>3, <2>6, ReachesLater
    <3> QED
      BY Zenon, <3>2, <3>3, <3>4 DEF Planned, Resolved
  <2>7. <<>> \o resolved(n, H, P) = resolved(n, H, P)
    BY Zenon, FewSteps DEF resolved
  <2>8. /\ H \in Host /\ X \in {H} \cup {dns.srv[H].host : r \in {dns.srv[H]} \ {NoName}}
        /\ now(t).unter = H /\ now(t).host = X /\ Tail(work[t]) = resolved(n, H, P)
    BY Zenon, <2>1, <2>2, <2>3, <2>5
  <2> QED
    BY Zenon, <1>4, <2>6, <2>7, <2>8
<1>7. Planned(work[t]) /\ work[t] # <<>> /\ now(t) = Head(work[t])
  BY Zenon, <1>1, NextPlan
<1> QED
  BY Zenon, <1>1, <1>5, <1>6, <1>7, Plans

\* A destination is cached, and used.
LEMMA DestinationStep == ASSUME ResolverInv, NEW t \in Task, set_destination(t) PROVE ResolverInv'
<1>1. ~idle(t) /\ now(t).do = "set_destination"
  BY Zenon DEF set_destination, next_is, now
<1>2. Planned(work[t]) /\ work[t] # <<>> /\ now(t) = Head(work[t])
  BY Zenon, <1>1, NextPlan
<1>n. PICK n \in Name : \E d \in delegations(n) : Resolved(n, d, work[t])
  BY Zenon, <1>1, <1>2, Plans
<1>3. PICK d \in delegations(n) : Resolved(n, d, work[t])
  BY Zenon, <1>n
<1>4. /\ reaches(n, d) /\ now(t).name = n /\ now(t).host = authority(n, d).host
      /\ now(t).port = by_rules(n, d)[2] /\ Tail(work[t]) = <<>>
  BY ZenonT(40), <1>1, <1>3, DestinationPlan DEF now
<1>5. PICK dest : dest = [host |-> authority(n, d).host, port |-> by_rules(n, d)[2], valid |-> TRUE]
  BY Zenon
<1>5a. dest \in [host : {authority(n, d).host}, port : {by_rules(n, d)[2]}, valid : BOOLEAN]
  BY <1>5
<1> DEFINE steps == <<[do |-> "perform", name |-> n, dest |-> dest]>>
<1>6. /\ destinations' = [destinations EXCEPT ![n] = dest]
      /\ goes_on(t, steps) /\ UNCHANGED <<dns, overrides, dialled, cleared, unanswered>>
  BY Zenon, <1>4, <1>5 DEF set_destination
<1>7. Later /\ dns \in World
  BY Zenon, <1>6 DEF Later, ResolverInv
<1>8. work' = [work EXCEPT ![t] = steps]
  BY Zenon, <1>4, <1>6, FewSteps DEF goes_on
<1>9. (Planned(steps))'
  <2>1. Planned(steps)
    BY Zenon, <1>4, <1>5a DEF Planned, Resolved
  <2> QED
    BY Zenon, <1>7, <2>1, PlannedLater
<1>10. DOMAIN destinations' = Name /\ destinations'[n] = dest /\ \A o \in Name \ {n} : destinations'[o] = destinations[o]
  BY Zenon, <1>6 DEF ResolverInv
<1>11. (DestinationOf(n))'
  <2>1. d \in (delegations(n))' /\ (reaches(n, d))'
    BY Zenon, <1>4, <1>7, ReachesLater
  <2>2. (authority(n, d))' = authority(n, d) /\ (by_rules(n, d))' = by_rules(n, d)
    BY Zenon, <1>6, SameRules
  <2>3. destinations'[n] \in [host : {(authority(n, d).host)'}, port : {(by_rules(n, d)[2])'}, valid : BOOLEAN]
    BY Zenon, <1>5a, <1>10, <2>2
  <2> QED
    BY Zenon, <2>1, <2>3 DEF DestinationOf
<1>12. DOMAIN overrides' = Host
  BY Zenon, <1>6 DEF ResolverInv
<1> HIDE DEF steps
<1> QED
  BY Zenon, <1>6, <1>7, <1>8, <1>9, <1>10, <1>11, <1>12, ResolverFrame

\* Where the name of a destination leads: what the caches hold for its host is what the rules say.
LEMMA HookedByRules ==
    ASSUME ResolverInv, NEW n \in Name, NEW d \in delegations(n), reaches(n, d),
           {n.host, dns.well_known[n].host} \cap two_addresses = {}
    PROVE  LET h == authority(n, d).host
               addr == IF is_literal(h) THEN h ELSE hooked_resolve(h)
           IN \/ addr = by_rules(n, d)[1] \/ by_rules(n, d)[1] = NoAddr
              \/ cleared /\ addr = NoAddr
<1> DEFINE m == authority(n, d)
           h == m.host
<1>1. h \in Host \cup Literal /\ h \notin two_addresses /\ dns \in World
  BY Zenon, AuthorityType DEF ResolverInv, authority
<1>2. CASE is_literal(h)
  BY Zenon, <1>2 DEF by_rules, lookup_ip
<1>3. CASE ~is_literal(h)
  <2>1. h \in Host /\ OverrideOf(h)
    BY Zenon, <1>1, <1>3 DEF is_literal, ResolverInv
  <2>2. dns.srv[h] = NoName \/ lookup_ip(h) = NoAddr
    BY Zenon, <1>1, <1>3, <2>1 DEF two_addresses
  <2>3. \/ by_rules(n, d)[1] = lookup_ip(h)
        \/ dns.srv[h] # NoName /\ by_rules(n, d)[1] = lookup_ip(dns.srv[h].host)
    BY Zenon, <1>3 DEF by_rules, by_srv
  <2>4. CASE overrides[h] = NoOverride
    <3>1. hooked_resolve(h) = lookup_ip(h)
      BY SMTT(20), <2>4 DEF NoOverride, hooked_resolve
    <3> QED
      BY Zenon, <1>3, <2>2, <2>3, <2>4, <3>1 DEF reaches
  <2>5. ASSUME lookup_ip(h) # NoAddr,
               overrides[h] \in [addr : {lookup_ip(h)}, overriding : {NoHost}, valid : BOOLEAN]
        PROVE  hooked_resolve(h) = by_rules(n, d)[1]
    <3>0. overrides[h].addr = lookup_ip(h) /\ overrides[h].overriding = NoHost
      BY Zenon, <2>5
    <3>1. hooked_resolve(h) = lookup_ip(h)
      BY Zenon, <3>0 DEF hooked_resolve
    <3> QED
      BY Zenon, <2>2, <2>3, <2>5, <3>1
  <2>6. ASSUME dns.srv[h] # NoName, dns.srv[h].host # h,
               overrides[h] \in [addr : {lookup_ip(dns.srv[h].host)}, overriding : {dns.srv[h].host}, valid : BOOLEAN]
        PROVE  hooked_resolve(h) = by_rules(n, d)[1] \/ by_rules(n, d)[1] = NoAddr
    <3>1. dns.srv[h].host # NoHost
      BY SMTT(30), <1>1, <2>1, <2>6, ResolverAssumption
    <3>0. overrides[h].addr = lookup_ip(dns.srv[h].host) /\ overrides[h].overriding = dns.srv[h].host
      BY Zenon, <2>6
    <3>2. hooked_resolve(h) = lookup_ip(dns.srv[h].host)
      BY Zenon, <3>0, <3>1 DEF hooked_resolve
    <3> QED
      BY Zenon, <2>2, <2>3, <2>6, <3>2
  <2> QED
    BY Zenon, <1>3, <2>1, <2>4, <2>5, <2>6 DEF OverrideOf
<1> QED
  BY Zenon, <1>2, <1>3

\* The server is dialled.
LEMMA PerformStep == ASSUME ResolverInv, NEW t \in Task, perform(t) PROVE ResolverInv'
<1>1. ~idle(t) /\ now(t).do = "perform"
  BY Zenon DEF perform, next_is, now
<1>2. Planned(work[t]) /\ work[t] # <<>> /\ now(t) = Head(work[t])
  BY Zenon, <1>1, NextPlan
<1>3. PICK n \in Name : \E d \in delegations(n) : Resolved(n, d, work[t])
  BY Zenon, <1>1, <1>2, Plans
<1>4. PICK d \in delegations(n) : Resolved(n, d, work[t])
  BY Zenon, <1>3
<1> DEFINE h == authority(n, d).host
           port == by_rules(n, d)[2]
           addr == IF is_literal(h) THEN h ELSE hooked_resolve(h)
<1>5. reaches(n, d) /\ now(t).name = n /\ now(t).dest.host = h /\ now(t).dest.port = port /\ Tail(work[t]) = <<>>
  BY ZenonT(40), <1>1, <1>4, DestinationPlan DEF now
<1>7. /\ dialled' = [name |-> n, addr |-> addr, port |-> port] /\ steps_on(t)
      /\ UNCHANGED <<dns, destinations, overrides, cleared, unanswered>>
  BY Zenon, <1>5 DEF perform
<1>8. Later /\ dns \in World /\ DOMAIN destinations' = Name /\ DOMAIN overrides' = Host
  BY Zenon, <1>7 DEF Later, ResolverInv
<1>9. work' = [work EXCEPT ![t] = <<>>]
  BY Zenon, <1>5, <1>7, FewSteps DEF steps_on, goes_on
<1>10. (Planned(<<>>))'
  BY Zenon DEF Planned
<1>11. DialsItsServer'
  <2>1. dialled'.name = n /\ dialled'.addr = addr /\ dialled'.port = port
    <3> HIDE DEF addr, port
    <3> QED BY Zenon, <1>7
  <2>2. two_addresses' = two_addresses /\ (by_rules(n, d))' = by_rules(n, d) /\ d \in (delegations(n))'
    BY Zenon, <1>7, <1>8, SameRules, ReachesLater
  <2>3. by_rules(n, d) = <<by_rules(n, d)[1], by_rules(n, d)[2]>>
    BY Zenon DEF by_rules, by_srv
  <2>4. ASSUME {n.host, dns.well_known[n].host} \cap two_addresses = {}
        PROVE  \/ <<dialled'.addr, dialled'.port>> = by_rules(n, d)
               \/ by_rules(n, d)[1] = NoAddr
               \/ cleared /\ dialled'.addr = NoAddr
    <3>1. addr = by_rules(n, d)[1] \/ by_rules(n, d)[1] = NoAddr \/ (cleared /\ addr = NoAddr)
      BY Zenon, <1>5, <2>4, HookedByRules
    <3> HIDE DEF addr
    <3> QED
      BY Zenon, <2>1, <2>3, <3>1
  <2> QED
    BY Zenon, <1>7, <2>1, <2>2, <2>4 DEF DialsItsServer
<1> QED
  BY Zenon, <1>7, <1>8, <1>9, <1>10, <1>11, ResolverFrame

\* Entries expire, or are cleared.
LEMMA ForgetStep ==
    ASSUME ResolverInv, \/ \E n \in Name : expires(n)
                        \/ \E h \in Host : override_expires(h)
                        \/ \E t \in Task : clears(t)
    PROVE  ResolverInv'
<1>0. dns \in World /\ cleared \in BOOLEAN /\ DOMAIN work = Task /\ DOMAIN destinations = Name /\ DOMAIN overrides = Host
  BY Zenon DEF ResolverInv
<1>1. ASSUME NEW n \in Name, expires(n) PROVE ResolverInv'
  <2>1. /\ destinations' = [destinations EXCEPT ![n] = [destinations[n] EXCEPT !.valid = FALSE]] /\ work' = work
        /\ UNCHANGED <<dns, overrides, dialled, cleared, unanswered>> /\ destinations[n].valid
    BY <1>1 DEF expires, taskVars
  <2>2. Later
    BY Zenon, <1>0, <2>1 DEF Later
  <2>3. destinations[n] # NoDestination
    BY <2>1 DEF NoDestination
  <2>4. PICK d \in delegations(n) :
          /\ reaches(n, d)
          /\ destinations[n] \in [host : {authority(n, d).host}, port : {by_rules(n, d)[2]}, valid : BOOLEAN]
    BY Zenon, <2>3 DEF ResolverInv, DestinationOf
  <2>5. /\ DOMAIN destinations' = Name /\ \A o \in Name \ {n} : destinations'[o] = destinations[o]
        /\ destinations'[n] \in [host : {authority(n, d).host}, port : {by_rules(n, d)[2]}, valid : BOOLEAN]
    <3>1. [destinations[n] EXCEPT !.valid = FALSE] \in [host : {authority(n, d).host}, port : {by_rules(n, d)[2]}, valid : BOOLEAN]
      BY Zenon, <2>4
    <3>2. PICK e : e = [destinations[n] EXCEPT !.valid = FALSE]
      BY Zenon
    <3>3. destinations' = [destinations EXCEPT ![n] = e]
      BY Zenon, <2>1, <3>2
    <3>4. DOMAIN destinations' = Name /\ destinations'[n] = e /\ \A o \in Name \ {n} : destinations'[o] = destinations[o]
      BY <1>0, <3>3
    <3> QED
      BY Zenon, <3>1, <3>2, <3>4
  <2>6. (DestinationOf(n))'
    <3>1. d \in (delegations(n))' /\ (reaches(n, d))'
      BY Zenon, <1>0, <2>2, <2>4, ReachesLater
    <3>2. (authority(n, d))' = authority(n, d) /\ (by_rules(n, d))' = by_rules(n, d)
      BY Zenon, <2>1, SameRules
    <3>3. destinations'[n] \in [host : {(authority(n, d).host)'}, port : {(by_rules(n, d)[2])'}, valid : BOOLEAN]
      BY Zenon, <2>5, <3>2
    <3> QED
      BY Zenon, <3>1, <3>3 DEF DestinationOf
  <2>7. \A o \in Name : (DestinationOf(o))'
    BY Zenon, <1>0, <2>2, <2>5, <2>6, DestinationLater DEF ResolverInv
  <2>8. \A h \in Host : (OverrideOf(h))'
    BY Zenon, <2>1, OverrideLater DEF ResolverInv
  <2>9. \A t \in Task : (Planned(work[t]))'
    BY Zenon, <2>1, <2>2, PlannedLater DEF ResolverInv
  <2> QED
    BY Zenon, <1>0, <2>1, <2>2, <2>5, <2>7, <2>8, <2>9, DialledLater DEF ResolverInv
<1>2. ASSUME NEW h \in Host, override_expires(h) PROVE ResolverInv'
  <2>1. /\ overrides' = [overrides EXCEPT ![h] = [overrides[h] EXCEPT !.valid = FALSE]] /\ work' = work
        /\ UNCHANGED <<dns, destinations, dialled, cleared, unanswered>> /\ overrides[h].valid
    BY <1>2 DEF override_expires, taskVars
  <2>2. overrides[h] # NoOverride
    BY <2>1 DEF NoOverride
  <2>3. PICK x \in {h} \cup {dns.srv[h].host : r \in {dns.srv[h]} \ {NoName}} :
          /\ lookup_ip(x) # NoAddr
          /\ overrides[h] \in [addr : {lookup_ip(x)}, overriding : {IF x = h THEN NoHost ELSE x}, valid : BOOLEAN]
    BY Zenon, <2>2 DEF ResolverInv, OverrideOf
  <2>4. /\ DOMAIN overrides' = Host /\ \A g \in Host \ {h} : overrides'[g] = overrides[g]
        /\ overrides'[h] \in [addr : {lookup_ip(x)}, overriding : {IF x = h THEN NoHost ELSE x}, valid : BOOLEAN]
    <3>1. [overrides[h] EXCEPT !.valid = FALSE] \in [addr : {lookup_ip(x)}, overriding : {IF x = h THEN NoHost ELSE x}, valid : BOOLEAN]
      BY Zenon, <2>3
    <3>2. PICK e : e = [overrides[h] EXCEPT !.valid = FALSE]
      BY Zenon
    <3>3. overrides' = [overrides EXCEPT ![h] = e]
      BY Zenon, <2>1, <3>2
    <3>4. DOMAIN overrides' = Host /\ overrides'[h] = e /\ \A g \in Host \ {h} : overrides'[g] = overrides[g]
      BY Zenon, <1>0, <3>3
    <3> QED
      BY Zenon, <3>1, <3>2, <3>4
  <2>5. (lookup_ip(x))' = lookup_ip(x)
    BY Zenon, <2>1, SameRules
  <2>6. (OverrideOf(h))'
    <3>1. overrides'[h] \in [addr : {(lookup_ip(x))'}, overriding : {IF x = h THEN NoHost ELSE x}, valid : BOOLEAN]
      BY Zenon, <2>4, <2>5
    <3>2. x \in {h} \cup {(dns.srv[h].host)' : r \in {(dns.srv[h])'} \ {NoName}}
      BY Zenon, <2>1
    <3> QED
      BY Zenon, <2>3, <2>5, <3>1, <3>2 DEF OverrideOf
  <2>7. overrides'[h] # NoOverride
    <3>1. overrides'[h].addr = lookup_ip(x)
      BY Zenon, <2>4
    <3>2. NoOverride.addr = NoAddr
      BY Zenon DEF NoOverride
    <3> QED
      BY Zenon, <2>3, <3>1, <3>2
  <2>8. Later
    BY Zenon, <1>0, <2>1, <2>4, <2>7 DEF Later
  <2>9. \A g \in Host : (OverrideOf(g))'
    BY Zenon, <2>1, <2>4, <2>6, OverrideLater DEF ResolverInv
  <2>10. \A n \in Name : (DestinationOf(n))'
    BY Zenon, <1>0, <2>1, <2>8, DestinationLater DEF ResolverInv
  <2>11. \A t \in Task : (Planned(work[t]))'
    BY Zenon, <2>1, <2>8, PlannedLater DEF ResolverInv
  <2> QED
    BY Zenon, <1>0, <2>1, <2>4, <2>8, <2>9, <2>10, <2>11, DialledLater DEF ResolverInv
<1>3. ASSUME NEW t \in Task, clears(t) PROVE ResolverInv'
  <2>1. /\ ~idle(t) /\ now(t).do \in {"clear_destinations", "clear_overrides"} /\ steps_on(t)
        /\ cleared' = TRUE /\ UNCHANGED <<dns, dialled, unanswered>>
        /\ \/ destinations' = [n \in Name |-> NoDestination] /\ overrides' = overrides
           \/ overrides' = [h \in Host |-> NoOverride] /\ destinations' = destinations
    BY Zenon, <1>3 DEF clears, next_is, now
  <2>2. Later
    BY Zenon, <2>1 DEF Later
  <2>3. Tail(work[t]) \in {<<>>, clear_destinations, clear_overrides}
    BY Zenon, <2>1, NextPlan, Plans
  <2>4. PICK steps \in {<<>>, clear_destinations, clear_overrides} : Tail(work[t]) = steps /\ <<>> \o steps = steps
    BY Zenon, <2>3, FewSteps DEF clear_destinations, clear_overrides
  <2>5. work' = [work EXCEPT ![t] = steps]
    BY Zenon, <2>1, <2>4 DEF steps_on, goes_on
  <2>6. (Planned(steps))'
    BY Zenon DEF Planned, clear_destinations, clear_overrides
  <2>7. DOMAIN destinations' = Name /\ \A n \in Name : destinations'[n] = destinations[n] \/ destinations'[n] = NoDestination
    BY Zenon, <1>0, <2>1
  <2>8. DOMAIN overrides' = Host /\ \A h \in Host : overrides'[h] = overrides[h] \/ overrides'[h] = NoOverride
    BY <1>0, <2>1
  <2>9. \A n \in Name : destinations'[n] = destinations[n] \/ (DestinationOf(n))'
    BY Zenon, <2>7 DEF DestinationOf, NoDestination
  <2>10. \A h \in Host : overrides'[h] = overrides[h] \/ (OverrideOf(h))'
    BY Zenon, <2>8 DEF OverrideOf, NoOverride
  <2> QED
    BY Zenon, <2>1, <2>2, <2>5, <2>6, <2>7, <2>8, <2>9, <2>10, ResolverFrame
<1> QED
  BY Zenon, <1>1, <1>2, <1>3

\* Requests begin with the destination that is cached, if there is one; and give up.
LEMMA RequestStep ==
    ASSUME ResolverInv, NEW t \in Task,
           \/ \E n \in Name : execute_on(t, n)
           \/ clear_cache(t) \/ handle_resolve_error(t) \/ handle_dial_error(t)
    PROVE  ResolverInv'
<1>1. ASSUME NEW n \in Name, execute_on(t, n) PROVE ResolverInv'
  <2>1. work' = [work EXCEPT ![t] = lookup_actual_dest(n)] /\ UNCHANGED resolverVars
    BY Zenon, <1>1 DEF execute_on, begins
  <2>2. Planned(lookup_actual_dest(n))
    <3>1. CASE ~cached_destination(n)
      BY Zenon, <3>1 DEF Planned, Resolving, lookup_actual_dest
    <3>2. CASE cached_destination(n)
      <4>1. destinations[n] # NoDestination
        BY <3>2 DEF cached_destination, NoDestination
      <4>2. PICK d \in delegations(n) :
              /\ reaches(n, d)
              /\ destinations[n] \in [host : {authority(n, d).host}, port : {by_rules(n, d)[2]}, valid : BOOLEAN]
        BY Zenon, <4>1 DEF ResolverInv, DestinationOf
      <4>3. Resolved(n, d, <<[do |-> "perform", name |-> n, dest |-> destinations[n]]>>)
        BY Zenon, <4>2 DEF Resolved
      <4> QED
        BY Zenon, <3>2, <4>3 DEF Planned, lookup_actual_dest
    <3> QED
      BY Zenon, <3>1, <3>2
  <2>3. PICK steps : steps = lookup_actual_dest(n)
    BY Zenon
  <2> QED
    BY Zenon, <2>1, <2>2, <2>3, QuietResolver DEF resolverVars
<1>2. CASE clear_cache(t)
  <2>1. PICK steps \in {clear_destinations \o clear_overrides, clear_overrides \o clear_destinations} :
          work' = [work EXCEPT ![t] = steps] /\ UNCHANGED resolverVars
    BY Zenon, <1>2 DEF clear_cache, begins
  <2>2. Planned(steps)
    BY Zenon DEF Planned
  <2> QED
    BY Zenon, <2>1, <2>2, QuietResolver DEF resolverVars
<1>3. CASE handle_resolve_error(t)
  BY Zenon, <1>3, EndResolver DEF handle_resolve_error, ends_with
<1>4. CASE handle_dial_error(t)
  <2>1. ~idle(t) /\ now(t).do = "perform" /\ steps_on(t)
    BY Zenon, <1>4 DEF handle_dial_error, next_is, now
  <2>2. Planned(work[t]) /\ work[t] # <<>> /\ now(t) = Head(work[t])
    BY Zenon, <2>1, NextPlan
  <2>3. \E n \in Name : \E d \in delegations(n) : Resolved(n, d, work[t])
    BY Zenon, <2>1, <2>2, Plans
  <2>4. Tail(work[t]) = <<>>
    BY Zenon, <2>1, <2>2, <2>3, DestinationPlan
  <2>5. work' = [work EXCEPT ![t] = <<>>]
    BY Zenon, <2>1, <2>4, FewSteps DEF steps_on, goes_on
  <2> QED
    BY Zenon, <1>4, <2>5, EndResolver DEF handle_dial_error
<1> QED
  BY Zenon, <1>1, <1>2, <1>3, <1>4

\* At first nothing is cached.
LEMMA InitResolverInv == InitResolver /\ InitTasks(0) => ResolverInv
<1> SUFFICES ASSUME InitResolver, InitTasks(0) PROVE ResolverInv
  OBVIOUS
<1>1. /\ DOMAIN destinations = Name /\ \A n \in Name : destinations[n] = NoDestination
      /\ DOMAIN overrides = Host /\ \A h \in Host : overrides[h] = NoOverride
      /\ DOMAIN work = Task /\ \A t \in Task : work[t] = <<>>
  BY Zenon DEF InitResolver, no_requests, InitTasks
<1>2. dialled.name = NoName
  BY DEF InitResolver, no_requests
<1> QED
  BY Zenon, <1>1, <1>2 DEF InitResolver, no_requests, ResolverInv, DestinationOf, OverrideOf, Planned, DialsItsServer

\* Whatever is cached or has expired, requests go where the rules for server names say, with the
\* exceptions that DialsItsServer names: for any servers, hosts and records, any number of requests
\* and failing lookups (lookup_actual_dest, resolve_actual_dest, query_and_cache_override in
\* service/resolver/, hooked_resolve, and perform in service/sending/send.rs).
THEOREM RequestsFollowTheRules == SpecResolver => []DialsItsServer
<1>1. ResolverInv /\ [NextResolver]_<<resolverVars, taskVars>> => ResolverInv'
  <2>1. ASSUME ResolverInv, UNCHANGED <<resolverVars, taskVars>> PROVE ResolverInv'
    <3>1. /\ UNCHANGED <<dns, destinations, overrides, dialled, cleared, unanswered, work>>
          /\ Later /\ dns \in World
      BY Zenon, <2>1 DEF resolverVars, taskVars, Later, ResolverInv
    <3>2. \A n \in Name : (DestinationOf(n))'
      BY Zenon, <2>1, <3>1, DestinationLater DEF ResolverInv
    <3>3. \A h \in Host : (OverrideOf(h))'
      BY Zenon, <2>1, <3>1, OverrideLater DEF ResolverInv
    <3>4. \A t \in Task : (Planned(work[t]))'
      BY Zenon, <2>1, <3>1, PlannedLater DEF ResolverInv
    <3> QED
      BY Zenon, <2>1, <3>1, <3>2, <3>3, <3>4, DialledLater DEF ResolverInv
  <2> QED
    BY Zenon, <2>1, ResolveStep, DelegateStep, OverrideStep, DestinationStep, PerformStep, ForgetStep, RequestStep
       DEF NextResolver, resolverDone
<1>2. ResolverInv => DialsItsServer
  BY Zenon DEF ResolverInv
<1> QED
  BY <1>1, <1>2, InitResolverInv, PTL DEF SpecResolver

-----------------------------------------------------------------------------
(* Cross-signing keys.                                                     *)

\* A step that is not an upload of cross-signing keys.
LEMMA NoUpload ==
    ASSUME NEW x \in KeyRequest
    PROVE  x.do # "add_cross_signing_keys"
BY Zenon DEF KeyRequest

\* What is left of a plan after its first step has no upload.
LEMMA RestOfPlan ==
    ASSUME NEW q, KeyPlan(q), q # <<>>
    PROVE  Tail(q) \in Seq(KeyRequest)
BY DEF KeyPlan

\* A task that is about to upload cross-signing keys.
LEMMA FirstUpload ==
    ASSUME NEW t \in Task, KeyPlan(work[t]), next_is(t, "add_cross_signing_keys")
    PROVE  now(t) \in Upload
<1>1. ASSUME work[t] \in Seq(KeyRequest) PROVE FALSE
  <2>1. work[t] # <<>> /\ Head(work[t]).do = "add_cross_signing_keys"
    BY Zenon DEF next_is, idle
  <2>2. Head(work[t]) \in KeyRequest
    BY <1>1, <2>1
  <2> QED
    BY Zenon, <2>1, <2>2, NoUpload
<1> QED
  BY Zenon, <1>1 DEF KeyPlan, now

\* A task that takes a step, begins or gives up, with steps that are no uploads.
LEMMA KeyTask ==
    ASSUME KeysInv, NEW t \in Task, NEW steps \in Seq(KeyRequest),
           \/ begins(t, steps) \/ ends_with(t, steps) \/ (~idle(t) /\ goes_on(t, steps))
    PROVE  /\ DOMAIN work' = Task /\ work'[t] \in Seq(KeyRequest)
           /\ \A s \in Task \ {t} : work'[s] = work[s]
<1>1. DOMAIN work = Task /\ KeyPlan(work[t])
  BY Zenon DEF KeysInv
<1>2. work[t] # <<>> => steps \o Tail(work[t]) \in Seq(KeyRequest)
  BY SMTT(20), <1>1, RestOfPlan
<1>3. \/ work' = [work EXCEPT ![t] = steps]
      \/ work[t] # <<>> /\ work' = [work EXCEPT ![t] = steps \o Tail(work[t])]
  BY Zenon DEF begins, ends_with, goes_on, idle
<1> QED
  BY Zenon, <1>1, <1>2, <1>3

\* Such a step, if it leaves the cross-signing keys alone.
LEMMA KeyStepTaken ==
    ASSUME KeysInv, NEW t \in Task, NEW steps \in Seq(KeyRequest),
           \/ begins(t, steps) \/ ends_with(t, steps) \/ (~idle(t) /\ goes_on(t, steps)),
           UNCHANGED crossVars, one_time_keys' \subseteq OneTimeKey, signatures' \subseteq Signer
    PROVE  KeysInv'
<1>1. /\ DOMAIN work' = Task /\ work'[t] \in Seq(KeyRequest)
      /\ \A s \in Task \ {t} : work'[s] = work[s]
  BY Zenon, KeyTask
<1>2. \A s \in Task : KeyPlan(work'[s])
  BY Zenon, <1>1 DEF KeysInv, KeyPlan
<1>3. ~next_is(t, "add_cross_signing_keys")'
  <2> SUFFICES ASSUME work'[t] # <<>>, Head(work'[t]).do = "add_cross_signing_keys" PROVE FALSE
    BY Zenon DEF next_is, idle
  <2>1. Head(work'[t]) \in KeyRequest
    BY SMTT(20), <1>1
  <2> QED
    BY Zenon, <2>1, NoUpload
<1>4. \A s \in Task \ {t} : /\ next_is(s, "add_cross_signing_keys")' = next_is(s, "add_cross_signing_keys")
                            /\ now(s)' = now(s)
  BY Zenon, <1>1 DEF next_is, idle, now
<1>5. cross_signing' = cross_signing /\ unasked' = unasked /\ raced_upload' = raced_upload
  BY Zenon DEF crossVars
<1>6. ASSUME ~raced_upload', NEW s \in Task PROVE Undisturbed(s)'
  <2>1. Undisturbed(s)
    BY Zenon, <1>5, <1>6 DEF KeysInv
  <2> QED
    BY Zenon, <1>3, <1>4, <1>5, <2>1 DEF Undisturbed
<1> QED
  BY Zenon, <1>1, <1>2, <1>5, <1>6 DEF KeysInv

\* At first no task is under way.
LEMMA InitKeysInv == InitKeys /\ InitTasks(0) => KeysInv
<1> SUFFICES ASSUME InitKeys, InitTasks(0) PROVE KeysInv
  OBVIOUS
<1>1. DOMAIN work = Task /\ \A t \in Task : work[t] = <<>>
  BY Zenon DEF InitTasks
<1>2. <<>> \in Seq(KeyRequest)
  OBVIOUS
<1> QED
  BY Zenon, <1>1, <1>2 DEF InitKeys, KeysInv, KeyPlan, Undisturbed, next_is, idle

\* A step put before others.
LEMMA PutFirst ==
    ASSUME NEW S, NEW a \in S, NEW rest \in Seq(S)
    PROVE  /\ <<a>> \o rest \in Seq(S) /\ <<a>> \o rest # <<>>
           /\ Head(<<a>> \o rest) = a /\ Tail(<<a>> \o rest) = rest
<1> DEFINE q == <<a>> \o rest
<1>1. /\ q \in Seq(S) /\ Len(q) = Len(rest) + 1 /\ q[1] = a
      /\ \A i \in 1 .. Len(rest) : q[i + 1] = rest[i]
  OBVIOUS
<1> HIDE DEF q
<1>2. q # <<>> /\ Head(q) = a
  BY <1>1
<1>3. Tail(q) \in Seq(S) /\ Len(Tail(q)) = Len(rest) /\ \A i \in 1 .. Len(rest) : Tail(q)[i] = rest[i]
  BY <1>1, <1>2
<1>4. Tail(q) = rest
  BY Zenon, <1>3, StepByStep
<1> QED
  BY Zenon, <1>1, <1>2, <1>4 DEF q

\* An upload begins. If no other is under way, nobody changes the keys before it writes them.
LEMMA UploadBegins ==
    ASSUME KeysInv, NEW t \in Task, upload_signing_keys_route(t)
    PROVE  KeysInv'
<1>1. PICK keys \in Uploads, password \in BOOLEAN :
        LET found == check_for_new_keys(keys)
        IN /\ found = "new" \/ (found = "auth" /\ password)
           /\ begins(t, << [do |-> "add_cross_signing_keys", keys |-> keys,
                            asked |-> found = "auth"] >> \o mark_device_key_update)
           /\ raced_upload' = (raced_upload \/ others_do(t, "add_cross_signing_keys"))
           /\ UNCHANGED <<one_time_keys, cross_signing, unasked, signatures, deviceVars, announced>>
  BY Zenon DEF upload_signing_keys_route
<1> DEFINE u == [do |-> "add_cross_signing_keys", keys |-> keys, asked |-> check_for_new_keys(keys) = "auth"]
           a == [do |-> "announce"]
<1>2. u \in Upload /\ a \in KeyRequest
  BY Zenon DEF Upload, KeyRequest
<1>u. u.do = "add_cross_signing_keys" /\ u.keys = keys /\ u.asked = (check_for_new_keys(keys) = "auth")
  BY Zenon
<1>3. /\ idle(t) /\ work' = [work EXCEPT ![t] = <<u>> \o <<a>>]
  BY Zenon, <1>1 DEF begins, mark_device_key_update
<1>4. check_for_new_keys(keys) = "new" =>
        \A p \in Part : keys[p] # 0 => cross_signing[p] \in {0, keys[p]}
  <2> SUFFICES ASSUME check_for_new_keys(keys) = "new", NEW p \in Part, keys[p] # 0,
                      cross_signing[p] \notin {0, keys[p]}
               PROVE FALSE
    BY Zenon
  <2>1. check_for_new_keys(keys) = "auth"
    BY Zenon DEF check_for_new_keys
  <2> QED
    BY Zenon, <2>1
<1> HIDE DEF u, a
<1>5. <<u>> \o <<a>> # <<>> /\ Head(<<u>> \o <<a>>) = u /\ Tail(<<u>> \o <<a>>) \in Seq(KeyRequest)
  <2>1. u \in Upload \cup KeyRequest /\ a \in Upload \cup KeyRequest
    BY Zenon, <1>2
  <2>2. <<a>> \in Seq(KeyRequest)
    BY <1>2
  <2>3. <<a>> \in Seq(Upload \cup KeyRequest)
    BY <2>1
  <2>4. <<u>> \o <<a>> # <<>> /\ Head(<<u>> \o <<a>>) = u /\ Tail(<<u>> \o <<a>>) = <<a>>
    BY ZenonT(40), <2>1, <2>3, PutFirst
  <2> QED
    BY Zenon, <2>2, <2>4
<1>6. DOMAIN work = Task /\ KeyPlan(work[t])
  BY Zenon DEF KeysInv
<1>7. /\ DOMAIN work' = Task /\ work'[t] = <<u>> \o <<a>>
      /\ \A s \in Task \ {t} : work'[s] = work[s]
  BY Zenon, <1>3, <1>6
<1>8. \A s \in Task : KeyPlan(work'[s])
  <2>1. KeyPlan(work'[t])
    BY Zenon, <1>2, <1>5, <1>7 DEF KeyPlan
  <2> QED
    BY Zenon, <1>7, <2>1 DEF KeysInv
<1>9. ASSUME ~raced_upload' PROVE unasked' = {} /\ \A s \in Task : Undisturbed(s)'
  <2>1. ~raced_upload /\ ~others_do(t, "add_cross_signing_keys") /\ unasked' = unasked /\ cross_signing' = cross_signing
    BY Zenon, <1>1, <1>9
  <2>2. ASSUME NEW s \in Task \ {t} PROVE ~next_is(s, "add_cross_signing_keys")'
    <3> SUFFICES ASSUME work[s] # <<>>, Head(work[s]).do = "add_cross_signing_keys" PROVE FALSE
      BY Zenon, <1>7 DEF next_is, idle
    <3>1. KeyPlan(work[s])
      BY Zenon DEF KeysInv
    <3>2. 1 \in 1 .. Len(work[s]) /\ work[s][1] = Head(work[s])
      <4>1. \E S : work[s] \in Seq(S)
        <5>1. CASE work[s] \in Seq(KeyRequest)
          BY Zenon, <5>1
        <5>2. CASE Head(work[s]) \in Upload /\ Tail(work[s]) \in Seq(KeyRequest)
          BY SMTT(20), <5>2
        <5> QED
          BY Zenon, <3>1, <5>1, <5>2 DEF KeyPlan
      <4> QED
        BY <4>1
    <3> QED
      BY Zenon, <2>1, <3>2 DEF others_do
  <2>3. now(t)' = u
    BY Zenon, <1>5, <1>7 DEF now
  <2>4. ASSUME NEW s \in Task PROVE Undisturbed(s)'
    <3>1. CASE s = t
      <4>1. \A r \in Task \ {t} : ~next_is(r, "add_cross_signing_keys")'
        BY Zenon, <2>2
      <4>2. ~u.asked => check_for_new_keys(keys) = "new"
        BY Zenon, <1>1, <1>u
      <4>3. ~u.asked => \A p \in Part : u.keys[p] # 0 => cross_signing'[p] \in {0, u.keys[p]}
        BY Zenon, <1>4, <1>u, <2>1, <4>2
      <4> QED
        BY Zenon, <2>3, <3>1, <4>1, <4>3 DEF Undisturbed
    <3>2. CASE s # t
      BY Zenon, <2>2, <3>2 DEF Undisturbed
    <3> QED
      BY Zenon, <3>1, <3>2
  <2> QED
    BY Zenon, <2>1, <2>4 DEF KeysInv
<1>10. raced_upload' \in BOOLEAN /\ one_time_keys' = one_time_keys /\ signatures' = signatures
  BY Zenon, <1>1 DEF others_do, KeysInv
<1> QED
  BY Zenon, <1>7, <1>8, <1>9, <1>10 DEF KeysInv

\* The keys are written. What was let through without authentication changes none.
LEMMA UploadWrites ==
    ASSUME KeysInv, NEW t \in Task, add_cross_signing_keys(t)
    PROVE  KeysInv'
<1>1. next_is(t, "add_cross_signing_keys") /\ ~idle(t) /\ goes_on(t, <<>>)
  BY Zenon DEF add_cross_signing_keys, next_is, steps_on
<1>2. /\ DOMAIN work' = Task /\ work'[t] \in Seq(KeyRequest)
      /\ \A s \in Task \ {t} : work'[s] = work[s]
  <2>1. <<>> \in Seq(KeyRequest)
    OBVIOUS
  <2> QED
    BY Zenon, <1>1, <2>1, KeyTask
<1>3. \A s \in Task : KeyPlan(work'[s])
  BY Zenon, <1>2 DEF KeysInv, KeyPlan
<1>4. ASSUME ~raced_upload' PROVE unasked' = {} /\ \A s \in Task : Undisturbed(s)'
  <2>1. ~raced_upload /\ unasked = {} /\ Undisturbed(t)
    BY Zenon, <1>4 DEF KeysInv, add_cross_signing_keys
  <2>2. unasked' = {}
    BY Zenon, <1>1, <2>1 DEF Undisturbed, add_cross_signing_keys
  <2>3. ASSUME NEW s \in Task PROVE ~next_is(s, "add_cross_signing_keys")'
    <3>1. CASE s = t
      <4> SUFFICES ASSUME work'[t] # <<>>, Head(work'[t]).do = "add_cross_signing_keys" PROVE FALSE
        BY Zenon, <3>1 DEF next_is, idle
      <4>1. Head(work'[t]) \in KeyRequest
        BY <1>2
      <4> QED
        BY Zenon, <4>1, NoUpload
    <3>2. CASE s # t
      BY Zenon, <1>1, <1>2, <2>1, <3>2 DEF Undisturbed, next_is, idle
    <3> QED
      BY Zenon, <3>1, <3>2
  <2> QED
    BY Zenon, <2>2, <2>3 DEF Undisturbed
<1>5. raced_upload' = raced_upload /\ one_time_keys' = one_time_keys /\ signatures' = signatures
  BY Zenon DEF add_cross_signing_keys
<1> QED
  BY Zenon, <1>2, <1>3, <1>4, <1>5 DEF KeysInv

\* The requests that upload no cross-signing keys.
LEMMA KeyRoutes ==
    ASSUME KeysInv, NEW t \in Task,
           \/ upload_keys_route(t) \/ claim_keys_route(t) \/ upload_signatures_route(t)
           \/ get_keys_helper(t) \/ send_event_to_device_route(t)
    PROVE  KeysInv'
<1>0. UNCHANGED <<one_time_keys, crossVars, signatures>>
  BY Zenon DEF upload_keys_route, claim_keys_route, upload_signatures_route, get_keys_helper,
     send_event_to_device_route, keysVars
<1>a. one_time_keys' \subseteq OneTimeKey /\ signatures' \subseteq Signer
  BY Zenon, <1>0 DEF KeysInv
<1>b. ASSUME NEW steps \in Seq(KeyRequest), begins(t, steps) PROVE KeysInv'
  BY Zenon, <1>0, <1>a, <1>b, KeyStepTaken
<1>1. CASE upload_keys_route(t)
  <2>1. PICK k \in OneTimeKey, device_keys \in BOOLEAN :
          begins(t, << [do |-> "add_one_time_key", k |-> k] >>
                    \o IF device_keys THEN << [do |-> "add_device_keys"] >> ELSE <<>>)
    BY Zenon, <1>1 DEF upload_keys_route
  <2> DEFINE x == [do |-> "add_one_time_key", k |-> k]
             y == [do |-> "add_device_keys"]
  <2>2. x \in KeyRequest /\ y \in KeyRequest
    BY Zenon DEF KeyRequest
  <2> HIDE DEF x, y
  <2>3. <<x>> \o (IF device_keys THEN <<y>> ELSE <<>>) \in Seq(KeyRequest)
    BY <2>2
  <2> QED
    BY Zenon, <1>b, <2>1, <2>3 DEF x, y
<1>2. CASE claim_keys_route(t)
  <2> DEFINE x == [do |-> "take_one_time_key"]
  <2>1. x \in KeyRequest
    BY Zenon DEF KeyRequest
  <2> HIDE DEF x
  <2>2. <<x>> \in Seq(KeyRequest)
    BY <2>1
  <2> QED
    BY Zenon, <1>b, <1>2, <2>2 DEF x, claim_keys_route
<1>3. CASE upload_signatures_route(t)
  <2>1. PICK s \in Signer : begins(t, << [do |-> "read_key", s |-> s] >>)
    BY Zenon, <1>3 DEF upload_signatures_route
  <2> DEFINE x == [do |-> "read_key", s |-> s]
  <2>2. x \in KeyRequest
    BY Zenon DEF KeyRequest
  <2> HIDE DEF x
  <2>3. <<x>> \in Seq(KeyRequest)
    BY <2>2
  <2> QED
    BY Zenon, <1>b, <2>1, <2>3 DEF x
<1>4. CASE get_keys_helper(t)
  <2>1. PICK s \in Signer : begins(t, << [do |-> "write_key", with |-> signatures \cap {s}, by |-> {}] >>)
    BY Zenon, <1>4 DEF get_keys_helper
  <2> DEFINE x == [do |-> "write_key", with |-> signatures \cap {s}, by |-> {}]
  <2>2. x \in KeyRequest
    BY Zenon DEF KeyRequest
  <2> HIDE DEF x
  <2>3. <<x>> \in Seq(KeyRequest)
    BY <2>2
  <2> QED
    BY Zenon, <1>b, <2>1, <2>3 DEF x
<1>5. CASE send_event_to_device_route(t)
  <2>1. PICK order \in [1 .. Cardinality(Message) -> Message] :
          begins(t, [i \in DOMAIN order |-> [do |-> "to_device", m |-> order[i]]] \o << [do |-> "add_txnid"] >>)
    BY Zenon, <1>5 DEF send_event_to_device_route
  <2>2. Cardinality(Message) \in Nat
    BY Zenon, MessageAssumption
  <2> DEFINE x(m) == [do |-> "to_device", m |-> m]
             y == [do |-> "add_txnid"]
             q == [i \in DOMAIN order |-> x(order[i])]
  <2>3. (\A m \in Message : x(m) \in KeyRequest) /\ y \in KeyRequest
    BY Zenon DEF KeyRequest
  <2> HIDE DEF x, y
  <2>4. q \in Seq(KeyRequest)
    BY <2>2, <2>3
  <2>5. <<y>> \in Seq(KeyRequest)
    BY <2>3
  <2> HIDE DEF q
  <2>6. q \o <<y>> \in Seq(KeyRequest)
    BY <2>4, <2>5
  <2> QED
    BY Zenon, <1>b, <2>1, <2>6 DEF q, x, y
<1> QED
  BY Zenon, <1>1, <1>2, <1>3, <1>4, <1>5

\* Their steps.
LEMMA KeySteps ==
    ASSUME KeysInv, NEW t \in Task,
           \/ add_one_time_key(t) \/ add_device_keys(t) \/ take_one_time_key(t) \/ one_time_key_is_removed(t)
           \/ sign_key(t) \/ key_is_written_back(t) \/ key_is_announced(t)
           \/ add_to_device_event(t) \/ to_device_event_is_invalid(t) \/ add_txnid(t)
    PROVE  KeysInv'
<1>0. UNCHANGED crossVars
  BY Zenon DEF add_one_time_key, add_device_keys, take_one_time_key, one_time_key_is_removed, sign_key,
     key_is_written_back, key_is_announced, add_to_device_event, to_device_event_is_invalid, add_txnid, keysVars
<1>a. ~idle(t) /\ now(t).do # "add_cross_signing_keys"
  BY Zenon DEF add_one_time_key, add_device_keys, take_one_time_key, one_time_key_is_removed, sign_key,
     key_is_written_back, key_is_announced, add_to_device_event, to_device_event_is_invalid, add_txnid, next_is, now
<1>b. now(t) \in KeyRequest
  <2>1. KeyPlan(work[t]) /\ work[t] # <<>>
    BY Zenon, <1>a DEF KeysInv, idle
  <2>2. CASE work[t] \in Seq(KeyRequest)
    BY SMTT(20), <2>1, <2>2 DEF now
  <2>3. CASE Head(work[t]) \in Upload
    BY Zenon, <1>a, <2>3 DEF now, Upload
  <2> QED
    BY Zenon, <2>1, <2>2, <2>3 DEF KeyPlan
<1>c. one_time_keys \subseteq OneTimeKey /\ signatures \subseteq Signer
  BY Zenon DEF KeysInv
<1>d. ASSUME NEW steps \in Seq(KeyRequest), goes_on(t, steps) \/ ends_with(t, steps),
             one_time_keys' \subseteq OneTimeKey, signatures' \subseteq Signer
      PROVE  KeysInv'
  BY Zenon, <1>0, <1>a, <1>d, KeyStepTaken
<1>e. <<>> \in Seq(KeyRequest)
  OBVIOUS
<1> DEFINE announce == [do |-> "announce"]
<1>f. announce \in KeyRequest
  BY Zenon DEF KeyRequest
<1>g. mark_device_key_update = <<announce>>
  BY Zenon DEF mark_device_key_update
<1> HIDE DEF announce
<1>h. mark_device_key_update \in Seq(KeyRequest)
  BY <1>f, <1>g
<1>1. CASE add_one_time_key(t)
  <2>1. now(t).do = "add_one_time_key"
    BY Zenon, <1>1 DEF add_one_time_key, next_is, now
  <2>2. now(t).k \in OneTimeKey
    BY Zenon, <1>b, <2>1 DEF KeyRequest
  <2> QED
    BY Zenon, <1>1, <1>c, <1>d, <1>e, <2>2 DEF add_one_time_key, steps_on
<1>2. CASE add_device_keys(t)
  <2>1. PICK same \in BOOLEAN : goes_on(t, IF same THEN <<>> ELSE mark_device_key_update)
    BY Zenon, <1>2 DEF add_device_keys
  <2>2. (IF same THEN <<>> ELSE mark_device_key_update) \in Seq(KeyRequest)
    BY Zenon, <1>e, <1>h
  <2> QED
    BY Zenon, <1>2, <1>c, <1>d, <2>1, <2>2 DEF add_device_keys
<1>3. CASE take_one_time_key(t)
  <2> DEFINE k == CHOOSE k \in one_time_keys : TRUE
             x == [do |-> "remove_one_time_key", k |-> k]
  <2>1. one_time_keys # {} => k \in OneTimeKey
    BY Zenon, <1>c
  <2> HIDE DEF k
  <2>2. one_time_keys # {} => x \in KeyRequest
    BY Zenon, <2>1 DEF KeyRequest
  <2> HIDE DEF x
  <2>3. (IF one_time_keys = {} THEN <<>> ELSE <<x>>) \in Seq(KeyRequest)
    BY <2>2
  <2> QED
    BY Zenon, <1>3, <1>c, <1>d, <2>3 DEF take_one_time_key, keysVars, k, x
<1>4. CASE one_time_key_is_removed(t)
  BY Zenon, <1>4, <1>c, <1>d, <1>e DEF one_time_key_is_removed, steps_on
<1>5. CASE sign_key(t)
  <2>1. now(t).do = "read_key"
    BY Zenon, <1>5 DEF sign_key, next_is, now
  <2>2. now(t).s \in Signer
    BY Zenon, <1>b, <2>1 DEF KeyRequest
  <2> DEFINE x == [do |-> "write_key", with |-> signatures \cup {now(t).s}, by |-> {now(t).s}]
  <2>3. x \in KeyRequest
    BY Zenon, <1>c, <2>2 DEF KeyRequest
  <2> HIDE DEF x
  <2>4. <<x>> \o mark_device_key_update \in Seq(KeyRequest)
    BY <1>h, <2>3
  <2> QED
    BY Zenon, <1>5, <1>c, <1>d, <2>4 DEF sign_key, keysVars, x
<1>6. CASE key_is_written_back(t)
  <2>1. now(t).do = "write_key"
    BY Zenon, <1>6 DEF key_is_written_back, next_is, now
  <2>2. now(t).with \in SUBSET Signer
    BY Zenon, <1>b, <2>1 DEF KeyRequest
  <2> QED
    BY Zenon, <1>6, <1>c, <1>d, <1>e, <2>2 DEF key_is_written_back, steps_on
<1>7. CASE key_is_announced(t) \/ add_to_device_event(t) \/ to_device_event_is_invalid(t) \/ add_txnid(t)
  BY Zenon, <1>7, <1>c, <1>d, <1>e DEF key_is_announced, add_to_device_event, to_device_event_is_invalid,
     add_txnid, steps_on
<1> QED
  BY Zenon, <1>1, <1>2, <1>3, <1>4, <1>5, <1>6, <1>7

\* Every step.
LEMMA NextKeysInv == KeysInv /\ [NextKeys]_<<keysVars, taskVars>> => KeysInv'
<1> SUFFICES ASSUME KeysInv, [NextKeys]_<<keysVars, taskVars>> PROVE KeysInv'
  OBVIOUS
<1>1. ASSUME UNCHANGED <<keysVars, taskVars>> PROVE KeysInv'
  BY ZenonT(40), <1>1 DEF KeysInv, keysVars, crossVars, taskVars, KeyPlan, Undisturbed, next_is, idle, now
<1>2. ASSUME NEW t \in Task,
             \/ upload_keys_route(t) \/ add_one_time_key(t) \/ add_device_keys(t) \/ claim_keys_route(t)
             \/ take_one_time_key(t) \/ one_time_key_is_removed(t) \/ upload_signing_keys_route(t)
             \/ add_cross_signing_keys(t) \/ upload_signatures_route(t) \/ sign_key(t) \/ get_keys_helper(t)
             \/ key_is_written_back(t) \/ key_is_announced(t) \/ send_event_to_device_route(t)
             \/ add_to_device_event(t) \/ to_device_event_is_invalid(t) \/ add_txnid(t)
      PROVE  KeysInv'
  BY Zenon, <1>2, UploadBegins, UploadWrites, KeyRoutes, KeySteps
<1> QED
  BY Zenon, <1>1, <1>2 DEF NextKeys, keysDone

\* Without authentication no cross-signing key that was there is replaced, whatever else is
\* uploaded, claimed and signed at the same time, unless two uploads of them overlapped.
THEOREM KeysReplacedWithPassword == SpecKeys => []ReplacedWithPassword
<1>1. KeysInv => ReplacedWithPassword
  BY Zenon DEF KeysInv, ReplacedWithPassword
<1> QED
  BY InitKeysInv, NextKeysInv, <1>1, PTL DEF SpecKeys
=============================================================================
