----------------------------- MODULE MCServices -----------------------------
(***************************************************************************)
(* The services of the server side by side. They share no state that their *)
(* properties speak of, so a behaviour exercises one of them, the focus.   *)
(***************************************************************************)
EXTENDS MutexMap, Accounts, Keys, KeyBackups, SlidingSync, Media, Migrations, Presence, TLC

VARIABLE focus

servicesVars == <<vars, accountVars, keysVars, backupVars, slidingSyncVars, mediaVars, migrationVars,
                  presenceVars, taskVars, focus>>

InitServices ==
    /\ focus \in {"mutex_map", "accounts", "keys", "key_backups", "sliding_sync", "media", "migrations",
                  "presence"}
    /\ Init /\ InitTasks(0) /\ InitKeys /\ InitKeyBackups
    /\ IF focus = "accounts" THEN InitAccounts ELSE IdleAccounts
    /\ IF focus = "sliding_sync" THEN InitSlidingSync ELSE IdleSlidingSync
    /\ IF focus = "media" THEN InitMedia ELSE IdleMedia
    /\ IF focus = "migrations" THEN InitMigrations ELSE IdleMigrations
    /\ InitPresence

NextServices ==
    /\ UNCHANGED focus
    /\ IF focus = "mutex_map" THEN Next /\ UNCHANGED taskVars ELSE UNCHANGED vars
    /\ IF focus = "accounts" THEN NextAccounts ELSE UNCHANGED accountVars
    /\ IF focus = "keys" THEN NextKeys ELSE UNCHANGED keysVars
    /\ IF focus = "key_backups" THEN NextKeyBackups ELSE UNCHANGED backupVars
    /\ IF focus = "sliding_sync" THEN NextSlidingSync /\ UNCHANGED taskVars
       ELSE UNCHANGED slidingSyncVars
    /\ IF focus = "media" THEN NextMedia ELSE UNCHANGED mediaVars
    /\ IF focus = "migrations" THEN NextMigrations /\ UNCHANGED taskVars ELSE UNCHANGED migrationVars
    /\ IF focus = "presence" THEN NextPresence ELSE UNCHANGED presenceVars

SpecServices == InitServices /\ [][NextServices]_servicesVars

MCConnecting == {<<"v4", TRUE>>, <<"v5", TRUE>>, <<"v4", FALSE>>}
MCKind == {<<"to_device">>, <<"keys">>, <<"timeline", 1>>, <<"receipts", 2>>}
MCDim == {<<20, 20>>}
MCMediaConfig == {[compat |-> b, prune |-> b, check |-> TRUE, freeze |-> TRUE] : b \in BOOLEAN}

\* Databases of a version and with the fixes of an older server, and what those leave to fix.
MCOld(v, done) ==
    [version |-> v, done |-> done, users |-> {"bot", "u", "v"}, password |-> {"u"}, admin_room |-> ADMIN_EVENTS,
     misspelt |-> IF v < 12 THEN {"u", "v"} ELSE {}, outdated |-> IF v < 13 THEN {"u", "v"} ELSE {},
     doubled |-> IF "fix_bad_double_separator_in_state_cache" \in done THEN {} ELSE {"u"},
     room_joined |-> {"v", "w"}, user_joined |-> {"u", "v"}, state_joined |-> {"u", "v"}, left |-> {}, joined_count |-> 2,
     references |-> {"e1"},
     unseparated |-> IF v < 17 \/ "fix_referencedevents_missing_sep" \notin done THEN {"e2"} ELSE {},
     receipts |-> IF v < 17 THEN {<<1, "u">>, <<2, "u">>, <<3, "v">>, <<4, "u">>, <<5, "u">>, <<6, "u">>}
                  ELSE {<<1, "u">>}]
MCNew ==
    [MCOld(17, Fixes) EXCEPT !.version = 0, !.done = {}, !.users = {}, !.password = {}, !.admin_room = 0,
        !.room_joined = {}, !.user_joined = {}, !.state_joined = {}, !.joined_count = 0,
        !.references = {}, !.receipts = {}]
MCDatabase ==
    {MCNew, MCOld(10, {}), MCOld(11, {}), MCOld(12, {"feat_sha256_media"}),
     MCOld(13, {"feat_sha256_media", "fix_bad_double_separator_in_state_cache"}), MCOld(13, Fixes),
     MCOld(17, Fixes), MCOld(17, Fixes \ {"fix_referencedevents_missing_sep"}), MCOld(18, Fixes),
     [MCOld(17, Fixes) EXCEPT !.users = {"u"}]}

MCSymmetry == Permutations(Task) \cup Permutations(Attempt)
=============================================================================
