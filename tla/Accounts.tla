------------------------------ MODULE Accounts ------------------------------
(***************************************************************************)
(* Accounts, devices and access tokens: registration, login, logout, the   *)
(* deletion of devices, password changes, deactivation, the admin commands *)
(* and the tables of the users service. Nothing locks these tables, so the *)
(* writes of two requests about one account interleave.                    *)
(***************************************************************************)
EXTENDS Tasks, SequencesExt

CONSTANTS Account,      \* local users
          Device,       \* device IDs
          Founder       \* the account a server that is in use already has

VARIABLES password,            \* userid_password: a row may be the empty string
          devices,             \* userdeviceid_metadata
          userdeviceid_token,  \* the token of each device
          token_userdeviceid,  \* the device of each token
          issued,              \* tokens made so far
          login_token,         \* accounts with a login token
          admins,              \* members of the admin room, the server user apart
          deactivated,         \* accounts whose deactivation has finished
          late_login,          \* those a login not asking the password, or begun
                               \* before the password was emptied, was made to
          overlapped           \* devices the token of which two requests wrote at once

accountVars == <<password, devices, userdeviceid_token, token_userdeviceid, issued,
                 login_token, admins, deactivated, late_login, overlapped>>
tokenVars == <<devices, userdeviceid_token, token_userdeviceid, overlapped>>
accountHistory == <<deactivated, late_login>>

UserDevice == Account \X Device
Token == 0 .. MaxStarted
NoToken == -1
NoOwner == <<>>

exists(u) == password[u] # "absent"
is_deactivated(u) == password[u] = "empty"
find_from_token(tok) == token_userdeviceid[tok]
all_device_ids(u) == {d \in Device : <<u, d>> \in devices}
user_is_admin(u) == u \in admins

\* A request comes with an access token of the device.
auth(u, d) == \E tok \in Token : find_from_token(tok) = <<u, d>>

-----------------------------------------------------------------------------
(* What the operations of the users service write, one step a write.       *)

step(what, u, d, tok) == [do |-> what, u |-> u, d |-> d, tok |-> tok]

\* The old token's row goes first; the device's row is overwritten, then the
\* token's row is put.
set_token_late_cleanup(u, d, tok) ==
    << step("put_device_token", u, d, tok),
       step("put_token_device", u, d, tok), step("read_old", u, d, tok) >>
set_token(u, d, tok) ==
    << step("read_old", u, d, tok),
       step("put_device_token", u, d, tok), step("put_token_device", u, d, tok) >>

create_device(u, d, tok) == << step("create_device", u, d, tok) >> \o set_token(u, d, tok)

remove_device(u, d) == << step("take_token", u, d, NoToken), step("del_device", u, d, NoToken) >>

remove_devices(u, ds) ==
    LET s == SetToSeq(ds) IN FlattenSeq([i \in 1 .. Len(s) |-> remove_device(u, s[i])])

set_password(u, p) == << [do |-> "set_password", u |-> u, p |-> p] >>

deactivate_account(u) ==
    << [do |-> "remove_all", u |-> u], [do |-> "deactivate", u |-> u] >>

\* Afterwards the profile is emptied and every room left, the admin room too.
full_user_deactivate(u) ==
    deactivate_account(u) \o << [do |-> "leave_all_rooms", u |-> u] >>

make_user_admin(u, first) == << [do |-> "grant", u |-> u, first |-> first] >>

-----------------------------------------------------------------------------
(* The routes.                                                             *)

request(t, steps) == begins(t, steps) /\ UNCHANGED <<tokenVars, password, admins>>

\* The account, if another task has yet to do something with it.
beside(t, u) ==
    {v \in {u} : \E s \in Task \ {t} : \E i \in 1 .. Len(work[s]) : work[s][i].u = v}

\* A fresh token each time one is made.
new_token == issued' = issued + 1
no_token == issued' = issued

\* Interactive authentication asks for the password; an empty one never verifies.
try_auth(u) == ~is_deactivated(u)

\* The name is looked up before the account is made. A guest has no password, and is
\* not made an admin; a client may also ask for no device.
register_allowed(u) == ~exists(u)

register_route(t, u, d) ==
    /\ register_allowed(u)
    /\ new_token
    /\ \E guest, inhibit_login \in BOOLEAN :
        request(t, set_password(u, IF guest THEN "empty" ELSE "set")
                   \o (IF inhibit_login THEN <<>>
                       ELSE create_device(u, d, issued + 1)
                            \o IF guest THEN <<>> ELSE << [do |-> "first", u |-> u] >>))
    /\ late_login' = late_login \cup beside(t, u)
    /\ UNCHANGED <<login_token, deactivated>>

\* A device the account already has is given a new token.
log_in(t, u, d) ==
    /\ new_token
    /\ request(t, IF d \in all_device_ids(u) THEN set_token(u, d, issued + 1)
                  ELSE create_device(u, d, issued + 1))

login_route_password(t, u, d) ==
    /\ exists(u) /\ ~is_deactivated(u)
    /\ log_in(t, u, d)
    /\ late_login' = late_login \cup beside(t, u)
    /\ UNCHANGED <<login_token, deactivated>>

\* An appservice logs its users in without a password.
login_route_appservice(t, u, d) ==
    /\ exists(u)
    /\ log_in(t, u, d)
    /\ late_login' = late_login \cup {u}
    /\ UNCHANGED <<login_token, deactivated>>

\* find_from_login_token: the token is read, then removed.
login_route_token(t, u, d) ==
    /\ u \in login_token
    /\ no_token
    /\ request(t, << [do |-> "use_login_token", u |-> u, d |-> d] >>)
    /\ UNCHANGED <<login_token, accountHistory>>

login_token_route(t, u, d) ==
    /\ auth(u, d) /\ try_auth(u)
    /\ login_token' = login_token \cup {u}
    /\ UNCHANGED <<tokenVars, password, admins, issued, accountHistory, taskVars>>

logout_route(t, u, d) ==
    /\ auth(u, d) /\ no_token
    /\ request(t, remove_device(u, d))
    /\ UNCHANGED <<login_token, accountHistory>>

logout_all_route(t, u, d) ==
    /\ auth(u, d) /\ no_token
    /\ request(t, << [do |-> "remove_all", u |-> u] >>)
    /\ UNCHANGED <<login_token, accountHistory>>

delete_device_route(t, u, d) ==
    /\ auth(u, d) /\ no_token /\ try_auth(u)
    /\ \E other \in Device : request(t, remove_device(u, other))
    /\ UNCHANGED <<login_token, accountHistory>>

delete_devices_route(t, u, d) ==
    /\ auth(u, d) /\ no_token /\ try_auth(u)
    /\ \E ds \in SUBSET Device : request(t, remove_devices(u, ds))
    /\ UNCHANGED <<login_token, accountHistory>>

change_password_route(t, u, d) ==
    /\ auth(u, d) /\ no_token /\ try_auth(u)
    /\ \E logout_devices \in BOOLEAN :
        request(t, set_password(u, "set")
                   \o IF logout_devices THEN << [do |-> "remove_others", u |-> u, d |-> d] >>
                      ELSE <<>>)
    /\ UNCHANGED <<login_token, accountHistory>>

deactivate_route(t, u, d) ==
    /\ auth(u, d) /\ no_token /\ try_auth(u)
    /\ request(t, full_user_deactivate(u))
    /\ UNCHANGED <<login_token, accountHistory>>

-----------------------------------------------------------------------------
(* The admin commands about accounts.                                      *)

command(t, u, steps) ==
    /\ request(t, steps) /\ no_token
    /\ UNCHANGED <<login_token, accountHistory>>

\* The account is deactivated a second time when it leaves its rooms.
deactivate(t, u) ==
    \E no_leave_rooms \in BOOLEAN :
        command(t, u, deactivate_account(u)
                      \o IF no_leave_rooms THEN <<>> ELSE full_user_deactivate(u))

\* An admin is passed over, unless the command is forced.
deactivate_all(t) ==
    \E force, no_leave_rooms \in BOOLEAN :
        LET us == SetToSeq({u \in Account : /\ exists(u) /\ ~is_deactivated(u)
                                            /\ ~user_is_admin(u) \/ force})
        IN command(t, Founder, FlattenSeq([i \in 1 .. Len(us) |->
                deactivate_account(us[i])
                \o IF no_leave_rooms THEN <<>> ELSE full_user_deactivate(us[i])]))

\* Whether the account exists is not asked: the command also revives one.
reset_password(t, u) == command(t, u, set_password(u, "set"))

create_user(t, u) ==
    /\ ~exists(u) /\ no_token
    /\ request(t, set_password(u, "set") \o << [do |-> "first", u |-> u] >>)
    /\ UNCHANGED <<login_token, deactivated, late_login>>

grant_admin(t, u) == command(t, u, make_user_admin(u, FALSE))

-----------------------------------------------------------------------------
(* The steps.                                                              *)

\* A step that writes the tables of this device's token.
writes_token(t) ==
    LET s == now(t)
    IN /\ overlapped' =
             IF \E q \in Task \ {t} : \E i \in 1 .. Len(work[q]) :
                    "tok" \in DOMAIN work[q][i] /\ work[q][i].u = s.u /\ work[q][i].d = s.d
             THEN overlapped \cup {<<s.u, s.d>>} ELSE overlapped
       /\ UNCHANGED <<password, admins, issued, login_token, accountHistory>>

\* The account must exist; the metadata is put.
metadata_is_put(t) ==
    /\ next_is(t, "create_device") /\ writes_token(t)
    /\ IF exists(now(t).u)
       THEN devices' = devices \cup {<<now(t).u, now(t).d>>} /\ steps_on(t)
       ELSE ends_with(t, <<>>) /\ UNCHANGED devices
    /\ UNCHANGED <<userdeviceid_token, token_userdeviceid>>

\* The device must have metadata.
old_token_is_read(t) ==
    /\ next_is(t, "read_old") /\ writes_token(t)
    /\ LET old == userdeviceid_token[<<now(t).u, now(t).d>>]
       IN IF <<now(t).u, now(t).d>> \notin devices THEN ends_with(t, <<>>)
          ELSE goes_on(t, IF old = NoToken THEN <<>>
                          ELSE << step("del_token_device", now(t).u, now(t).d, old) >>)
    /\ UNCHANGED <<devices, userdeviceid_token, token_userdeviceid>>

token_device_is_removed(t) ==
    /\ next_is(t, "del_token_device") /\ writes_token(t) /\ steps_on(t)
    /\ token_userdeviceid' = [token_userdeviceid EXCEPT ![now(t).tok] = NoOwner]
    /\ UNCHANGED <<devices, userdeviceid_token>>

device_token_is_put(t) ==
    /\ next_is(t, "put_device_token") /\ writes_token(t) /\ steps_on(t)
    /\ userdeviceid_token' = [userdeviceid_token EXCEPT ![<<now(t).u, now(t).d>>] = now(t).tok]
    /\ UNCHANGED <<devices, token_userdeviceid>>

token_device_is_put(t) ==
    /\ next_is(t, "put_token_device") /\ writes_token(t) /\ steps_on(t)
    /\ token_userdeviceid' =
          [token_userdeviceid EXCEPT ![now(t).tok] = <<now(t).u, now(t).d>>]
    /\ UNCHANGED <<devices, userdeviceid_token>>

\* remove_device: the token is read, then its two rows go.
token_is_taken(t) ==
    /\ next_is(t, "take_token") /\ writes_token(t)
    /\ LET old == userdeviceid_token[<<now(t).u, now(t).d>>]
       IN goes_on(t, IF old = NoToken THEN <<>>
                     ELSE << step("del_device_token", now(t).u, now(t).d, old),
                             step("del_token_device", now(t).u, now(t).d, old) >>)
    /\ UNCHANGED <<devices, userdeviceid_token, token_userdeviceid>>

device_token_is_removed(t) ==
    /\ next_is(t, "del_device_token") /\ writes_token(t) /\ steps_on(t)
    /\ userdeviceid_token' = [userdeviceid_token EXCEPT ![<<now(t).u, now(t).d>>] = NoToken]
    /\ UNCHANGED <<devices, token_userdeviceid>>

device_is_removed(t) ==
    /\ next_is(t, "del_device") /\ writes_token(t) /\ steps_on(t)
    /\ devices' = devices \ {<<now(t).u, now(t).d>>}
    /\ UNCHANGED <<userdeviceid_token, token_userdeviceid>>

devices_are_listed(t) ==
    /\ \/ next_is(t, "remove_all") /\ goes_on(t, remove_devices(now(t).u, all_device_ids(now(t).u)))
       \/ /\ next_is(t, "remove_others")
          /\ goes_on(t, remove_devices(now(t).u, all_device_ids(now(t).u) \ {now(t).d}))
    /\ late_login' = late_login \cup beside(t, now(t).u)
    /\ UNCHANGED <<tokenVars, password, admins, issued, login_token, deactivated>>

\* An account with a password is not deactivated any more.
password_is_set(t) ==
    /\ next_is(t, "set_password") /\ steps_on(t)
    /\ password' = [password EXCEPT ![now(t).u] = now(t).p]
    /\ deactivated' = deactivated \ {now(t).u}
    /\ UNCHANGED <<tokenVars, admins, issued, login_token, late_login>>

password_is_emptied(t) ==
    /\ next_is(t, "deactivate") /\ steps_on(t)
    /\ password' = [password EXCEPT ![now(t).u] = "empty"]
    /\ deactivated' = deactivated \cup {now(t).u}
    /\ late_login' = late_login \cup beside(t, now(t).u)
    /\ UNCHANGED <<tokenVars, admins, issued, login_token>>

login_token_is_used(t) ==
    /\ next_is(t, "use_login_token")
    /\ new_token
    /\ login_token' = login_token \ {now(t).u}
    /\ late_login' = late_login \cup {now(t).u}
    /\ goes_on(t, IF now(t).d \in all_device_ids(now(t).u)
                  THEN set_token(now(t).u, now(t).d, issued + 1)
                  ELSE create_device(now(t).u, now(t).d, issued + 1))
    /\ UNCHANGED <<tokenVars, password, admins, deactivated>>

\* The first real user becomes an admin: only the server user is in the room.
first_user(t) ==
    /\ next_is(t, "first")
    /\ goes_on(t, IF admins = {} THEN make_user_admin(now(t).u, TRUE) ELSE <<>>)
    /\ UNCHANGED <<tokenVars, password, admins, issued, login_token,
                   accountHistory>>

\* Under the room's mutex: one who is in the room already is refused.
admin_is_granted(t) ==
    /\ next_is(t, "grant") /\ steps_on(t)
    /\ admins' = admins \cup {now(t).u}
    /\ UNCHANGED <<tokenVars, password, issued, login_token, deactivated,
                   late_login>>

rooms_are_left(t) ==
    /\ next_is(t, "leave_all_rooms") /\ steps_on(t)
    /\ admins' = admins \ {now(t).u}
    /\ UNCHANGED <<tokenVars, password, issued, login_token, accountHistory>>

-----------------------------------------------------------------------------
\* A new server, or one its founder is logged in to with the first device.
AccountsWith(used, d) ==
    /\ password = [u \in Account |-> IF u \in used THEN "set" ELSE "absent"]
    /\ devices = used \X {d}
    /\ userdeviceid_token = [x \in UserDevice |-> IF x \in used \X {d} THEN 0 ELSE NoToken]
    /\ token_userdeviceid =
          [tok \in Token |-> IF tok = 0 /\ used # {} THEN <<Founder, d>> ELSE NoOwner]
    /\ issued = 0
    /\ login_token = {}
    /\ admins = used
    /\ deactivated = {} /\ late_login = {} /\ overlapped = {}

IdleAccounts == AccountsWith({}, CHOOSE d \in Device : TRUE)
InitAccounts == IdleAccounts \/ AccountsWith({Founder}, CHOOSE d \in Device : TRUE)

accountsDone == all_idle /\ UNCHANGED <<accountVars, taskVars>>

NextAccounts ==
    \/ \E t \in Task, u \in Account :
        \/ \E d \in Device :
            \/ register_route(t, u, d)
            \/ login_route_password(t, u, d)
            \/ login_route_appservice(t, u, d)
            \/ login_route_token(t, u, d)
            \/ login_token_route(t, u, d)
            \/ logout_route(t, u, d)
            \/ logout_all_route(t, u, d)
            \/ delete_device_route(t, u, d)
            \/ delete_devices_route(t, u, d)
            \/ change_password_route(t, u, d)
            \/ deactivate_route(t, u, d)
        \/ deactivate(t, u)
        \/ reset_password(t, u)
        \/ create_user(t, u)
        \/ grant_admin(t, u)
    \/ \E t \in Task :
        \/ deactivate_all(t)
        \/ metadata_is_put(t)
        \/ old_token_is_read(t)
        \/ token_device_is_removed(t)
        \/ device_token_is_put(t)
        \/ token_device_is_put(t)
        \/ token_is_taken(t)
        \/ device_token_is_removed(t)
        \/ device_is_removed(t)
        \/ devices_are_listed(t)
        \/ password_is_set(t)
        \/ password_is_emptied(t)
        \/ login_token_is_used(t)
        \/ first_user(t)
        \/ admin_is_granted(t)
        \/ rooms_are_left(t)
    \/ accountsDone

SpecAccounts == InitAccounts /\ InitTasks(0) /\ [][NextAccounts]_<<accountVars, taskVars>>

-----------------------------------------------------------------------------
AccountsTypeOK ==
    /\ password \in [Account -> {"absent", "empty", "set"}]
    /\ devices \subseteq UserDevice
    /\ userdeviceid_token \in [UserDevice -> Token \cup {NoToken}]
    /\ token_userdeviceid \in [Token -> UserDevice \cup {NoOwner}]
    /\ issued \in Token
    /\ login_token \subseteq Account /\ admins \subseteq Account

\* Some task has yet to write the tables of this device's token.
token_pending(x) ==
    \E t \in Task : \E i \in 1 .. Len(work[t]) :
        "tok" \in DOMAIN work[t][i] /\ <<work[t][i].u, work[t][i].d>> = x

\* The two token tables agree, however logins, logouts and deletions interleaved. The
\* token the database gives for a device authenticates as that device: set_token and
\* remove_device write in an order that cannot leave a dead one. And "Replaces the access
\* token of one device": a token that authenticates is the one token of a device that
\* exists, unless two requests wrote that device's token at once. A deactivated account has
\* none left, although its devices are removed before its password is, but for one from a
\* login that ran beside the deactivation or that needs no password.
TokenTablesAgree ==
    /\ \A x \in UserDevice :
        ~token_pending(x) /\ userdeviceid_token[x] # NoToken
            => find_from_token(userdeviceid_token[x]) = x
    /\ \A tok \in Token :
        LET x == find_from_token(tok)
        IN x # NoOwner /\ x \notin overlapped /\ ~token_pending(x)
             => userdeviceid_token[x] = tok /\ x \in devices
    /\ \A u \in deactivated \ late_login : \A d \in Device :
        <<u, d>> \notin overlapped => ~auth(u, d)
=============================================================================
