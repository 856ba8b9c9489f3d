-------------------------------- MODULE Media --------------------------------
(***************************************************************************)
(* The media repository: a row per file in the database, the file itself   *)
(* in the media directory, thumbnails made on demand, media of other       *)
(* servers fetched and kept, deletion by the admin, the url previews, and  *)
(* what a start does to the directory. Nothing is locked but the previews. *)
(***************************************************************************)
EXTENDS Tasks, FiniteSetsExt, SequencesExt

CONSTANTS LocalMxc, RemoteMxc, \* media IDs of this server and of others
          BlockedMxc,      \* those of servers whose media is not to be downloaded
          Dim,             \* thumbnail sizes that are asked for
          Uploader,        \* users
          Url,             \* pages that are previewed
          MediaConfig,     \* settings a start may find: records of the fields below
          MaxMediaFaults   \* bound: crashes and failing writes

ASSUME MediaAssumption ==
    /\ MediaConfig \subseteq [compat : BOOLEAN, prune : BOOLEAN, check : BOOLEAN, freeze : BOOLEAN]
    /\ Dim \subseteq Nat \X Nat

VARIABLES mediaid_file,   \* keys: a media ID, a size, and whether there is a disposition
          mediaid_user,   \* who a media ID was stored for
          media_file,     \* the files with hashed names
          legacy_file,    \* the names used formerly: a file, or a link to the hashed name
          media_config, phase, migrated, unchecked,  \* the start of the server
          url_previews, preview_lock,
          made,           \* media IDs made up so far
          media_faults,
          damaged         \* keys whose file a fault kept from being written, or a start ruined

directoryVars == <<media_file, legacy_file>>
startVars == <<media_config, phase, migrated, unchecked>>
previewVars == <<url_previews, preview_lock>>
mediaVars == <<mediaid_file, mediaid_user, directoryVars, startVars, previewVars, made,
               media_faults, damaged>>

Mxc == LocalMxc \cup RemoteMxc
Original == <<0, 0>>
Nobody == "nobody"
FreeLock == "free"
media_key(mxc, dim, disposition) == [mxc |-> mxc, dim |-> dim, disposition |-> disposition]
without(f, k) == [x \in DOMAIN f \ {k} |-> f[x]]

\* A size is rounded up to one of a few, or to the original.
normalized(dim) ==
    LET sizes == << <<32, 32>>, <<96, 96>>, <<320, 240>>, <<640, 480>>, <<800, 600>> >>
        fits == {i \in DOMAIN sizes : dim[1] <= sizes[i][1] /\ dim[2] <= sizes[i][2]}
    IN IF fits = {} THEN Original ELSE sizes[Min(fits)]

\* The first key with the size; one without a disposition comes before the others.
search_file_metadata(mxc, dim) ==
    LET found == {k \in mediaid_file : k.mxc = mxc /\ k.dim = dim}
        bare == {k \in found : ~k.disposition}
    IN IF bare = {} THEN found ELSE bare

search_mxc_metadata_prefix(mxc) == {k \in mediaid_file : k.mxc = mxc}
get_all_user_mxcs(user) == {r[1] : r \in {x \in mediaid_user : x[2] = user}}

-----------------------------------------------------------------------------
(* What the requests consist of.                                           *)

\* The rows are written before the file.
create_file_metadata(k, user) ==
    <<[do |-> "insert_file", key |-> k]>>
        \o IF user = Nobody THEN <<>> ELSE <<[do |-> "put_user", key |-> k, user |-> user]>>
create_media_file(k) == <<[do |-> "create_file", key |-> k], [do |-> "write_all", key |-> k]>>
create(k, user) == create_file_metadata(k, user) \o create_media_file(k)

\* Of one key after the other the file is removed, and then every row of the media ID.
delete_rows_first(keys) ==
    LET q == SetToSeq(keys)
    IN FlattenSeq([i \in DOMAIN q |->
            <<[do |-> "delete_file_mxc", key |-> q[i]], [do |-> "delete_users", key |-> q[i]],
              [do |-> "remove_media_file", key |-> q[i]]>>])
delete(keys) ==
    LET q == SetToSeq(keys)
    IN FlattenSeq([i \in DOMAIN q |->
            <<[do |-> "remove_media_file", key |-> q[i]],
              [do |-> "delete_file_mxc", key |-> q[i]], [do |-> "delete_users", key |-> q[i]]>>])

delete_list(mxcs) == LET q == SetToSeq(mxcs) IN [i \in DOMAIN q |-> [do |-> "search", mxc |-> q[i]]]

\* A request for remote media that is not here: the authenticated endpoint first.
fetch_remote(mxc, dim, user, legacy) ==
    <<[do |-> "fetch", mxc |-> mxc, dim |-> dim, user |-> user, legacy |-> legacy, fallback |-> FALSE]>>

asked(t, steps) == phase = "serving" /\ begins(t, steps)

create_content_route(t, mxc, user) ==
    /\ mxc \in LocalMxc \ made
    /\ asked(t, create(media_key(mxc, Original, TRUE), user))
    /\ made' = made \cup {mxc}
    /\ UNCHANGED <<mediaid_file, mediaid_user, directoryVars, startVars, previewVars,
                   media_faults, damaged>>

get_content_route(t, mxc, user) ==
    /\ asked(t, <<[do |-> "get", mxc |-> mxc, user |-> user, legacy |-> FALSE]>>)
    /\ UNCHANGED mediaVars

get_content_thumbnail_route(t, mxc, dim, user) ==
    /\ asked(t, <<[do |-> "get_thumbnail", mxc |-> mxc, dim |-> dim, user |-> user, legacy |-> FALSE]>>)
    /\ UNCHANGED mediaVars

\* The routes without authentication.
get_content_legacy_route(t, mxc) ==
    /\ asked(t, <<[do |-> "get", mxc |-> mxc, user |-> Nobody, legacy |-> TRUE]>>)
    /\ UNCHANGED mediaVars

get_content_thumbnail_legacy_route(t, mxc, dim) ==
    /\ asked(t, <<[do |-> "get_thumbnail", mxc |-> mxc, dim |-> dim, user |-> Nobody, legacy |-> TRUE]>>)
    /\ UNCHANGED mediaVars

\* The admin may fetch what is already here.
get_remote_file(t, mxc) == asked(t, fetch_remote(mxc, Original, Nobody, FALSE)) /\ UNCHANGED mediaVars
get_remote_thumbnail(t, mxc, dim) == asked(t, fetch_remote(mxc, dim, Nobody, FALSE)) /\ UNCHANGED mediaVars

\* The admin deletes media given by their IDs, by an event, or by their server.
admin_delete(t, mxcs) == asked(t, delete_list(mxcs)) /\ UNCHANGED mediaVars
delete_all_from_server(t, mxcs) ==
    asked(t, delete_list({k.mxc : k \in mediaid_file} \cap mxcs)) /\ UNCHANGED mediaVars
delete_from_user(t, user) == asked(t, delete_list(get_all_user_mxcs(user))) /\ UNCHANGED mediaVars

\* Those whose file was made before or after some time: any that have a file.
delete_all_remote_media_at_after_time(t, local) ==
    \E mxcs \in SUBSET {k.mxc : k \in mediaid_file \cap DOMAIN media_file} :
        /\ local \/ mxcs \subseteq RemoteMxc
        /\ asked(t, delete_list(mxcs))
        /\ UNCHANGED mediaVars

-----------------------------------------------------------------------------
(* Their steps.                                                            *)

insert_file(t) ==
    /\ next_is(t, "insert_file")
    /\ mediaid_file' = mediaid_file \cup {now(t).key}
    /\ steps_on(t)
    /\ UNCHANGED <<mediaid_user, directoryVars, startVars, previewVars, made, media_faults, damaged>>

put_user(t) ==
    /\ next_is(t, "put_user")
    /\ mediaid_user' = mediaid_user \cup {<<now(t).key.mxc, now(t).user>>}
    /\ steps_on(t)
    /\ UNCHANGED <<mediaid_file, directoryVars, startVars, previewVars, made, media_faults, damaged>>

\* A file that is there is emptied. The link may be there already.
create_file(t) ==
    LET k == now(t).key
        looped == k \in DOMAIN media_file /\ media_file[k] = "loop"
    IN /\ next_is(t, "create_file")
       /\ IF looped THEN ends_with(t, <<>>) /\ UNCHANGED directoryVars
          ELSE /\ media_file' = (k :> "partial") @@ media_file
               /\ legacy_file' = IF media_config.compat THEN legacy_file @@ (k :> "link") ELSE legacy_file
               /\ steps_on(t)
       /\ UNCHANGED <<mediaid_file, mediaid_user, startVars, previewVars, made, media_faults, damaged>>

\* A file that was removed in between is written to nevertheless, and is gone.
write_all(t) ==
    LET k == now(t).key
    IN /\ next_is(t, "write_all")
       /\ media_file' = [x \in DOMAIN media_file |-> IF x = k THEN "whole" ELSE media_file[x]]
       /\ steps_on(t)
       /\ UNCHANGED <<mediaid_file, mediaid_user, legacy_file, startVars, previewVars, made,
                      media_faults, damaged>>

\* The file cannot be made or not be written: its row stays.
write_fails(t) ==
    /\ next_is(t, "create_file") \/ next_is(t, "write_all")
    /\ media_faults < MaxMediaFaults /\ media_faults' = media_faults + 1
    /\ damaged' = damaged \cup {now(t).key}
    /\ preview_lock' = IF preview_lock = t THEN FreeLock ELSE preview_lock
    /\ ends_with(t, <<>>)
    /\ UNCHANGED <<mediaid_file, mediaid_user, directoryVars, startVars, url_previews, made>>

search(t) ==
    /\ next_is(t, "search")
    /\ goes_on(t, delete(search_mxc_metadata_prefix(now(t).mxc)))
    /\ UNCHANGED mediaVars

remove_media_file(t) ==
    /\ next_is(t, "remove_media_file")
    /\ media_file' = without(media_file, now(t).key)
    /\ legacy_file' = without(legacy_file, now(t).key)
    /\ steps_on(t)
    /\ UNCHANGED <<mediaid_file, mediaid_user, startVars, previewVars, made, media_faults, damaged>>

delete_file_mxc(t) ==
    /\ next_is(t, "delete_file_mxc")
    /\ mediaid_file' = mediaid_file \ search_mxc_metadata_prefix(now(t).key.mxc)
    /\ damaged' = damaged \ search_mxc_metadata_prefix(now(t).key.mxc)
    /\ steps_on(t)
    /\ UNCHANGED <<mediaid_user, directoryVars, startVars, previewVars, made, media_faults>>

delete_users(t) ==
    /\ next_is(t, "delete_users")
    /\ mediaid_user' = {r \in mediaid_user : r[1] # now(t).key.mxc}
    /\ steps_on(t)
    /\ UNCHANGED <<mediaid_file, directoryVars, startVars, previewVars, made, media_faults, damaged>>

\* A row without a file is an error, not a reason to fetch the media.
readable(k) == k \in DOMAIN media_file /\ media_file[k] # "loop"

reads(t, k, then) == IF readable(k) THEN goes_on(t, then) ELSE ends_with(t, <<>>)
misses(t, dim) ==
    LET s == now(t)
    IN IF s.mxc \in LocalMxc THEN ends_with(t, <<>>)
       ELSE goes_on(t, fetch_remote(s.mxc, dim, s.user, s.legacy))

get(t) ==
    /\ next_is(t, "get")
    /\ IF search_file_metadata(now(t).mxc, Original) = {} THEN misses(t, Original)
       ELSE \E k \in search_file_metadata(now(t).mxc, Original) : reads(t, k, <<>>)
    /\ UNCHANGED mediaVars

\* A thumbnail is made from the original, unless that cannot be parsed or is smaller.
get_thumbnail_generate(t, k, dim) ==
    \/ reads(t, k, <<>>)
    \/ reads(t, k, create([k EXCEPT !.dim = dim], Nobody))

get_thumbnail(t) ==
    LET s == now(t)
        dim == normalized(s.dim)
        saved == search_file_metadata(s.mxc, dim)
        original == search_file_metadata(s.mxc, Original)
    IN /\ next_is(t, "get_thumbnail")
       /\ IF saved # {} THEN \E k \in saved : reads(t, k, <<>>)
          ELSE IF original # {} THEN \E k \in original : get_thumbnail_generate(t, k, dim)
          ELSE misses(t, s.dim)
       /\ UNCHANGED mediaVars

check_fetch_authorized(mxc) == mxc \notin BlockedMxc
check_legacy_freeze == media_config.freeze

\* The other server's answer. What it keeps elsewhere is passed on and not stored. All its
\* errors are taken for "not found", and then the unauthenticated endpoint is asked. A
\* thumbnail is stored under the size that was asked for.
handle_content_file(t) == LET s == now(t) IN goes_on(t, create(media_key(s.mxc, s.dim, TRUE), s.user))
handle_location(t) == ~now(t).fallback /\ steps_on(t)
handle_federation_error(t) ==
    ends_with(t, IF now(t).fallback THEN <<>> ELSE <<[now(t) EXCEPT !.fallback = TRUE]>>)

fetch(t) ==
    /\ next_is(t, "fetch") /\ ~now(t).legacy
    /\ IF check_fetch_authorized(now(t).mxc)
       THEN handle_content_file(t) \/ handle_location(t) \/ handle_federation_error(t)
       ELSE ends_with(t, <<>>)
    /\ UNCHANGED mediaVars

\* The legacy routes ask the unauthenticated endpoint only, and only of a frozen media
\* repository; a thumbnail comes without a disposition.
fetch_legacy(t) ==
    LET s == now(t)
    IN /\ next_is(t, "fetch") /\ s.legacy
       /\ \/ /\ check_fetch_authorized(s.mxc) /\ check_legacy_freeze
             /\ goes_on(t, create(media_key(s.mxc, s.dim, s.dim = Original), Nobody))
          \/ ends_with(t, <<>>)
       /\ UNCHANGED mediaVars

-----------------------------------------------------------------------------
(* Url previews: only one request is made for a page.                      *)

get_url_preview(t, url) ==
    /\ url \notin url_previews
    /\ asked(t, <<[do |-> "lock_url", url |-> url]>>)
    /\ UNCHANGED mediaVars

\* The page has no image, or the image becomes local media that is no user's.
request_url_preview(t) ==
    LET url == now(t).url
        saved == <<[do |-> "set_url_preview", url |-> url]>>
    IN /\ next_is(t, "lock_url") /\ preview_lock = FreeLock
       /\ IF url \in url_previews THEN steps_on(t) /\ UNCHANGED <<made, preview_lock>>
          ELSE \/ steps_on(t) /\ UNCHANGED <<made, preview_lock>>
               \/ /\ goes_on(t, saved) /\ preview_lock' = t /\ UNCHANGED made
               \/ \E mxc \in LocalMxc \ made :
                    /\ goes_on(t, create(media_key(mxc, Original, FALSE), Nobody) \o saved)
                    /\ preview_lock' = t /\ made' = made \cup {mxc}
       /\ UNCHANGED <<mediaid_file, mediaid_user, directoryVars, startVars, url_previews,
                      media_faults, damaged>>

set_url_preview(t) ==
    /\ next_is(t, "set_url_preview")
    /\ url_previews' = url_previews \cup {now(t).url}
    /\ preview_lock' = FreeLock
    /\ steps_on(t)
    /\ UNCHANGED <<mediaid_file, mediaid_user, directoryVars, startVars, made, media_faults, damaged>>

-----------------------------------------------------------------------------
(* The start of the server.                                                *)

starts_with(config, done) ==
    /\ media_config' = config
    /\ phase' = IF ~done THEN "migrating" ELSE IF config.check THEN "checking" ELSE "serving"
    /\ unchecked' = mediaid_file

\* Keys whose file a task was about to make or to write, or had removed and not yet the row.
unfinished ==
    {k \in mediaid_file : \E t \in Task : \E i \in DOMAIN work[t] :
        /\ work[t][i].do \in {"insert_file", "create_file", "write_all", "delete_file_mxc"}
        /\ work[t][i].key = k}

media_crash ==
    /\ media_faults < MaxMediaFaults /\ media_faults' = media_faults + 1
    /\ damaged' = damaged \cup unfinished
    /\ work' = [t \in Task |-> <<>>] /\ preview_lock' = FreeLock
    /\ \E config \in MediaConfig : starts_with(config, migrated)
    /\ UNCHANGED <<mediaid_file, mediaid_user, directoryVars, migrated, url_previews, made, started>>

\* The file gets its new name, and a link its old one. A link is followed to see if it is
\* there, but renamed itself: a migration begun anew moves it over the file it points to.
migrate_sha256_media(k) ==
    LET old == k \in DOMAIN legacy_file /\ (legacy_file[k] = "link" => readable(k))
        moved == IF legacy_file[k] = "link" THEN "loop" ELSE "whole"
    IN /\ phase = "migrating" /\ k \in unchecked
       /\ unchecked' = unchecked \ {k}
       /\ IF old
          THEN /\ media_file' = (k :> moved) @@ media_file
               /\ legacy_file' = IF media_config.compat THEN (k :> "link") @@ legacy_file
                                 ELSE without(legacy_file, k)
               /\ damaged' = IF moved = "loop" THEN damaged \cup {k} ELSE damaged
          ELSE UNCHANGED <<directoryVars, damaged>>
       /\ UNCHANGED <<mediaid_file, mediaid_user, media_config, phase, migrated, previewVars,
                      made, media_faults, taskVars>>

\* A key is removed if its file is nowhere; links are made or removed as configured.
handle_media_check(k) ==
    LET new == k \in DOMAIN media_file
        old == k \in DOMAIN legacy_file
        pruned == media_config.prune /\ ~old /\ ~new
    IN /\ phase = "checking" /\ k \in unchecked
       /\ unchecked' = unchecked \ {k}
       /\ mediaid_file' = IF pruned THEN mediaid_file \ {k} ELSE mediaid_file
       /\ media_file' = IF media_config.compat /\ ~new /\ old
                        THEN (k :> IF legacy_file[k] = "link" THEN "loop" ELSE "whole") @@ media_file
                        ELSE media_file
       /\ legacy_file' = IF media_config.compat /\ (old \/ new) THEN (k :> "link") @@ legacy_file
                         ELSE IF ~media_config.compat /\ old /\ legacy_file[k] = "link"
                         THEN without(legacy_file, k)
                         ELSE legacy_file
       /\ damaged' = IF pruned THEN damaged \ {k} ELSE damaged
       /\ UNCHANGED <<mediaid_user, media_config, phase, migrated, previewVars, made,
                      media_faults, taskVars>>

media_start_done ==
    /\ phase # "serving" /\ unchecked = {}
    /\ phase' = "serving" /\ migrated' = TRUE
    /\ UNCHANGED <<mediaid_file, mediaid_user, directoryVars, media_config, unchecked, previewVars,
                   made, media_faults, damaged, taskVars>>

\* A directory from before the migration holds one local and one remote file.
IdleMedia ==
    /\ mediaid_file = {} /\ mediaid_user = {} /\ media_file = <<>> /\ legacy_file = <<>>
    /\ media_config = (CHOOSE c \in MediaConfig : TRUE)
    /\ phase = "serving" /\ migrated = TRUE /\ unchecked = {}
    /\ url_previews = {} /\ preview_lock = FreeLock
    /\ made = {} /\ media_faults = 0 /\ damaged = {}

InitMedia ==
    LET old == {media_key(mxc, Original, TRUE) : mxc \in {CHOOSE m \in LocalMxc : TRUE, CHOOSE m \in RemoteMxc : TRUE}}
    IN /\ media_config \in MediaConfig
       /\ migrated \in BOOLEAN
       /\ mediaid_file = IF migrated THEN {} ELSE old
       /\ unchecked = mediaid_file
       /\ made = {k.mxc : k \in mediaid_file} \cap LocalMxc
       /\ mediaid_user = made \X Uploader
       /\ legacy_file = [k \in mediaid_file |-> "file"] /\ media_file = <<>>
       /\ phase = IF migrated THEN "serving" ELSE "migrating"
       /\ url_previews = {} /\ preview_lock = FreeLock
       /\ media_faults = 0 /\ damaged = {}

mediaDone == phase = "serving" /\ all_idle /\ started = MaxStarted /\ UNCHANGED <<mediaVars, taskVars>>

NextMedia ==
    \/ \E t \in Task :
        \/ \E user \in Uploader, mxc \in Mxc :
            \/ create_content_route(t, mxc, user) \/ get_content_route(t, mxc, user)
            \/ \E dim \in Dim : get_content_thumbnail_route(t, mxc, dim, user)
        \/ \E mxc \in Mxc :
            \/ get_content_legacy_route(t, mxc)
            \/ \E dim \in Dim : get_content_thumbnail_legacy_route(t, mxc, dim)
        \/ \E mxc \in RemoteMxc :
            get_remote_file(t, mxc) \/ \E dim \in Dim : get_remote_thumbnail(t, mxc, dim)
        \/ \E mxcs \in SUBSET Mxc : admin_delete(t, mxcs) \/ delete_all_from_server(t, mxcs)
        \/ \E user \in Uploader : delete_from_user(t, user)
        \/ \E local \in BOOLEAN : delete_all_remote_media_at_after_time(t, local)
        \/ \E url \in Url : get_url_preview(t, url)
        \/ insert_file(t) \/ put_user(t) \/ create_file(t) \/ write_all(t) \/ write_fails(t)
        \/ search(t) \/ remove_media_file(t) \/ delete_file_mxc(t) \/ delete_users(t)
        \/ get(t) \/ get_thumbnail(t) \/ fetch(t) \/ fetch_legacy(t)
        \/ request_url_preview(t) \/ set_url_preview(t)
    \/ \E k \in unchecked : migrate_sha256_media(k) \/ handle_media_check(k)
    \/ media_start_done
    \/ media_crash
    \/ mediaDone

-----------------------------------------------------------------------------
MediaTypeOK ==
    /\ {k.mxc : k \in mediaid_file} \subseteq Mxc /\ mediaid_user \subseteq Mxc \X Uploader
    /\ \A k \in DOMAIN media_file : media_file[k] \in {"partial", "whole", "loop"}
    /\ \A k \in DOMAIN legacy_file : legacy_file[k] \in {"file", "link"}
    /\ phase \in {"migrating", "checking", "serving"} /\ media_config \in MediaConfig
    /\ preview_lock \in Task \cup {FreeLock}

\* Once no request is under way, every row of mediaid_file has its whole file: a row without
\* one would make every later download fail, as get does not fetch media again that it has
\* a row for. It holds although create writes the row first, and although deletions and
\* downloads of the same media interleave, because delete removes all rows of a media ID
\* after each file it removes. Excepted are files that a crash or a failing write left
\* unwritten, or a crash removed before the row, until the check of the next start prunes
\* them, and files that a migration begun anew replaced by a link to itself.
RowsHaveFiles ==
    phase = "serving" /\ all_idle =>
        \A k \in mediaid_file \ damaged : k \in DOMAIN media_file /\ media_file[k] = "whole"
=============================================================================
