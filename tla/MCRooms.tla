------------------------------- MODULE MCRooms -------------------------------
(***************************************************************************)
(* The parts of the server that keep a room, side by side. They share no   *)
(* state that their properties speak of, so a behaviour exercises one of   *)
(* them, the focus.                                                        *)
(***************************************************************************)
EXTENDS Membership, StateRes, StateStore, RoomDirectory, Spaces, Notices

CONSTANT Focus      \* the parts exercised

VARIABLE focus

roomsVars == <<membershipVars, stateResVars, stateStoreVars, directoryVars, spaceVars,
               presenceVars, noticeVars, taskVars, focus>>

InitRooms ==
    /\ focus \in Focus
    /\ IF focus = "membership" THEN InitMembership ELSE IdleMembership
    /\ IF focus = "state_res" THEN InitStateRes ELSE IdleStateRes
    /\ IF focus = "room_directory" THEN InitRoomDirectory ELSE IdleRoomDirectory
    /\ IF focus = "spaces" THEN InitSpaces ELSE IdleSpaces
    /\ InitStateStore
    /\ InitPresence
    /\ InitNotices /\ (focus # "notices" => DOMAIN push_rules = {})
    /\ InitTasks(IF focus \in {"room_directory", "spaces", "notices"} THEN 1 ELSE 0)

NextRooms ==
    /\ UNCHANGED focus
    /\ IF focus = "membership" THEN NextMembership ELSE UNCHANGED membershipVars
    /\ IF focus = "state_res" THEN NextStateRes /\ UNCHANGED taskVars ELSE UNCHANGED stateResVars
    /\ IF focus = "state_store" THEN NextStateStore ELSE UNCHANGED stateStoreVars
    /\ IF focus = "room_directory" THEN NextRoomDirectory ELSE UNCHANGED directoryVars
    /\ IF focus = "spaces" THEN NextSpaces ELSE UNCHANGED spaceVars
    /\ IF focus = "notices" THEN NextNotices ELSE UNCHANGED <<presenceVars, noticeVars>>

SpecRooms == InitRooms /\ [][NextRooms]_roomsVars

MCGiven == {{<<"a", 2>>, <<"b", 2>>}}
MCHierarchy == {(1 :> {2, 3} @@ 2 :> {3} @@ 3 :> {1})}
MCJoin_rule == 1 :> "restricted" @@ 2 :> "public" @@ 3 :> "public"
MCJoined == {<<"u", 2>>, <<"u", 3>>, <<"v", 3>>}
MCWanted == {[limit |-> 2, max_depth |-> 9, suggested_only |-> FALSE],
             [limit |-> 9, max_depth |-> 1, suggested_only |-> TRUE],
             [limit |-> 9, max_depth |-> 9, suggested_only |-> FALSE]}
MCAuthor == "e0" :> "f" @@ "e1" :> "f" @@ "e2" :> "u"
MCTarget == "e0" :> {} @@ "e1" :> {} @@ "e2" :> {"u"}
MCSymmetry == Permutations(Task)
=============================================================================
