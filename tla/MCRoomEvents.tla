---------------------------- MODULE MCRoomEvents ----------------------------
(***************************************************************************)
(* Instances of RoomEvents: the room has the events root, up to two local  *)
(* events and up to three remote ones, and one state key besides the       *)
(* create event's.                                                         *)
(***************************************************************************)
EXTENDS RoomEvents, TLC

CONSTANTS t1, t2, t3, root, l1, l2, r1, r2, r3, k

\* l1 and r1 set the state key, the others are messages.
MCKeyOf == [e \in Event |-> IF e \in {l1, r1} THEN k ELSE NoKey]

\* r1 follows the first event, r2 follows r1, r3 merges the forks r1 and l1.
MCPrevMerge ==
    [e \in Remote |-> IF e = r3 THEN {r1, l1} ELSE IF e = r2 THEN {r1} ELSE {root}]

\* The remote events fork off the first event.
MCPrevFork == [e \in Remote |-> {root}]

\* The state event l1 forbids the message r2.
MCForbids == {<<l1, r2>>} \cap (Event \X Event)

MCSymmetry == Permutations(Task)
=============================================================================
