------------------------------- MODULE MCSync -------------------------------
(***************************************************************************)
(* What a device reads: the syncs that tell it what is new, and the pages  *)
(* of what is older. They share no state that their properties speak of,   *)
(* so a behaviour exercises one of them, the focus.                        *)
(***************************************************************************)
EXTENDS Sync, History, TLC

CONSTANT Focus      \* the parts exercised

VARIABLE focus

InitReads ==
    /\ focus \in Focus
    /\ Init /\ (focus # "sync" => streams = {"keys"})
    /\ InitHistory /\ InitTasks(0)

NextReads ==
    /\ UNCHANGED focus
    /\ IF focus = "sync" THEN Next /\ UNCHANGED taskVars ELSE UNCHANGED vars
    /\ IF focus = "history" THEN NextHistory ELSE UNCHANGED historyVars

SpecReads == InitReads /\ [][NextReads]_<<vars, historyVars, taskVars, focus>>

CONSTANTS e1, e2, e3

\* Each stream by itself.
MCStreamSets == {{s} : s \in Stream}

MCKeysOnly == {{"keys"}}

MCMaxOps == [s \in Stream |-> IF s = "keys" THEN 3 ELSE 2]
MCMaxLost == [s \in Stream |-> IF s = "timeline" THEN 0 ELSE 1]

MCPost(user, text, to, threaded, visibility) ==
    [kind |-> "message", sender |-> user, words |-> text, relates_to |-> to, threaded |-> threaded,
     redacts |-> "none", visibility |-> visibility, was_joined |-> FALSE]
MCContent == [e1 |-> MCPost("a", {"x"}, "none", FALSE, "shared"),
              e2 |-> MCPost("b", {"x", "y"}, "e1", TRUE, "shared"),
              e3 |-> MCPost("a", {"x"}, "e2", TRUE, "world_readable"),
              n1 |-> MCPost("a", {"x"}, "e1", TRUE, "joined"),
              n2 |-> [MCPost("b", {}, "none", FALSE, "shared") EXCEPT !.kind = "redaction", !.redacts = "e2"],
              o1 |-> MCPost("a", {"x"}, "none", FALSE, "shared")]
MCEarlier == <<"e1", "e2", "e3">>
MCOlder == <<"o1">>
MCAsk == {[kind |-> x[1], dir |-> x[2], limit |-> x[3], base |-> x[4], words |-> {"x"}, senders |-> {"a", "b"}] :
            x \in {<<"messages", "b", 2, "e1">>, <<"messages", "f", 2, "e1">>, <<"context", "b", 2, "e2">>,
                  <<"threads", "b", 1, "e1">>, <<"relations", "b", 2, "e1">>,
                  <<"relations", "f", 2, "e1">>, <<"search", "b", 2, "e1">>, <<"server", "b", 2, "e3">>}}

MCSymmetry == Permutations(Writer) \cup Permutations(Request) \cup Permutations(Task)
=============================================================================
