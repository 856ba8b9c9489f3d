-------------------------------- MODULE Delivery --------------------------------
(***************************************************************************)
(* What the sending service promises its callers: an accepted event stays  *)
(* pending until the other side has received it, at least once.  Only the  *)
(* events of Droppable destinations may be given up.                       *)
(***************************************************************************)
CONSTANTS Dest, Key, Droppable

VARIABLES
    pending,   \* [Dest -> SUBSET Key]: what the server still has to deliver
    accepted,  \* [Dest -> SUBSET Key]: what its callers asked it to deliver
    received   \* [Dest -> SUBSET Key]: what the other side has got

vars == <<pending, accepted, received>>

Init ==
    /\ pending = [d \in Dest |-> {}]
    /\ accepted = [d \in Dest |-> {}]
    /\ received = [d \in Dest |-> {}]

\* A caller hands over an event for some destinations.
Accept(D, k) ==
    /\ pending' = [d \in Dest |-> IF d \in D THEN pending[d] \cup {k} ELSE pending[d]]
    /\ accepted' = [d \in Dest |-> IF d \in D THEN accepted[d] \cup {k} ELSE accepted[d]]
    /\ UNCHANGED received

\* An accepted event is taken up again: delivery may be repeated.
Repeat ==
    /\ \E p \in [Dest -> SUBSET Key] :
          /\ \A d \in Dest : pending[d] \subseteq p[d] /\ p[d] \subseteq accepted[d]
          /\ pending' = p
    /\ UNCHANGED <<accepted, received>>

\* The other side gets some accepted events of one destination.
Receive(d, S) ==
    /\ S \subseteq accepted[d]
    /\ received' = [received EXCEPT ![d] = @ \cup S]
    /\ UNCHANGED <<pending, accepted>>

\* Delivered events are forgotten; others only where they may be dropped.
Forget ==
    /\ \E p \in [Dest -> SUBSET Key] :
          /\ \A d \in Dest : p[d] \subseteq pending[d]
          /\ \A d \in Dest \ Droppable : pending[d] \ p[d] \subseteq received[d]
          /\ pending' = p
    /\ UNCHANGED <<accepted, received>>

Next ==
    \/ \E D \in SUBSET Dest, k \in Key : Accept(D, k)
    \/ Repeat
    \/ \E d \in Dest, S \in SUBSET Key : Receive(d, S)
    \/ Forget

Spec == Init /\ [][Next]_vars
=============================================================================
