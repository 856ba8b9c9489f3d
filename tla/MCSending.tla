------------------------------- MODULE MCSending -------------------------------
(* Small instances of Sending for TLC. *)
EXTENDS Sending, TLC

CONSTANTS fed, app, gateway, w1, w2

KeepAll == -1

TwoShards == (app :> w1) @@ (gateway :> w2)

OneShard == [d \in Dest |-> w1]
=============================================================================
