------------------------------ MODULE MCQemud ------------------------------
(* Model checking of Qemud with two clients.                               *)
EXTENDS Qemud, TLC

CONSTANTS c1, c2

MCClients == {c1, c2}
OneClient == {c1}
OneSend == c1 :> 1
MCSends == c1 :> 2 @@ c2 :> 1
=============================================================================
