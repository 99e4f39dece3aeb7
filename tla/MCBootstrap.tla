------------------------------ MODULE MCBootstrap ------------------------------
(***************************************************************************)
(* Instances of Bootstrap for TLC.                                         *)
(***************************************************************************)
EXTENDS Bootstrap, TLC

CONSTANTS p1, p2, Crashes, Faults

MCBound == ("crash" :> Crashes) @@ ("fault" :> Faults)
=============================================================================
