----------------------------- MODULE MCCosmosSub -----------------------------
(***************************************************************************)
(* Instances of CosmosSub for TLC.                                         *)
(***************************************************************************)
EXTENDS CosmosSub, TLC

CONSTANTS m1, m2, m3

Blocks == << <<>>, <<m3, m1>>, <<m2>> >>

Keys == m1 :> 1 @@ m2 :> 2 @@ m3 :> 3
=============================================================================
