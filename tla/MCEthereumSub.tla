---------------------------- MODULE MCEthereumSub ----------------------------
(***************************************************************************)
(* Instances of EthereumSub for TLC.                                       *)
(***************************************************************************)
EXTENDS EthereumSub, TLC

CONSTANTS e1, e2, v1, v2, v3

\* v2 and either of the others reach 70 percent, v1 and v3 together do not.
UnequalPower == v1 :> 1 @@ v2 :> 2 @@ v3 :> 1

Blocks == e1 :> 1 @@ e2 :> 2

\* To keep the instance small v3 claims only the first event, which v2 and v3 can
\* so finalise before the relayer of v1 does.
MCNext == Next /\ prophecies'[e2].validatorClaims[v3] = NoClaim

MCSpec == Init /\ [][MCNext]_vars /\ Fairness

=============================================================================
