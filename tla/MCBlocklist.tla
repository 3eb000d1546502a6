---------------------------- MODULE MCBlocklist ----------------------------
(***************************************************************************)
(* An instance of Blocklist for TLC.                                       *)
(***************************************************************************)
EXTENDS Blocklist, TLC

AddressSymmetry == Permutations(Addresses)
=============================================================================
