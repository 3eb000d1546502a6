---------------------------- MODULE MCEthBridge ----------------------------
(***************************************************************************)
(* Instances of EthBridge for TLC.                                         *)
(***************************************************************************)
EXTENDS EthBridge, TLC

CONSTANTS alice, admin, mod, eth, ceth, fury

Claimed(type, amount, symbol) ==
    [type |-> type, receiver |-> alice, amount |-> amount, symbol |-> symbol]

\* A deposit that validators report with two amounts, the return of a native
\* coin, a claim without a claim type and a deposit for a module account.
MixedContents ==
    {Claimed("LOCK", 1, eth), Claimed("LOCK", 2, eth), Claimed("BURN", 1, fury),
     Claimed("UNSPECIFIED", 1, eth), [Claimed("LOCK", 1, eth) EXCEPT !.receiver = mod]}

PeggedEth == eth :> ceth

EqualPower == [v \in Validators |-> 1]

\* Validators outside the first whitelist start alike.
NewcomerSymmetry == Permutations(Validators \ GenesisWhitelist)

Purse(f, c) == fury :> f @@ ceth :> c

\* alice can pay the fee of two messages, or a fee and an amount of ceth.
StartBalances == [h \in Holders |-> IF h = alice THEN Purse(2, 2) ELSE Purse(0, 0)]

\* Either the validators and their stakes stand still while users and
\* administrators act, or they change while claims of two contents come in.
VARIABLE scope

MCInit == Init /\ scope \in {"transfers", "validators"}

MCNext ==
    /\ UNCHANGED scope
    /\ \/ scope = "transfers" /\ (Claims \/ Exports \/ Administration)
       \/ scope = "validators"
            /\ \/ ValidatorChanges
               \/ \E v \in Validators, id \in Ids, n \in {1, 2} :
                     CreateEthBridgeClaim(v, id, Claimed("LOCK", n, eth))

MCSpec == MCInit /\ [][MCNext]_<<vars, scope>>
=============================================================================
