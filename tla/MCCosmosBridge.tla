--------------------------- MODULE MCCosmosBridge ---------------------------
(***************************************************************************)
(* Instances of CosmosBridge for TLC.                                      *)
(***************************************************************************)
EXTENDS CosmosBridge, TLC

CONSTANTS tABC, bFury, u1, w1, w2, w3

MCSymbols == {"eth", "ABC", "abc", "fury"}
MCLower == [s \in MCSymbols |-> IF s = "ABC" THEN "abc" ELSE s]

OneToken == Ether :> "eth" @@ tABC :> "ABC" @@ bFury :> "fury"

FuryToken == "fury" :> bFury

SomeFunds == [t \in Tokens |-> [h \in Users \cup {Bank} |-> IF h = Bank \/ t = bFury THEN 0 ELSE 1]]

\* What verifyBlackPrefix accepts, and an address of the chain.
Sif == [prefix |-> "sif", length |-> 42]
Black == [prefix |-> "black", length |-> 44]
MCRecipients == {Sif, Black}

Claim(type, symbol, receiver) ==
    [type |-> type, event |-> 1, receiver |-> receiver, symbol |-> symbol, amount |-> 1]

BurnClaim == {Claim("Burn", "abc", u1)}
LockClaim == {Claim("Lock", "fury", u1)}

\* The burn of "eth" is accepted before there is a deposit; no claim of type
\* Unsupported starts.
AllClaims ==
    LockClaim \cup {Claim("Burn", "abc", Bank), Claim("Burn", "eth", u1), Claim("Unsupported", "abc", u1)}

\* w1 and either of the others reach 70 percent, w2 and w3 together do not.
UnequalPower == w1 :> 2 @@ w2 :> 1 @@ w3 :> 1
EqualPower == [v \in EthValidators |-> 1]

\* Validators of equal power are interchangeable.
LesserValidators == Permutations({w2, w3})
AllValidators == Permutations(EthValidators)
=============================================================================
