---------------------------- MODULE BridgeLedger ----------------------------
(***************************************************************************)
(* What the chain's side of the bridge promises about money, without       *)
(* saying how: a transfer seen on Ethereum is redeemed at most once, for   *)
(* one content, and creates exactly the coins of that content; a transfer  *)
(* to Ethereum destroys exactly the coins its event announces; no other    *)
(* step changes the supply of any coin.  EthBridge implements this.        *)
(***************************************************************************)
EXTENDS Integers, Sequences

CONSTANTS Ids, Contents, NoClaim, Denoms, Supply0, DenomOf(_)

VARIABLES supply, redeemed, announced

ledgerVars == <<supply, redeemed, announced>>

LedgerInit ==
    /\ supply = Supply0
    /\ redeemed = [id \in Ids |-> NoClaim]
    /\ announced = <<>>

Redeem(id, c) ==
    /\ redeemed[id] = NoClaim
    /\ redeemed' = [redeemed EXCEPT ![id] = c]
    /\ supply' = [supply EXCEPT ![DenomOf(c)] = @ + c.amount]
    /\ UNCHANGED announced

Announce ==
    /\ Len(announced') = Len(announced) + 1
    /\ SubSeq(announced', 1, Len(announced)) = announced
    /\ LET event == announced'[Len(announced')]
       IN  /\ supply[event.symbol] >= event.amount
           /\ supply' = [supply EXCEPT ![event.symbol] = @ - event.amount]
    /\ UNCHANGED redeemed

LedgerNext == (\E id \in Ids, c \in Contents : Redeem(id, c)) \/ Announce

LedgerSpec == LedgerInit /\ [][LedgerNext]_ledgerVars

=============================================================================
