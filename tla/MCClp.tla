------------------------------- MODULE MCClp -------------------------------
(***************************************************************************)
(* An instance of Clp for TLC.  A behaviour is about the pools, about the  *)
(* distributions of EndBlocker or about the policies: scope says which     *)
(* messages it has.  Blocks, with all they do, are in each.                *)
(***************************************************************************)
EXTENDS Clp, TLC

CONSTANTS fury, atk, btk, u1, u2

VARIABLE scope

AssetOrder == <<atk, btk>>
UserOrder == <<u1, u2>>

AllMayTrade == [d \in Denoms |-> {"CLP"}]

Fees == {[d \in Denoms |-> 0], (fury :> 1 @@ atk :> 1 @@ btk :> 0)}

TwoPools == atk :> [nat |-> 6, ext |-> 4, units |-> 6] @@ btk :> [nat |-> 4, ext |-> 4, units |-> 4]

ThreeProviders ==
    LET lp(n) == [units |-> n, unlocks |-> <<>>]
    IN  <<atk, u1>> :> lp(4) @@ <<atk, u2>> :> lp(2) @@ <<btk, u1>> :> lp(4)

\* A pool with one unit, that swaps have filled, beside another one.
SingleUnit == atk :> [nat |-> 6, ext |-> 4, units |-> 6] @@ btk :> [nat |-> 4, ext |-> 4, units |-> 1]

TwoProviders ==
    LET lp(n) == [units |-> n, unlocks |-> <<>>]
    IN  <<atk, u1>> :> lp(6) @@ <<btk, u1>> :> lp(1)

\* To both sides in the ratio of a pool, to one side only, and a new pool.
SomeAdditions ==
    {[nat |-> 3, ext |-> 2], [nat |-> 0, ext |-> 4], [nat |-> 5, ext |-> 0], [nat |-> 5, ext |-> 5]}

LockAndCancel == {[lock |-> 0, cancel |-> 2], [lock |-> 1, cancel |-> 1]}

Equal == [a \in Assets |-> Precision]

Period(first, last, mod, pay) ==
    [start |-> first, end |-> last, mod |-> mod, allocation |-> 9, distribute |-> pay,
     multiplier |-> Equal]

Rewards == {<<>>, <<Period(1, 4, 2, FALSE)>>, <<Period(2, 3, 1, TRUE)>>}

Distributing(first, last, mod, rate) ==
    <<[start |-> first, end |-> last, mod |-> mod, rate |-> rate]>>

\* A quarter in every other block, and once all there is.
Distributions ==
    {<<>>, Distributing(1, 3, 2, Precision \div 4), Distributing(2, 2, 1, Precision)}

Protections ==
    {[max |-> 4, epochLength |-> 2, active |-> TRUE, asset |-> atk],
     [max |-> 6, epochLength |-> 4, active |-> TRUE, asset |-> fury],
     [max |-> 4, epochLength |-> 2, active |-> FALSE, asset |-> fury]}

PmtpWindows ==
    {[start |-> 2, end |-> 5, epochLength |-> 2], [start |-> 4, end |-> 4, epochLength |-> 1],
     [start |-> 3, end |-> 5, epochLength |-> 1]}

\* Where a behaviour is not about them the parameters are fixed.
MCInit ==
    /\ Init
    /\ scope \in {"pools", "distributions", "policies"}
    /\ scope # "distributions" => rewardPeriods = <<>> /\ distributionPeriods = <<>>
    /\ scope = "pools" => swapFee[fury] = 1 /\ protection.asset = atk
    /\ scope # "pools" => swapFee[fury] = 0 /\ removal.lock = 0
    /\ scope = "distributions" => ~protection.active

MCNext ==
    /\ CASE scope = "pools" ->
              PoolMessage \/ (txs = 1 /\ ParamsMessage) \/ (height < 3 /\ NextBlock)
         [] scope = "distributions" ->
              (txs < 1 /\ PoolMessage) \/ (txs < 2 /\ ParamsMessage) \/ NextBlock
         [] scope = "policies" ->
              (txs = 1 /\ PoolMessage) \/ PolicyTx \/ NextBlock
    /\ UNCHANGED scope

MCSpec == MCInit /\ [][MCNext]_<<vars, scope>>
=============================================================================
