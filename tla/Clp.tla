-------------------------------- MODULE Clp --------------------------------
(***************************************************************************)
(* The liquidity pools of x/clp, composed with its policies (ClpPolicy).   *)
(* Every external asset may have one pool against the native asset; the    *)
(* coins of all pools are in one module account.  A transaction is one     *)
(* atomic step: what fails or panics in it leaves no trace.  NextBlock is  *)
(* EndBlocker followed by the BeginBlocker of the next block.              *)
(*                                                                         *)
(* Users have the coins they offer; what they receive is what the module   *)
(* account loses.  Liabilities of a pool are the business of x/margin and  *)
(* zero here.  The queue of removals is always empty: the message that     *)
(* queues one returns an error, which reverts it.                          *)
(***************************************************************************)
EXTENDS ClpPolicy, ClpCalc, Sequences, FiniteSets, Functions

CONSTANTS
    Native,              \* the settlement asset
    AssetSeq,            \* external assets, in the order of the pool keys
    UserSeq,             \* accounts, in the order of the provider keys
    Permissions,         \* [denoms -> SUBSET {"CLP", "DISABLE_SELL", "DISABLE_BUY"}]
    PoolThreshold,       \* PoolThrehold: native balance of a pool worth its name
    SwapAmounts, Additions, Withdrawals, WBasis, UnlockAmounts,  \* bounds: amounts of messages
    FeeTables,           \* swap fee rates an administrator may set
    RemovalParams,       \* records [lock, cancel] of LiquidityRemoval periods
    RewardTables,        \* sequences of reward periods
    DistributionTables,  \* sequences of provider distribution periods
    GenesisPools, GenesisProviders,
    MaxTxs               \* bound: messages

VARIABLES
    pools,               \* [assets that have one -> [nat, ext, units]]
    lps,                 \* [<<asset, user>> that exist -> [units, unlocks]]
    vault,               \* coins of the module account
    swapFee,             \* [denoms -> fee rate when the asset is sent]
    removal,             \* [lock, cancel]
    rewardPeriods, distributionPeriods,
    accu,                \* BlockDistributionAccu: rewards not yet distributed
    budget,              \* history: allocated to the blocks so far, less what was paid
    dust,                \* history: coins that decommissioned pools left in the module account
    recounted,           \* history: pools with one empty side that were given new units
    txs                  \* messages so far

paramVars == <<swapFee, removal, rewardPeriods, distributionPeriods>>
poolVars == <<pools, lps, vault>>
rewardVars == <<accu, budget>>
poolHistory == <<dust, recounted>>
clpVars == <<poolVars, paramVars, rewardVars, poolHistory, txs>>
vars == <<clpVars, policyVars>>

Assets == Range(AssetSeq)
Denoms == Assets \cup {Native}
Users == Range(UserSeq)

Total(f) == SumFunctionOnSet(f, DOMAIN f)
With(f, x, v) == [y \in DOMAIN f \cup {x} |-> IF y = x THEN v ELSE f[y]]
Without(f, x) == Restrict(f, DOMAIN f \ {x})

\* The elements of a sequence at the positions in S, in their order.
Selected(s, S) ==
    LET upTo[n \in 0..Len(s)] == IF n = 0 THEN <<>>
                                 ELSE IF n \in S THEN Append(upTo[n - 1], s[n])
                                 ELSE upTo[n - 1]
    IN  upTo[Len(s)]

\* What is taken of each of a sequence of amounts to make up the limit, in order.
TakenInOrder(amounts, limit) ==
    LET upTo(n) == Least(limit, SumFunctionOnSet(amounts, 1..n))
    IN  [i \in DOMAIN amounts |-> upTo(i) - upTo(i - 1)]

Providers(a) == {u \in Users : <<a, u>> \in DOMAIN lps}

ProviderUnits(a) == Total([u \in Providers(a) |-> lps[<<a, u>>].units])

SumUnits(records) == Total([i \in DOMAIN records |-> records[i].units])

Rate == pmtpRates.running

RewardPeriod ==
    {p \in [start : Nat, end : Nat, mod : Nat \ {0}, allocation : Nat, distribute : BOOLEAN,
            multiplier : [Assets -> Nat]] : p.start <= p.end}

DistributionPeriod == [start : Nat, end : Nat, mod : Nat \ {0}, rate : 0..Precision]

\* What ValidateBasic of the messages demands, and a genesis whose books balance.
ASSUME ClpAssumption ==
    /\ AssetSeq \in Seq(Assets) /\ IsInjective(AssetSeq)
    /\ Native \notin Assets
    /\ UserSeq \in Seq(Users) /\ IsInjective(UserSeq)
    /\ SwapAmounts \subseteq Nat \ {0}
    /\ \A add \in Additions : add.nat \in Nat /\ add.ext \in Nat
    /\ Withdrawals \subseteq Nat \ {0}
    /\ WBasis \subseteq 1..MaxWbasis
    /\ UnlockAmounts \subseteq Nat
    /\ FeeTables \subseteq [Denoms -> 0..FeeDen]
    /\ RemovalParams \subseteq [lock : Nat, cancel : Nat]
    /\ \A table \in RewardTables : table \in Seq(RewardPeriod)
    /\ \A table \in DistributionTables : table \in Seq(DistributionPeriod)
    /\ DOMAIN GenesisPools \subseteq Assets
    /\ GenesisPools \in [DOMAIN GenesisPools -> [nat : Nat \ {0}, ext : Nat \ {0}, units : Nat]]
    /\ DOMAIN GenesisProviders \subseteq (DOMAIN GenesisPools) \X Users
    /\ GenesisProviders \in [DOMAIN GenesisProviders -> [units : Nat, unlocks : {<<>>}]]
    /\ \A a \in DOMAIN GenesisPools :
          LET users == {u \in Users : <<a, u>> \in DOMAIN GenesisProviders}
          IN  GenesisPools[a].units = Total([u \in users |-> GenesisProviders[<<a, u>>].units])

-----------------------------------------------------------------------------
(* Liquidity protection in a transaction.                                  *)

\* GetNativePrice, in the asset of the limit; HasPrice when it is no error.
HasPrice ==
    \/ protection.asset = Native
    \/ protection.asset \in DOMAIN pools /\ pools[protection.asset].nat # 0

GetNativePrice ==
    IF protection.asset = Native THEN Dec(1)
    ELSE LET pool == pools[protection.asset]
         IN  DecMul(DecQuo(Dec(pool.ext), Dec(pool.nat)), Dec(1 + Rate))

IsBlockedByLiquidityProtection(amount) ==
    protection.active /\ (~HasPrice \/ CalcFuryValue(amount, GetNativePrice) > threshold)

\* Mutant: what is bought back is added without a limit.
MustUpdateLiquidityProtectionThresholdUncapped(sellNative, amount) ==
    IF ~protection.active THEN threshold' = threshold
    ELSE LET value == CalcFuryValue(amount, GetNativePrice)
         IN  /\ HasPrice
             /\ threshold' = IF sellNative THEN threshold - value ELSE threshold + value

\* The value is an sdk.Uint: the conversion of a negative number would panic.
MustUpdateLiquidityProtectionThreshold(sellNative, amount) ==
    IF ~protection.active THEN threshold' = threshold
    ELSE LET value == CalcFuryValue(amount, GetNativePrice)
         IN  /\ HasPrice
             /\ value \in Nat
             /\ IF sellNative
                THEN value <= threshold /\ threshold' = threshold - value
                ELSE /\ threshold <= protection.max
                     /\ threshold' = Least(protection.max, threshold + value)

-----------------------------------------------------------------------------
(* Swaps.                                                                  *)

\* SwapOne: what x buys, and the pool after it.  The pool must have more than that.
SwapOne(pool, x, toFury, fee) ==
    LET out == IF toFury THEN CalcSwapResult(TRUE, pool.ext, x, pool.nat, Rate, fee)
                         ELSE CalcSwapResult(FALSE, pool.nat, x, pool.ext, Rate, fee)
    IN  [out  |-> out,
         pool |-> IF toFury THEN [pool EXCEPT !.ext = @ + x, !.nat = @ - out]
                            ELSE [pool EXCEPT !.nat = @ + x, !.ext = @ - out]]

\* Swap by way of the native asset: from the pool of the asset sent, unless it is
\* native, into the pool of the asset received, unless it is native.
Swap(sent, received, x) ==
    LET fee    == swapFee[sent]
        into   == SwapOne(pools[sent], x, TRUE, fee)
        middle == IF sent = Native THEN x ELSE into.out
        outOf  == SwapOne(pools[received], middle, FALSE, fee)
        emitted == IF received = Native THEN middle ELSE outOf.out
    IN  /\ sent # received
        /\ "CLP" \in Permissions[sent] \cap Permissions[received]
        /\ "DISABLE_SELL" \notin Permissions[sent]
        /\ "DISABLE_BUY" \notin Permissions[received]
        /\ {sent, received} \subseteq DOMAIN pools \cup {Native}
        /\ sent = Native => ~IsBlockedByLiquidityProtection(x)
        /\ protection.active => HasPrice
        /\ sent # Native => into.out < pools[sent].nat
        /\ received # Native => outOf.out < pools[received].ext
        /\ emitted <= vault[received]
        /\ pools' = [a \in DOMAIN pools |-> IF a = sent THEN into.pool
                                            ELSE IF a = received THEN outOf.pool
                                            ELSE pools[a]]
        /\ vault' = [vault EXCEPT ![sent] = @ + x, ![received] = @ - emitted]
        /\ CASE sent = Native ->
                  MustUpdateLiquidityProtectionThreshold(TRUE, CalculateDiscountedSentAmount(x, fee))
             [] received = Native -> MustUpdateLiquidityProtectionThreshold(FALSE, emitted)
             [] OTHER -> threshold' = threshold
        /\ UNCHANGED <<lps, poolHistory>>

-----------------------------------------------------------------------------
(* Pools and providers.                                                    *)

CreatePool(user, a, r, x) ==
    /\ r >= PoolThreshold
    /\ "CLP" \in Permissions[a]
    /\ a \notin DOMAIN pools
    /\ pools' = With(pools, a, [nat |-> r, ext |-> x, units |-> r])
    /\ lps' = With(lps, <<a, user>>, [units |-> r, unlocks |-> <<>>])
    /\ vault' = [vault EXCEPT ![Native] = @ + r, ![a] = @ + x]
    /\ UNCHANGED <<threshold, poolHistory>>

\* Keeper.AddLiquidity creates the provider or adds to its units.
AddUnits(user, a, units) ==
    LET lp == IF <<a, user>> \in DOMAIN lps THEN lps[<<a, user>>]
              ELSE [units |-> 0, unlocks |-> <<>>]
    IN  With(lps, <<a, user>>, [lp EXCEPT !.units = @ + units])

\* A pool with an empty side counts its units anew, whatever its providers have.
AddLiquidity(user, a, r, x) ==
    /\ "CLP" \in Permissions[a]
    /\ a \in DOMAIN pools
    /\ LET pool == pools[a]
           new == CalculatePoolUnits(pool.units, pool.nat, pool.ext, r, x,
                                     swapFee[Native], swapFee[a], Rate)
       IN  /\ new.ok
           /\ CASE new.swap = "SellNative" ->
                     /\ "DISABLE_SELL" \notin Permissions[Native]
                     /\ "DISABLE_BUY" \notin Permissions[a]
                     /\ ~IsBlockedByLiquidityProtection(new.amount)
                     /\ MustUpdateLiquidityProtectionThreshold(TRUE,
                          CalculateDiscountedSentAmount(new.amount, swapFee[Native]))
                [] new.swap = "BuyNative" ->
                     /\ "DISABLE_SELL" \notin Permissions[a]
                     /\ "DISABLE_BUY" \notin Permissions[Native]
                     /\ MustUpdateLiquidityProtectionThreshold(FALSE,
                          CalcSwapResult(TRUE, pool.ext, new.amount, pool.nat, Rate, swapFee[a]))
                [] OTHER -> UNCHANGED threshold
           /\ pools' = [pools EXCEPT ![a] = [nat   |-> pool.nat + r,
                                             ext   |-> pool.ext + x,
                                             units |-> new.pool]]
           /\ lps' = AddUnits(user, a, new.lp)
           /\ vault' = [vault EXCEPT ![Native] = @ + r, ![a] = @ + x]
           /\ recounted' = IF 0 \in {pool.nat, pool.ext} THEN recounted \cup {a} ELSE recounted
    /\ UNCHANGED dust

\* Records that are neither used up nor cancelled by age.
PruneUnlockRecords(records) ==
    Selected(records, {i \in DOMAIN records :
                         /\ height < records[i].height + removal.lock + removal.cancel
                         /\ records[i].units > 0})

Unlocked(r) == r.height + removal.lock <= height

\* Mutant: a request counts from the block it is made in.
UsableNow(records, any) == [i \in DOMAIN records |-> records[i].units]

\* The units of each record that UseUnlockedLiquidity may use.
Usable(records, any) ==
    [i \in DOMAIN records |-> IF any \/ Unlocked(records[i]) THEN records[i].units ELSE 0]

\* The guard of UseUnlockedLiquidity, and the records it leaves, which it reduces
\* in place and in order.
CanUse(records, units, any) == removal.lock = 0 \/ Total(Usable(records, any)) >= units

UseUnlockedLiquidity(records, units, any) ==
    LET taken == TakenInOrder(Usable(records, any), units)
    IN  [i \in DOMAIN records |-> [records[i] EXCEPT !.units = @ - taken[i]]]

\* Mutant: the requests made before do not count.
UnlockLiquidityAgain(user, a, units) ==
    /\ <<a, user>> \in DOMAIN lps
    /\ LET lp == lps[<<a, user>>]
           records == PruneUnlockRecords(lp.unlocks)
       IN  /\ units <= lp.units
           /\ lps' = [lps EXCEPT ![<<a, user>>].unlocks =
                         Append(records, [height |-> height, units |-> units])]
    /\ UNCHANGED <<pools, vault, threshold, poolHistory>>

UnlockLiquidity(user, a, units) ==
    /\ <<a, user>> \in DOMAIN lps
    /\ LET lp == lps[<<a, user>>]
           records == PruneUnlockRecords(lp.unlocks)
       IN  /\ SumUnits(records) + units <= lp.units
           /\ lps' = [lps EXCEPT ![<<a, user>>].unlocks =
                         Append(records, [height |-> height, units |-> units])]
    /\ UNCHANGED <<pools, vault, threshold, poolHistory>>

CancelUnlock(user, a, units) ==
    /\ <<a, user>> \in DOMAIN lps
    /\ LET records == PruneUnlockRecords(lps[<<a, user>>].unlocks)
           left == UseUnlockedLiquidity(records, units, TRUE)
       IN  /\ CanUse(records, units, TRUE)
           /\ lps' = [lps EXCEPT ![<<a, user>>].unlocks =
                         Selected(left, {i \in DOMAIN left : left[i].units > 0})]
    /\ UNCHANGED <<pools, vault, threshold, poolHistory>>

\* Mutant: a withdrawal may take all of one side.
NotTooShallowUnchecked(w, pool) == TRUE

NotTooShallow(w, pool) == w.ext < pool.ext /\ w.nat < pool.nat

\* What both messages do with the withdrawal w.  The units of the pool, less the
\* provider's, are an sdk.Uint, whose subtraction panics below zero.
Withdraw(user, a, w) ==
    LET lp == lps[<<a, user>>]
        records == PruneUnlockRecords(lp.unlocks)
        used == lp.units - w.left
    IN  /\ CanUse(records, used, FALSE)
        /\ lp.units <= pools[a].units
        /\ NotTooShallow(w, pools[a])
        /\ w.nat <= vault[Native] /\ w.ext <= vault[a]
        /\ pools' = [pools EXCEPT ![a] = [nat   |-> @.nat - w.nat,
                                          ext   |-> @.ext - w.ext,
                                          units |-> @.units - used]]
        /\ vault' = [vault EXCEPT ![Native] = @ - w.nat, ![a] = @ - w.ext]
        /\ lps' = IF w.left = 0 THEN Without(lps, <<a, user>>)
                  ELSE [lps EXCEPT ![<<a, user>>] =
                           [units   |-> w.left,
                            unlocks |-> UseUnlockedLiquidity(records, used, FALSE)]]
        /\ UNCHANGED <<threshold, poolHistory>>

RemoveLiquidity(user, a, wb) ==
    /\ "CLP" \in Permissions[a]
    /\ a \in DOMAIN pools
    /\ <<a, user>> \in DOMAIN lps
    /\ Claimable(pools[a].units, UnitsToClaim(lps[<<a, user>>].units, wb))
    /\ Withdraw(user, a, CalculateWithdrawal(pools[a].units, pools[a].nat, pools[a].ext,
                                             lps[<<a, user>>].units, wb))

RemoveLiquidityUnits(user, a, units) ==
    /\ "CLP" \in Permissions[a]
    /\ a \in DOMAIN pools
    /\ <<a, user>> \in DOMAIN lps
    /\ units <= lps[<<a, user>>].units
    /\ Claimable(pools[a].units, Dec(units))
    /\ Withdraw(user, a, CalculateWithdrawalFromUnits(pools[a].units, pools[a].nat, pools[a].ext,
                                                    lps[<<a, user>>].units, units))

\* What a provider has of the pool, as DecommissionPool pays it.
CalculateAllAssetsForLP(a, u) ==
    CalculateWithdrawal(pools[a].units, pools[a].nat, pools[a].ext, lps[<<a, u>>].units, MaxWbasis)

\* Every provider is paid its share of the pool as it was; the rest stays in the
\* module account.  A provider without units makes CalculateWithdrawal panic.
DecommissionPool(a) ==
    /\ a \in DOMAIN pools
    /\ pools[a].nat < PoolThreshold
    /\ LET native   == Total([u \in Providers(a) |-> CalculateAllAssetsForLP(a, u).nat])
           external == Total([u \in Providers(a) |-> CalculateAllAssetsForLP(a, u).ext])
       IN  /\ \A u \in Providers(a) :
                 Claimable(pools[a].units, UnitsToClaim(lps[<<a, u>>].units, MaxWbasis))
           /\ ProviderUnits(a) <= pools[a].units
           /\ native <= Least(pools[a].nat, vault[Native])
           /\ external <= Least(pools[a].ext, vault[a])
           /\ vault' = [vault EXCEPT ![Native] = @ - native, ![a] = @ - external]
           /\ dust' = [dust EXCEPT ![Native] = @ + pools[a].nat - native,
                                   ![a] = @ + pools[a].ext - external]
    /\ recounted' = recounted \ {a}
    /\ lps' = Restrict(lps, {k \in DOMAIN lps : k[1] # a})
    /\ pools' = Without(pools, a)
    /\ UNCHANGED threshold

-----------------------------------------------------------------------------
(* EndBlocker.                                                             *)

\* The first of the periods that hold the block.
Active(periods) == {i \in DOMAIN periods : height \in periods[i].start..periods[i].end}

Current(periods) == periods[CHOOSE i \in Active(periods) : \A j \in Active(periods) : i <= j]

IsDistributionBlock(p) == (height - p.start) % p.mod = 0

\* CollectProviderDistribution: what each provider of a is to get of the distribution
\* (an sdk.Dec), rounded for each of them, in order and as long as it lasts.
ProviderAmounts(a, distribution) ==
    TakenInOrder([i \in DOMAIN UserSeq |->
                     IF UserSeq[i] \in Providers(a)
                     THEN CalcProviderDistributionAmount(distribution, pools[a].units,
                                                         lps[<<a, UserSeq[i]>>].units)
                     ELSE 0],
                 RoundInt(distribution))

\* TransferProviderDistributionGeneric sends a provider what it gets from all pools
\* at once.  What the bank refuses to send counts as not distributed.
Distributed(a, distribution, unpaid) ==
    SumFunctionOnSet(ProviderAmounts(a, distribution),
                     {i \in DOMAIN UserSeq : UserSeq[i] \notin unpaid})

\* The pools whose providers get something in ProviderDistributionPolicyRun, and
\* what they get.
DistributingPools ==
    {a \in DOMAIN pools : /\ Providers(a) # {}
                          /\ Active(distributionPeriods) # {}
                          /\ IsDistributionBlock(Current(distributionPeriods))}

Distribution(a, unpaid) ==
    IF a \notin DistributingPools THEN 0
    ELSE Distributed(a, DecMul(Current(distributionPeriods).rate, Dec(pools[a].nat)), unpaid)

\* Mutant: what could not be sent is taken off the pools all the same.
NativeAfterDistributionOfAll(a, unpaid) == pools[a].nat - Distribution(a, {})

NativeAfterDistribution(a, unpaid) == pools[a].nat - Distribution(a, unpaid)

\* calcTotalDepth, and what a pool with the native balance n adds to it.
Depth(n, a, p) == DecMul(Dec(n), p.multiplier[a])

TotalDepth(native, p) == Total([a \in DOMAIN native |-> Depth(native[a], a, p)])

\* The share of the amount that each asset's pool has by its depth.
PoolShares(native, p, amount) ==
    LET total == TotalDepth(native, p)
    IN  [i \in DOMAIN AssetSeq |->
            IF AssetSeq[i] \in DOMAIN native /\ total > 0
            THEN calcPoolDistribution(Depth(native[AssetSeq[i]], AssetSeq[i], p), total, amount)
            ELSE 0]

\* DistributeDepthRewards: the reward of each pool, by its depth, in order and as
\* long as the amount lasts.
CollectPoolRewardTuples(native, p, amount) ==
    LET taken == TakenInOrder(PoolShares(native, p, amount), amount)
    IN  [a \in DOMAIN native |-> taken[CHOOSE i \in DOMAIN AssetSeq : AssetSeq[i] = a]]

CalcBlockDistribution(p) == p.allocation \div (p.end - p.start + 1)

PoolRewards(native, p) ==
    IF IsDistributionBlock(p)
    THEN CollectPoolRewardTuples(native, p, accu + CalcBlockDistribution(p))
    ELSE [a \in DOMAIN native |-> 0]

\* The pools whose providers get the rewards, and what all of them are paid.
RewardedProviders(p, rewards) ==
    {a \in DOMAIN pools : p.distribute /\ Providers(a) # {} /\ rewards[a] > 0}

Paid(p, rewards, unpaid) ==
    IF p.distribute
    THEN Total([a \in RewardedProviders(p, rewards) |-> Distributed(a, Dec(rewards[a]), unpaid)])
    ELSE Total(rewards)

\* Mutant: what was distributed stays in the accumulator.
AccuAfterKept(p) == accu + CalcBlockDistribution(p)

AccuAfter(p) == IF IsDistributionBlock(p) THEN 0 ELSE accu + CalcBlockDistribution(p)

\* Rewards go to the pools, or to their providers; then what they do not get is
\* burned, also what a pool without providers was given.  Both distributions
\* divide by the units of a pool that has providers: without units the chain
\* stops here.
RewardsBlock(p, native, left, unpaid) ==
    LET rewards == PoolRewards(native, p)
    IN  /\ \A a \in RewardedProviders(p, rewards) : pools[a].units > 0
        /\ pools' = [a \in DOMAIN pools |->
                        [pools[a] EXCEPT !.nat = native[a] +
                            IF a \in RewardedProviders(p, rewards) THEN 0 ELSE rewards[a]]]
        /\ vault' = [vault EXCEPT ![Native] = left + IF p.distribute THEN 0 ELSE Total(rewards)]
        /\ accu' = AccuAfter(p)
        /\ budget' = budget + CalcBlockDistribution(p) - Paid(p, rewards, unpaid)

NoRewardsBlock(native, left) ==
    /\ pools' = [a \in DOMAIN pools |-> [pools[a] EXCEPT !.nat = native[a]]]
    /\ vault' = [vault EXCEPT ![Native] = left]
    /\ UNCHANGED rewardVars

\* Sending to a provider fails for want of coins in the module account, or because
\* its account may not receive any: the same providers stay unpaid twice.
EndBlock ==
    /\ \A a \in DistributingPools : pools[a].units > 0
    /\ \E unpaid \in SUBSET Users :
         LET native == [a \in DOMAIN pools |-> NativeAfterDistribution(a, unpaid)]
             left   == vault[Native]
                         - Total([a \in DOMAIN pools |-> Distribution(a, unpaid)])
         IN  /\ left >= 0
             /\ IF Active(rewardPeriods) = {} \/ Current(rewardPeriods).allocation = 0
                THEN NoRewardsBlock(native, left)
                ELSE RewardsBlock(Current(rewardPeriods), native, left, unpaid)

NextBlock ==
    /\ EndBlock
    /\ BeginBlock
    /\ UNCHANGED <<lps, paramVars, poolHistory, txs>>

-----------------------------------------------------------------------------
Message ==
    /\ txs < MaxTxs
    /\ txs' = txs + 1

Pool ==
    \/ \E sent, received \in Denoms, x \in SwapAmounts : Swap(sent, received, x)
    \/ \E u \in Users, a \in Assets, add \in Additions :
         CreatePool(u, a, add.nat, add.ext) /\ add.nat > 0 /\ add.ext > 0
    \/ \E u \in Users, a \in Assets, add \in Additions : AddLiquidity(u, a, add.nat, add.ext)
    \/ \E u \in Users, a \in Assets, units \in UnlockAmounts : UnlockLiquidity(u, a, units)
    \/ \E u \in Users, a \in Assets, units \in UnlockAmounts : CancelUnlock(u, a, units)
    \/ \E u \in Users, a \in Assets, wb \in WBasis : RemoveLiquidity(u, a, wb)
    \/ \E u \in Users, a \in Assets, units \in Withdrawals : RemoveLiquidityUnits(u, a, units)
    \/ \E a \in Assets : DecommissionPool(a)

UpdateSwapFeeParams(table) ==
    swapFee' = table /\ UNCHANGED <<removal, rewardPeriods, distributionPeriods>>

UpdateRewardsParams(params) ==
    removal' = params /\ UNCHANGED <<swapFee, rewardPeriods, distributionPeriods>>

AddRewardPeriod(table) ==
    rewardPeriods' = table /\ UNCHANGED <<swapFee, removal, distributionPeriods>>

AddProviderDistributionPeriod(table) ==
    distributionPeriods' = table /\ UNCHANGED <<swapFee, removal, rewardPeriods>>

Params ==
    \/ \E table \in FeeTables : UpdateSwapFeeParams(table)
    \/ \E params \in RemovalParams : UpdateRewardsParams(params)
    \/ \E table \in RewardTables : AddRewardPeriod(table)
    \/ \E table \in DistributionTables : AddProviderDistributionPeriod(table)

PoolMessage ==
    /\ Message
    /\ Pool
    /\ UNCHANGED <<paramVars, rewardVars, height, pmtpVars, protection, raised>>

ParamsMessage ==
    /\ Message
    /\ Params
    /\ UNCHANGED <<poolVars, rewardVars, poolHistory, policyVars>>

PolicyTx ==
    /\ Message
    /\ PolicyMessage
    /\ UNCHANGED <<poolVars, paramVars, rewardVars, poolHistory>>

\* Genesis with pools and providers, whose coins the module account holds.
Init ==
    /\ PolicyInit
    /\ pools = GenesisPools
    /\ lps = GenesisProviders
    /\ vault = [d \in Denoms |->
                  IF d = Native THEN Total([a \in DOMAIN GenesisPools |-> GenesisPools[a].nat])
                  ELSE IF d \in DOMAIN GenesisPools THEN GenesisPools[d].ext ELSE 0]
    /\ swapFee \in FeeTables
    /\ removal \in RemovalParams
    /\ rewardPeriods \in RewardTables
    /\ distributionPeriods \in DistributionTables
    /\ accu = 0 /\ budget = 0 /\ txs = 0
    /\ dust = [d \in Denoms |-> 0] /\ recounted = {}

Next == PoolMessage \/ ParamsMessage \/ PolicyTx \/ NextBlock

Spec == Init /\ [][Next]_vars

-----------------------------------------------------------------------------
(* Properties.                                                             *)

\* What the pools record of a denomination.
InPools(d) ==
    IF d = Native THEN Total([a \in DOMAIN pools |-> pools[a].nat])
    ELSE IF d \in DOMAIN pools THEN pools[d].ext ELSE 0

\* The invariants of invariants.go, which nothing runs.  The module account holds
\* exactly what the pools record and what decommissioned pools left in it, through
\* swaps by way of two pools, distributions that reach some providers and not others,
\* and rewards minted and burned in EndBlocker (BalanceModuleAccountCheck); and the
\* units of a pool are those of its providers, after every sequence of messages and
\* blocks (UnitsCheck), unless it was given new units with a side empty.  The first
\* part fails once a pool that has lost its last provider is given rewards of a
\* distributing period.
BooksBalance ==
    /\ \A d \in Denoms : vault[d] = InPools(d) + dust[d]
    /\ \A a \in DOMAIN pools \ recounted : pools[a].units = ProviderUnits(a)

\* A distribution at this rate may take all the coins of a pool: rounding sends one
\* coin when more than half of it is due.
PaysAll == /\ Active(distributionPeriods) # {}
           /\ IsDistributionBlock(Current(distributionPeriods))
           /\ 2 * Current(distributionPeriods).rate > Precision

\* A pool loses a side of its balance, by which swaps and prices divide, only in
\* EndBlocker and only the native side, to a distribution of more than half of it;
\* ValidateBasic admits rates up to one.  Swaps, removals, lower rates and rewards
\* empty no pool (SwapOne, RemoveLiquidity, ProviderDistributionPolicyRun).
EmptiedByDistribution ==
    [][\A a \in DOMAIN pools \cap DOMAIN pools' :
         /\ pools[a].ext # 0 => pools'[a].ext # 0
         /\ (pools[a].nat # 0 /\ pools'[a].nat = 0) => height' # height /\ PaysAll]_vars

\* A provider's requests for unlocking are covered by the units it still has,
\* also after removals that used some of them and changes of the periods.
UnlocksWithinUnits == \A k \in DOMAIN lps : SumUnits(lps[k].unlocks) <= lps[k].units

\* What a step takes of the units of provider k, it asked for at least a lock
\* period ago in requests that have not lapsed, and these requests are used up.
LeavesByUnlock(k) ==
    LET left == IF k \in DOMAIN lps' THEN lps'[k].units ELSE 0
        asked == {i \in DOMAIN lps[k].unlocks :
                     LET r == lps[k].unlocks[i]
                     IN  height \in (r.height + removal.lock)..
                                    (r.height + removal.lock + removal.cancel - 1)}
    IN  (removal.lock > 0 /\ left < lps[k].units /\ k[1] \in DOMAIN pools')
        => /\ lps[k].units - left <= Total([i \in asked |-> lps[k].unlocks[i].units])
           /\ k \in DOMAIN lps' => SumUnits(lps'[k].unlocks)
                 <= SumUnits(lps[k].unlocks) - (lps[k].units - left)

\* While a lock period is set a provider's units shrink only by units it asked
\* for at least that long ago and whose request has not lapsed, and every request
\* serves once; except that its whole pool is decommissioned.
UnitsLeaveByUnlock == [][\A k \in DOMAIN lps : LeavesByUnlock(k)]_vars

\* While no policy shifts prices neither swaps nor additions take from the units
\* that exist: the product of a pool's sides per square of its units never falls.
\* An addition to one side may round the amount it swaps by one coin.
NoDilution ==
    [][\A a \in DOMAIN pools \cap DOMAIN pools' :
         LET p == pools[a]
             q == pools'[a]
             coin == Least(p.nat, p.ext)
             before == p.units * IF q.units = p.units THEN coin ELSE coin + 1
             after  == q.units * coin
         IN  (Rate = 0 /\ height' = height /\ q.units >= p.units)
             => q.nat * q.ext * before * before >= p.nat * p.ext * after * after]_vars

\* Rewards minted for pools and providers never exceed what the periods allocate
\* to the blocks that have passed, with what is still to be distributed: a change
\* of the periods, or a block that distributes nothing, mints nothing twice.
RewardsWithinAllocation == accu <= budget

=============================================================================
