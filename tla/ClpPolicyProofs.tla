-------------------------- MODULE ClpPolicyProofs --------------------------
(***************************************************************************)
(* Proofs about the policies of x/clp beside its pools: for windows and    *)
(* epochs of any length, any rates and limits, any swaps and additions of  *)
(* liquidity, and any number of blocks.                                    *)
(***************************************************************************)
EXTENDS Clp, TLAPS

\* What the induction needs besides the properties: the types, and that the
\* epochs of a window that has not begun still fill it.
PolicyInv ==
    /\ height \in Nat
    /\ pmtpParams \in [start : Nat, end : Nat, epochLength : Nat \ {0}]
    /\ pmtpEpoch \in [epochCounter : Int, blockCounter : Int]
    /\ height < pmtpParams.start => ValidWindow(pmtpParams)
    /\ CountersCoverWindow
    /\ RatesFollowPolicy

\* The counters PolicyStart computes for a window that is a whole number of
\* epochs multiply back to its length.
LEMMA WholeEpochs ==
    ASSUME NEW n \in Nat \ {0}, NEW l \in Nat \ {0}, n % l = 0
    PROVE  /\ n \div l \in Nat \ {0}
           /\ (n \div l) * l = n
<1>1. /\ n = ((n \div l) * l) + (n % l)
      /\ n \div l \in Nat
  BY SMT
<1>2. (n \div l) * l = n
  BY <1>1, SMT
<1>3. n \div l # 0
  BY <1>2, SMT
<1> QED
  BY <1>1, <1>2, <1>3

\* While blocks are left of a window an epoch is left: the test of the epoch
\* counter in BeginBlocker never stops a policy before its end.
LEMMA EpochLeft ==
    ASSUME NEW e \in Int, NEW l \in Nat \ {0}, NEW b \in 1..l, NEW k \in Nat \ {0},
           (e - 1) * l + b = k
    PROVE  e > 0
<1> SUFFICES ASSUME e <= 0 PROVE FALSE
  OBVIOUS
<1>1. (e - 1) * l <= -l
  BY SMT
<1> QED
  BY <1>1, SMT

\* One epoch fewer is its length in blocks fewer.
LEMMA NextEpochBlocks ==
    ASSUME NEW e \in Int, NEW l \in Int
    PROVE  (e - 1 - 1) * l + l = (e - 1) * l
BY SMT

\* The genesis state satisfies the invariant: there is no window.
LEMMA PolicyInitial == PolicyInit => PolicyInv
<1> SUFFICES ASSUME PolicyInit PROVE PolicyInv
  OBVIOUS
<1> USE DEF PolicyInit, NoEpoch
<1>1. ~PolicyRuns
  BY DEF PolicyRuns
<1>2. CountersCoverWindow /\ RatesFollowPolicy
  BY <1>1 DEF CountersCoverWindow, RatesFollowPolicy
<1> QED
  BY <1>2 DEF PolicyInv

\* When no policy runs before or after a step that leaves its counters alone,
\* the two properties ask only that running and inter-policy rate stay equal.
LEMMA Idle ==
    ASSUME ~PolicyRuns', pmtpEpoch' = NoEpoch, pmtpRates'.running = pmtpRates'.inter
    PROVE  (CountersCoverWindow /\ RatesFollowPolicy)'
BY DEF CountersCoverWindow, RatesFollowPolicy, NoEpoch

\* Outside a window, its last block included, no policy runs.
LEMMA Outside ==
    ASSUME PolicyInv, ~PolicyRuns
    PROVE  pmtpEpoch = NoEpoch /\ pmtpRates.running = pmtpRates.inter
BY DEF PolicyInv, CountersCoverWindow, RatesFollowPolicy

\* The administrator's messages keep the invariant: a window is replaced only
\* when no policy runs, and ending a policy clears its counters and carries
\* its rate over.
LEMMA MessageKeepsInv ==
    ASSUME PolicyInv, PolicyMessage
    PROVE  PolicyInv'
<1>1. ASSUME NEW w \in Windows, UpdatePmtpParams(w)
      PROVE  PolicyInv'
  <2>1. ValidWindow(w) /\ pmtpParams' = w /\ UNCHANGED <<height, pmtpEpoch, pmtpRates>>
    BY <1>1, PolicyAssumption DEF UpdatePmtpParams
  <2>2. ~PolicyRuns /\ ~PolicyRuns'
    BY <1>1, <2>1 DEF UpdatePmtpParams, IsInsidePmtpWindow, PolicyRuns, PolicyInv, ValidWindow
  <2>3. (CountersCoverWindow /\ RatesFollowPolicy)'
    BY <2>1, <2>2, Idle, Outside
  <2> QED
    BY <2>1, <2>3 DEF PolicyInv, ValidWindow
<1>2. ASSUME NEW b, NEW r, ModifyPmtpRates(b, r)
      PROVE  PolicyInv'
  <2>1. ~PolicyRuns /\ ~PolicyRuns'
    BY <1>2 DEF ModifyPmtpRates, IsInsidePmtpWindow, PolicyRuns, PolicyInv
  <2>2. pmtpRates'.running = pmtpRates'.inter
    BY <1>2, <2>1, Outside DEF ModifyPmtpRates, Given
  <2>3. (CountersCoverWindow /\ RatesFollowPolicy)'
    BY <1>2, <2>1, <2>2, Idle, Outside DEF ModifyPmtpRates
  <2> QED
    BY <1>2, <2>3 DEF PolicyInv, ModifyPmtpRates, ValidWindow
<1>3. ASSUME EndPolicy
      PROVE  PolicyInv'
  <2>1. ~PolicyRuns'
    BY <1>3 DEF EndPolicy, PolicyRuns, PolicyInv
  <2>2. pmtpRates'.running = pmtpRates'.inter
    BY <1>3 DEF EndPolicy
  <2>3. (CountersCoverWindow /\ RatesFollowPolicy)'
    BY <1>3, <2>1, <2>2, Idle DEF EndPolicy
  <2> QED
    BY <1>3, <2>3 DEF PolicyInv, EndPolicy, NoEpoch, IsInsidePmtpWindow
<1>4. ASSUME UNCHANGED <<height, pmtpVars>>
      PROVE  PolicyInv'
  BY <1>4 DEF PolicyInv, pmtpVars, CountersCoverWindow, RatesFollowPolicy, PolicyRuns, ValidWindow
<1> QED
  BY <1>1, <1>2, <1>3, <1>4 DEF PolicyMessage, UpdateLiquidityProtectionParams,
     ModifyLiquidityProtectionRates

\* What BeginBlocker of block h does to the counters and rates, case by case:
\* outside the window, in its last block, at an epoch's end and elsewhere.
LEMMA BlockKeepsInv ==
    ASSUME PolicyInv, BeginBlock
    PROVE  PolicyInv'
<1> DEFINE h == height + 1
           w == pmtpParams
           starts == h = w.start /\ pmtpEpoch = NoEpoch
           epoch == IF starts THEN StartEpoch(w) ELSE pmtpEpoch
           runs == h \in w.start..w.end /\ epoch.epochCounter > 0
<1>1. /\ height \in Nat /\ h \in Nat
      /\ w.start \in Nat /\ w.end \in Nat /\ w.epochLength \in Nat \ {0}
      /\ pmtpEpoch \in [epochCounter : Int, blockCounter : Int]
  BY DEF PolicyInv
<1>2. height' = h /\ pmtpParams' = w
  BY DEF BeginBlock
<1>3. PolicyRuns' <=> h \in w.start..(w.end - 1)
  BY <1>2 DEF PolicyRuns
<1>4. pmtpEpoch' = NextEpoch(epoch, w, h)
  BY DEF BeginBlock, PolicyBlock
<1>5. PICK block : LET running == IF runs THEN Compounded(block, h - w.start + 1) + pmtpRates.inter
                                  ELSE pmtpRates.running
                   IN  /\ pmtpRates' = [block   |-> block,
                                        running |-> running,
                                        inter   |-> IF h = w.end THEN running
                                                    ELSE pmtpRates.inter]
                       /\ ~starts => block = pmtpRates.block
  BY DEF BeginBlock, PolicyBlock
<1>6. (height < w.start => ValidWindow(w))'
  BY <1>1, <1>2 DEF PolicyInv, ValidWindow
<1> SUFFICES /\ pmtpEpoch' \in [epochCounter : Int, blockCounter : Int]
             /\ (CountersCoverWindow /\ RatesFollowPolicy)'
  BY <1>1, <1>2, <1>6 DEF PolicyInv
<1>7. CASE h \notin w.start..w.end
  <2>1. ~PolicyRuns /\ ~PolicyRuns' /\ ~starts /\ ~runs
    BY <1>1, <1>3, <1>7 DEF PolicyRuns, PolicyInv, ValidWindow
  <2>2. pmtpEpoch = NoEpoch /\ pmtpRates.running = pmtpRates.inter
    BY <2>1, Outside
  <2>3. pmtpEpoch' = NoEpoch
    BY <1>4, <1>7, <2>1, <2>2 DEF NextEpoch, NoEpoch
  <2>4. pmtpRates'.running = pmtpRates'.inter
    BY <1>5, <2>1, <2>2
  <2> QED
    BY <2>1, <2>3, <2>4, Idle DEF NoEpoch
<1>8. CASE h \in w.start..w.end
  \* The counters in force during block h count it and what is left after it.
  <2>1. /\ epoch \in [epochCounter : Int, blockCounter : Int]
        /\ epoch.blockCounter \in 1..w.epochLength
        /\ (epoch.epochCounter - 1) * w.epochLength + epoch.blockCounter = w.end - height
    <3>1. CASE h = w.start
      <4>1. ValidWindow(w) /\ ~PolicyRuns
        BY <1>1, <3>1 DEF PolicyInv, PolicyRuns
      <4>2. starts
        BY <3>1, <4>1, Outside
      <4> DEFINE n == w.end - w.start + 1
      <4>3. n \in Nat \ {0} /\ n % w.epochLength = 0
        BY <1>1, <4>1 DEF ValidWindow
      <4>4. /\ n \div w.epochLength \in Nat
            /\ (n \div w.epochLength) * w.epochLength = n
        <5> HIDE DEF n, w
        <5> QED
          BY <1>1, <4>3, WholeEpochs
      <4>5. epoch = [epochCounter |-> n \div w.epochLength, blockCounter |-> w.epochLength]
        BY <4>2 DEF StartEpoch
      <4>6. w.end - height = n
        BY <1>1, <3>1
      <4>7. (n \div w.epochLength - 1) * w.epochLength + w.epochLength = n
        <5> DEFINE q == n \div w.epochLength
                   l == w.epochLength
        <5>1. q \in Int /\ l \in Int /\ q * l = n
          BY <1>1, <4>4
        <5> HIDE DEF q, l, n
        <5>2. (q - 1) * l + l = n
          BY <5>1, SMT
        <5> QED
          BY <5>2 DEF q, l
      <4> HIDE DEF n, epoch
      <4> QED
        BY <1>1, <4>4, <4>5, <4>6, <4>7
    <3>2. CASE h # w.start
      <4>1. PolicyRuns /\ ~starts
        BY <1>1, <1>8, <3>2 DEF PolicyRuns
      <4>2. epoch = pmtpEpoch
        BY <4>1
      <4> QED
        BY <1>1, <4>1, <4>2 DEF PolicyInv, CountersCoverWindow
    <3> QED
      BY <3>1, <3>2
  <2>2. epoch.epochCounter > 0
    <3>1. w.end - height \in Nat \ {0}
      BY <1>1, <1>8
    <3>2. epoch.epochCounter \in Int
      BY <2>1
    <3> HIDE DEF epoch
    <3> QED
      BY <1>1, <2>1, <3>1, <3>2, EpochLeft
  <2>3. runs
    BY <1>8, <2>2
  <2>4. NextEpoch(epoch, w, h) =
          IF h = w.end THEN NoEpoch
          ELSE IF epoch.blockCounter - 1 = 0
               THEN [epochCounter |-> epoch.epochCounter - 1, blockCounter |-> w.epochLength]
               ELSE [epoch EXCEPT !.blockCounter = epoch.blockCounter - 1]
    BY <1>8, <2>2 DEF NextEpoch
  <2> HIDE DEF epoch
  <2>5. CASE h = w.end
    <3>1. ~PolicyRuns' /\ pmtpEpoch' = NoEpoch /\ pmtpRates'.running = pmtpRates'.inter
      BY <1>1, <1>3, <1>4, <1>5, <2>4, <2>5
    <3> QED
      BY <3>1, Idle DEF NoEpoch
  <2>6. CASE h # w.end
    <3>1. PolicyRuns'
      BY <1>1, <1>3, <1>8, <2>6
    <3>2. RatesFollowPolicy'
      BY <1>2, <1>5, <2>3, <2>6, <3>1 DEF RatesFollowPolicy
    <3>3. w.end - h = w.end - height - 1
      BY <1>1
    <3>4. CASE epoch.blockCounter = 1
      <4>1. pmtpEpoch' = [epochCounter |-> epoch.epochCounter - 1, blockCounter |-> w.epochLength]
        BY <1>4, <2>4, <2>6, <3>4
      <4>2. (epoch.epochCounter - 1 - 1) * w.epochLength + w.epochLength
               = (epoch.epochCounter - 1) * w.epochLength
        BY <1>1, <2>1, NextEpochBlocks
      <4>3. (epoch.epochCounter - 1) * w.epochLength \in Int
        BY <1>1, <2>1
      <4>4. (epoch.epochCounter - 1) * w.epochLength = w.end - h
        BY <1>1, <2>1, <3>3, <3>4, <4>3
      <4> QED
        BY <1>1, <1>2, <2>1, <3>1, <3>2, <4>1, <4>2, <4>4 DEF CountersCoverWindow
    <3>5. CASE epoch.blockCounter # 1
      <4>1. pmtpEpoch' = [epoch EXCEPT !.blockCounter = epoch.blockCounter - 1]
        BY <1>1, <1>4, <2>1, <2>4, <2>6, <3>5
      <4>2. /\ pmtpEpoch' \in [epochCounter : Int, blockCounter : Int]
            /\ pmtpEpoch'.epochCounter = epoch.epochCounter
            /\ pmtpEpoch'.blockCounter = epoch.blockCounter - 1
        BY <2>1, <4>1
      <4>3. (epoch.epochCounter - 1) * w.epochLength \in Int
        BY <1>1, <2>1
      <4>4. (epoch.epochCounter - 1) * w.epochLength + (epoch.blockCounter - 1) = w.end - h
        BY <1>1, <2>1, <3>3, <4>3
      <4> QED
        BY <1>1, <1>2, <2>1, <3>1, <3>2, <3>5, <4>2, <4>4 DEF CountersCoverWindow
    <3> QED
      BY <3>4, <3>5
  <2> QED
    BY <2>5, <2>6
<1> QED
  BY <1>7, <1>8

\* What the pool messages and the parameters of the pools leave alone.
LEMMA OutsidePolicy ==
    ASSUME PoolMessage \/ ParamsMessage
    PROVE  UNCHANGED <<height, pmtpVars, protection, raised>>
BY DEF PoolMessage, ParamsMessage, policyVars, protectionVars

\* The invariant depends on the block and the state of the policy only.
LEMMA PolicyInvStutters ==
    ASSUME PolicyInv, UNCHANGED <<height, pmtpVars>>
    PROVE  PolicyInv'
BY DEF PolicyInv, pmtpVars, CountersCoverWindow, RatesFollowPolicy, PolicyRuns, ValidWindow

\* Blocks and messages, those of the pools included, preserve the invariant.
THEOREM PolicyInvariant == Spec => []PolicyInv
<1>1. Init => PolicyInv
  BY PolicyInitial DEF Init
<1>2. PolicyInv /\ [Next]_vars => PolicyInv'
  <2> SUFFICES ASSUME PolicyInv, [Next]_vars PROVE PolicyInv'
    OBVIOUS
  <2>1. CASE UNCHANGED vars
    BY <2>1, PolicyInvStutters DEF vars, policyVars
  <2>2. CASE PoolMessage \/ ParamsMessage
    BY <2>2, OutsidePolicy, PolicyInvStutters
  <2>3. CASE PolicyTx
    BY <2>3, MessageKeepsInv DEF PolicyTx
  <2>4. CASE NextBlock
    BY <2>4, BlockKeepsInv DEF NextBlock
  <2> QED
    BY <2>1, <2>2, <2>3, <2>4 DEF Next
<1> QED
  BY <1>1, <1>2, PTL DEF Spec

\* For every window, epoch length and sequence of messages, the counters of a
\* policy add up to the blocks left of its window (BeginBlocker, PolicyStart).
THEOREM CountersExact == Spec => []CountersCoverWindow
<1>1. PolicyInv => CountersCoverWindow
  BY DEF PolicyInv
<1> QED
  BY <1>1, PolicyInvariant, PTL

\* For every window and every rate, the running rate has compounded once per
\* block of the window, and what a policy reached is what the next one builds
\* on (PolicyCalculations, ModifyPmtpRates).
THEOREM RatesExact == Spec => []RatesFollowPolicy
<1>1. PolicyInv => RatesFollowPolicy
  BY DEF PolicyInv
<1> QED
  BY <1>1, PolicyInvariant, PTL

\* What the induction for the threshold needs.
ThresholdInv ==
    /\ protection \in Limits /\ threshold \in Nat /\ raised \in BOOLEAN
    /\ ThresholdWithinMax

\* It holds at genesis: the threshold starts at the maximum.
LEMMA ThresholdInitial == PolicyInit => ThresholdInv
<1> SUFFICES ASSUME PolicyInit PROVE ThresholdInv
  OBVIOUS
<1>1. protection \in Limits /\ threshold \in Nat /\ threshold \in 0..protection.max
  BY PolicyAssumption, SMT DEF PolicyInit
<1>2. raised = FALSE
  BY Zenon DEF PolicyInit
<1> QED
  BY <1>1, <1>2, Zenon DEF ThresholdWithinMax, ThresholdInv

\* The administrator's messages and BeginBlocker keep it.
LEMMA ThresholdStep ==
    ASSUME ThresholdInv, PolicyNext
    PROVE  ThresholdInv'
<1> USE DEF ThresholdWithinMax, ThresholdInv
<1>1. /\ protection \in Limits /\ protection.max \in Nat /\ threshold \in Nat
      /\ protection.epochLength \in Nat \ {0}
  BY PolicyAssumption
<1>2. CASE UNCHANGED protectionVars
  BY <1>1, <1>2 DEF protectionVars
<1>3. ASSUME NEW limit \in Limits, UpdateLiquidityProtectionParams(limit)
      PROVE  ThresholdInv'
  <2>1. protection' \in Limits /\ threshold' \in Nat /\ threshold' \in 0..protection'.max
    BY <1>3, PolicyAssumption, SMT DEF UpdateLiquidityProtectionParams
  <2>2. raised' = FALSE
    BY <1>3, Zenon DEF UpdateLiquidityProtectionParams
  <2> QED
    BY <2>1, <2>2, Zenon
<1>4. ASSUME NEW current \in Thresholds, ModifyLiquidityProtectionRates(current)
      PROVE  ThresholdInv'
  <2>1. current \in Nat /\ protection' = protection /\ threshold' = current
    BY <1>4, PolicyAssumption DEF ModifyLiquidityProtectionRates
  <2>2. ~(current > protection.max) => current \in 0..protection.max
    BY <1>1, <2>1, SMT
  <2>3. raised' = (current > protection.max)
    BY <1>4, Zenon DEF ModifyLiquidityProtectionRates
  <2>4. raised' \in BOOLEAN /\ (~raised' => current \in 0..protection.max)
    <3>1. (current > protection.max) \in BOOLEAN
      BY SMT
    <3> QED
      BY <2>2, <2>3, <3>1, Zenon
  <2> QED
    BY <1>1, <2>1, <2>4, Zenon
<1>5. CASE BeginBlock
  <2>1. protection' = protection /\ raised' = raised /\ Replenish
    BY <1>5 DEF BeginBlock
  <2> DEFINE amount == protection.max \div protection.epochLength
  <2>2. amount \in Nat
    BY <1>1
  <2>3. \/ threshold' = threshold
        \/ threshold' = protection.max
        \/ /\ threshold <= protection.max /\ ~(protection.max - threshold < amount)
           /\ threshold' = threshold + amount
    BY <2>1 DEF Replenish
  <2> HIDE DEF amount
  <2>4. threshold' = threshold \/ threshold' \in 0..protection.max
    BY <1>1, <2>2, <2>3
  <2> QED
    BY <1>1, <2>1, <2>4
<1>6. CASE PolicyMessage
  BY <1>2, <1>3, <1>4, <1>6 DEF PolicyMessage, UpdatePmtpParams, ModifyPmtpRates, EndPolicy
<1> QED
  BY <1>5, <1>6 DEF PolicyNext

\* A sale of the native asset, or a purchase, moves the threshold between zero and
\* the maximum; a threshold that was set above it only sales can move.
LEMMA TradeKeepsThreshold ==
    ASSUME ThresholdInv, NEW sellNative, NEW amount,
           MustUpdateLiquidityProtectionThreshold(sellNative, amount),
           protection' = protection, raised' = raised
    PROVE  ThresholdInv'
<1>1. /\ protection \in Limits /\ protection.max \in Nat /\ threshold \in Nat
      /\ raised \in BOOLEAN
  BY PolicyAssumption DEF ThresholdInv
<1>2. CASE threshold' = threshold
  BY <1>2, Zenon DEF ThresholdInv, ThresholdWithinMax
<1>3. CASE threshold' # threshold
  <2> DEFINE value == CalcFuryValue(amount, GetNativePrice)
  <2>1. /\ value \in Nat
        /\ \/ value <= threshold /\ threshold' = threshold - value
           \/ /\ threshold <= protection.max
              /\ threshold' = Least(protection.max, threshold + value)
    BY <1>3, Zenon DEF MustUpdateLiquidityProtectionThreshold
  <2> HIDE DEF value
  <2>2. /\ threshold' \in Nat
        /\ threshold \in 0..protection.max => threshold' \in 0..protection.max
    BY <1>1, <2>1, SMT DEF Least
  <2>3. ~raised' => threshold' \in 0..protection.max
    BY <2>2, Zenon DEF ThresholdInv, ThresholdWithinMax
  <2> QED
    BY <1>1, <2>2, <2>3, Zenon DEF ThresholdInv, ThresholdWithinMax
<1> QED
  BY <1>2, <1>3

\* Of the pool messages only a swap and an addition that swaps touch the threshold,
\* and they do it by MustUpdateLiquidityProtectionThreshold.
LEMMA PoolMovesThreshold ==
    ASSUME Pool
    PROVE  \/ threshold' = threshold
           \/ \E sellNative \in BOOLEAN : \E amount :
                 MustUpdateLiquidityProtectionThreshold(sellNative, amount)
<1> DEFINE Goal == \/ threshold' = threshold
                   \/ \E sellNative \in BOOLEAN : \E amount :
                         MustUpdateLiquidityProtectionThreshold(sellNative, amount)
<1> SUFFICES Goal
  OBVIOUS
<1>1. ASSUME NEW sent \in Denoms, NEW received \in Denoms, NEW x \in SwapAmounts,
             Swap(sent, received, x)
      PROVE  Goal
  BY <1>1, Zenon DEF Swap
<1>2. ASSUME NEW u \in Users, NEW a \in Assets, NEW add \in Additions,
             AddLiquidity(u, a, add.nat, add.ext)
      PROVE  Goal
  BY <1>2, Zenon DEF AddLiquidity
<1> HIDE DEF Goal
<1>3. ASSUME NEW u \in Users, NEW a \in Assets, NEW add \in Additions,
             CreatePool(u, a, add.nat, add.ext)
      PROVE  Goal
  BY <1>3 DEF CreatePool, Goal
<1>4. ASSUME NEW u \in Users, NEW a \in Assets, NEW units \in UnlockAmounts,
             UnlockLiquidity(u, a, units) \/ CancelUnlock(u, a, units)
      PROVE  Goal
  BY <1>4 DEF UnlockLiquidity, CancelUnlock, Goal
<1>5. ASSUME NEW u, NEW a, NEW w, Withdraw(u, a, w)
      PROVE  Goal
  BY <1>5 DEF Withdraw, Goal
<1>6. ASSUME NEW u \in Users, NEW a \in Assets, NEW wb \in WBasis, RemoveLiquidity(u, a, wb)
      PROVE  Goal
  BY <1>5, <1>6, Zenon DEF RemoveLiquidity
<1>7. ASSUME NEW u \in Users, NEW a \in Assets, NEW units \in Withdrawals,
             RemoveLiquidityUnits(u, a, units)
      PROVE  Goal
  BY <1>5, <1>7, Zenon DEF RemoveLiquidityUnits
<1>8. ASSUME NEW a \in Assets, DecommissionPool(a)
      PROVE  Goal
  BY <1>8 DEF DecommissionPool, Goal
<1> QED
  BY <1>1, <1>2, <1>3, <1>4, <1>6, <1>7, <1>8, Zenon DEF Pool

\* For every limit, neither replenishing, nor a change of the limit, nor any swap or
\* addition of liquidity lifts the threshold above the maximum: unless the
\* administrator sets it there, the subtraction in BeginBlocker does not stop the chain.
THEOREM ThresholdBounded == Spec => []ThresholdWithinMax
<1>1. Init => ThresholdInv
  BY ThresholdInitial DEF Init
<1>2. ThresholdInv /\ [Next]_vars => ThresholdInv'
  <2> SUFFICES ASSUME ThresholdInv, [Next]_vars PROVE ThresholdInv'
    OBVIOUS
  <2>1. ASSUME UNCHANGED protectionVars PROVE ThresholdInv'
    <3>1. protection' = protection /\ threshold' = threshold /\ raised' = raised
      BY <2>1 DEF protectionVars
    <3> QED
      BY <3>1, Zenon DEF ThresholdInv, ThresholdWithinMax
  <2>2. CASE UNCHANGED vars
    BY <2>1, <2>2 DEF vars, policyVars
  <2>3. CASE PoolMessage
    <3>1. protection' = protection /\ raised' = raised /\ Pool
      BY <2>3, OutsidePolicy DEF PoolMessage
    <3>2. CASE threshold' = threshold
      BY <2>1, <3>1, <3>2 DEF protectionVars
    <3>3. CASE threshold' # threshold
      <4>1. PICK sellNative \in BOOLEAN : \E amount :
                    MustUpdateLiquidityProtectionThreshold(sellNative, amount)
        BY <3>1, <3>3, PoolMovesThreshold, Zenon
      <4>2. PICK amount : MustUpdateLiquidityProtectionThreshold(sellNative, amount)
        BY <4>1, Zenon
      <4> QED
        BY <3>1, <4>2, TradeKeepsThreshold, Zenon
    <3> QED
      BY <3>2, <3>3
  <2>4. CASE ParamsMessage
    BY <2>1, <2>4 DEF ParamsMessage, policyVars
  <2>5. CASE PolicyTx \/ NextBlock
    BY <2>5, ThresholdStep DEF PolicyTx, NextBlock, PolicyNext
  <2> QED
    BY <2>2, <2>3, <2>4, <2>5 DEF Next
<1>3. ThresholdInv => ThresholdWithinMax
  BY DEF ThresholdInv
<1> QED
  BY <1>1, <1>2, <1>3, PTL DEF Spec
=============================================================================
