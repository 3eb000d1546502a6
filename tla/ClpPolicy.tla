----------------------------- MODULE ClpPolicy -----------------------------
(***************************************************************************)
(* The block-driven policies of x/clp.  A PMTP policy raises the running   *)
(* rate, by which swaps are shifted, in every block of its window; two     *)
(* counters follow it, in blocks of an epoch and in epochs.  Liquidity     *)
(* protection limits the value of the native asset that can be sold and    *)
(* replenishes the limit in every block.  Both are updated by BeginBlocker,*)
(* which is no transaction: a panic there stops the chain.                 *)
(*                                                                         *)
(* A rate is a natural number, in units of 100 percent.  The administrator *)
(* is one role; who holds it is the subject of module Registry.            *)
(***************************************************************************)
EXTENDS Integers

CONSTANTS
    Windows,      \* PMTP windows the administrator may set
    BlockRates,   \* block rates that PolicyStart may compute (math.Pow)
    Rates,        \* running rates the administrator may set
    Limits,       \* protection limits: records [max, epochLength, active]
    Thresholds,   \* current thresholds the administrator may set
    MaxHeight     \* bound: blocks

VARIABLES
    height,       \* the current block, whose BeginBlocker has run
    pmtpParams,   \* [start, end, epochLength]
    pmtpEpoch,    \* [epochCounter, blockCounter]
    pmtpRates,    \* [block, running, inter]
    protection,   \* [max, epochLength, active]
    threshold,    \* currentFuryLiquidityThreshold
    raised        \* history: the administrator set threshold above the maximum

pmtpVars == <<pmtpParams, pmtpEpoch, pmtpRates>>
protectionVars == <<protection, threshold, raised>>
policyVars == <<height, pmtpVars, protectionVars>>

\* ValidateBasic of MsgUpdatePmtpParams: the epochs fill the window.
ValidWindow(w) ==
    /\ w \in [start : Nat \ {0}, end : Nat, epochLength : Nat \ {0}]
    /\ w.end >= w.start
    /\ (w.end - w.start + 1) % w.epochLength = 0

ASSUME PolicyAssumption ==
    /\ \A w \in Windows : ValidWindow(w)
    /\ BlockRates \subseteq Nat
    /\ Rates \subseteq Nat
    /\ \A l \in Limits : /\ l.max \in Nat
                         /\ l.epochLength \in Nat \ {0}
                         /\ l.active \in BOOLEAN
    /\ Thresholds \subseteq Nat
    /\ MaxHeight \in Nat

-----------------------------------------------------------------------------
(* Messages.                                                               *)

IsInsidePmtpWindow == height \in pmtpParams.start..pmtpParams.end

NoEpoch == [epochCounter |-> 0, blockCounter |-> 0]

\* Mutant: a policy may be replaced while it runs.
UpdatePmtpParamsInside(w) ==
    /\ w.start > height
    /\ pmtpParams' = w
    /\ UNCHANGED <<height, pmtpEpoch, pmtpRates, protectionVars>>

UpdatePmtpParams(w) ==
    /\ ~IsInsidePmtpWindow
    /\ w.start > height
    /\ pmtpParams' = w
    /\ UNCHANGED <<height, pmtpEpoch, pmtpRates, protectionVars>>

Unset == -1
Given(value, default) == IF value = Unset THEN default ELSE value

\* ModifyPmtpRates with a block rate, a running rate or both.  Inside a window
\* it ignores them.
ModifyPmtpRates(blockRate, runningRate) ==
    /\ ~IsInsidePmtpWindow
    /\ pmtpRates' = [block   |-> Given(blockRate, pmtpRates.block),
                     running |-> Given(runningRate, pmtpRates.running),
                     inter   |-> Given(runningRate, pmtpRates.inter)]
    /\ UNCHANGED <<height, pmtpParams, pmtpEpoch, protectionVars>>

\* Mutant: the rate reached so far is not carried over.
EndPolicyForgetful ==
    /\ IsInsidePmtpWindow
    /\ pmtpParams' = [pmtpParams EXCEPT !.end = height]
    /\ pmtpEpoch' = NoEpoch
    /\ UNCHANGED <<height, pmtpRates, protectionVars>>

\* ModifyPmtpRates with EndPolicy.
EndPolicy ==
    /\ IsInsidePmtpWindow
    /\ pmtpParams' = [pmtpParams EXCEPT !.end = height]
    /\ pmtpEpoch' = NoEpoch
    /\ pmtpRates' = [pmtpRates EXCEPT !.inter = pmtpRates.running]
    /\ UNCHANGED <<height, protectionVars>>

UpdateLiquidityProtectionParams(limit) ==
    /\ protection' = limit
    /\ threshold' = limit.max
    /\ raised' = FALSE
    /\ UNCHANGED <<height, pmtpVars>>

\* Nothing compares the new threshold with the maximum.
ModifyLiquidityProtectionRates(current) ==
    /\ threshold' = current
    /\ raised' = (current > protection.max)
    /\ UNCHANGED <<height, pmtpVars, protection>>

-----------------------------------------------------------------------------
(* BeginBlocker.                                                           *)

\* The threshold grows by its share of an epoch, up to the maximum.  Uint
\* subtraction panics when the threshold is above the maximum.
Replenish ==
    LET amount == protection.max \div protection.epochLength
    IN  IF ~protection.active THEN threshold' = threshold
        ELSE /\ threshold <= protection.max
             /\ threshold' = IF protection.max - threshold < amount THEN protection.max
                             ELSE threshold + amount

\* (1 + rate)^blocks - 1.
Compounded(rate, blocks) ==
    LET grown[n \in 0..blocks] == IF n = 0 THEN 1 ELSE grown[n - 1] * (1 + rate)
    IN  grown[blocks] - 1

\* PolicyStart sets the counters of a window.
StartEpoch(w) ==
    [epochCounter |-> (w.end - w.start + 1) \div w.epochLength,
     blockCounter |-> w.epochLength]

\* The counters that block h of window w leaves: one block fewer, a new epoch
\* when the last one is used up, none at the end of the window.
NextEpoch(e, w, h) ==
    LET blocks == IF h \in w.start..w.end /\ e.epochCounter > 0 THEN e.blockCounter - 1
                  ELSE e.blockCounter
    IN  IF h = w.end THEN NoEpoch
        ELSE IF blocks = 0 /\ h \in w.start..w.end
             THEN [epochCounter |-> e.epochCounter - 1, blockCounter |-> w.epochLength]
             ELSE [e EXCEPT !.blockCounter = blocks]

PolicyBlock(h) ==
    LET starts == h = pmtpParams.start /\ pmtpEpoch = NoEpoch
        epoch  == IF starts THEN StartEpoch(pmtpParams) ELSE pmtpEpoch
        runs   == h \in pmtpParams.start..pmtpParams.end /\ epoch.epochCounter > 0
    IN  /\ pmtpEpoch' = NextEpoch(epoch, pmtpParams, h)
        /\ \E block \in IF starts THEN BlockRates ELSE {pmtpRates.block} :
             LET running == IF runs
                            THEN Compounded(block, h - pmtpParams.start + 1) + pmtpRates.inter
                            ELSE pmtpRates.running
             IN  pmtpRates' = [block   |-> block,
                               running |-> running,
                               inter   |-> IF h = pmtpParams.end THEN running
                                           ELSE pmtpRates.inter]

BeginBlock ==
    /\ height < MaxHeight
    /\ height' = height + 1
    /\ Replenish
    /\ PolicyBlock(height + 1)
    /\ UNCHANGED <<pmtpParams, protection, raised>>

\* Genesis: no window, which the code writes as block 0, and the first block.
PolicyInit ==
    /\ height = 1
    /\ pmtpParams = [start |-> 0, end |-> 0, epochLength |-> 1]
    /\ pmtpEpoch = NoEpoch
    /\ pmtpRates = [block |-> 0, running |-> 0, inter |-> 0]
    /\ protection \in Limits
    /\ threshold = protection.max
    /\ raised = FALSE

PolicyMessage ==
    \/ \E w \in Windows : UpdatePmtpParams(w)
    \/ \E blockRate \in BlockRates \cup {Unset}, runningRate \in Rates \cup {Unset} :
         ModifyPmtpRates(blockRate, runningRate)
    \/ EndPolicy
    \/ \E limit \in Limits : UpdateLiquidityProtectionParams(limit)
    \/ \E current \in Thresholds : ModifyLiquidityProtectionRates(current)

PolicyNext == PolicyMessage \/ BeginBlock

-----------------------------------------------------------------------------
(* Properties.                                                             *)

\* A policy has begun and has blocks left.
PolicyRuns == height \in pmtpParams.start..(pmtpParams.end - 1)

\* While a policy runs its two counters add up to the blocks that are left of
\* its window, and between policies both are zero, so that the next one can
\* start: no update of the window, early end or epoch boundary loses a block.
CountersCoverWindow ==
    IF PolicyRuns
    THEN /\ pmtpEpoch.blockCounter \in 1..pmtpParams.epochLength
         /\ (pmtpEpoch.epochCounter - 1) * pmtpParams.epochLength + pmtpEpoch.blockCounter
               = pmtpParams.end - height
    ELSE pmtpEpoch = NoEpoch

\* Between policies the inter-policy rate equals the running rate, as the
\* comment in ModifyPmtpRates demands; while one runs the running rate has
\* compounded once per block of the window on the rate the last one left.
RatesFollowPolicy ==
    pmtpRates.running =
        IF PolicyRuns
        THEN Compounded(pmtpRates.block, height - pmtpParams.start + 1) + pmtpRates.inter
        ELSE pmtpRates.inter

\* Unless the administrator sets it so, the current threshold does not exceed the
\* maximum, which BeginBlocker and MustUpdateLiquidityProtectionThreshold subtract
\* it from: neither replenishing, nor buying and selling, nor a lower maximum can
\* make BeginBlocker panic and stop the chain.
ThresholdWithinMax == ~raised => threshold \in 0..protection.max

=============================================================================
