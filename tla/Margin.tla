------------------------------- MODULE Margin -------------------------------
(***************************************************************************)
(* x/margin: leveraged positions on one pool of x/clp, the interest they   *)
(* pay every epoch, and their closure by the trader, by the administrator  *)
(* or by the BeginBlocker.                                                 *)
(*                                                                         *)
(* The pool is chosen by the collateral, unless that is native, and with   *)
(* external collateral nothing relates the asset to borrow to that pool: it*)
(* may be native, the collateral itself, or a foreign denomination.  The   *)
(* books of the pool and its prices take whatever is not native for the    *)
(* external side; coins are paid in the denomination itself.  Foreign coins*)
(* are those of another pool in the clp module account.  Margin is enabled *)
(* for no pool but this one: the BeginBlocker of another would process such*)
(* a position a second time.                                               *)
(*                                                                         *)
(* The keeper functions are operators on a record of the stores they write:*)
(* the pool, the positions (MTPs), the number of open ones and the balances*)
(* of the clp module account.  A transaction that fails or panics leaves   *)
(* nothing behind, so its failures are guards.  The BeginBlocker recovers  *)
(* from a panic and logs errors, and what was written before stays: there  *)
(* the failures are outcomes.                                              *)
(*                                                                         *)
(* Left out: totals kept for reports (collateral, leverage, interest paid, *)
(* block interest, health as last stored), how a payout is divided between *)
(* the trader and the fund, and the roles of administrators.  Traders can  *)
(* always pay.  The interest rate is any of Rates, since its formula holds *)
(* an exponential of floats.                                               *)
(***************************************************************************)
EXTENDS ClpCalc, FiniteSets, Functions

CONSTANTS
    Traders,        \* addresses, naturals in the order of the store
    Rates,          \* interest rates the pool can have, sdk.Dec
    DefaultFee,     \* swap fee of a pool that margin is enabled for
    TokenFee,       \* swap fee by asset sent, otherwise
    Collaterals,    \* amounts of collateral
    Leverages,      \* sdk.Dec
    SwapAmounts,
    ParamTables,    \* what UpdateParams may set
    GenesisBalance, \* balances of the pool at genesis
    ForeignCoins,   \* coins of another pool in the module account
    Cycle,          \* heights are told apart modulo this, a multiple of the epochs
    MaxTxs,         \* bound on the number of messages
    MaxUnpaid       \* bound on the unpaid interest of a position, out of all proportion

VARIABLES
    pool,        \* bal, liab, cust and unsettled by asset; rate and health
    mtps,        \* open positions by id
    mtpCount,    \* last id given
    openCount,   \* number of open positions, as stored
    module,      \* balances of the clp module account
    params, whitelist,
    height,
    txs,
    stuck,       \* ids whose forced closure failed after custody was taken out
    unsent       \* ids whose share for the fund could not be sent

Assets == {"native", "external"}
Denoms == Assets \cup {"foreign"}
Other(a) == IF a = "native" THEN "external" ELSE "native"

\* The side of the pool that the code takes a denomination for.
Side(d) == IF d = "native" THEN "native" ELSE "external"

\* UpdateParams validates none of these.  A share for the fund above one is left out:
\* every payment of interest would then panic after the fund had been paid.
Params ==
    [enabled : BOOLEAN, closed : BOOLEAN, whitelisting : BOOLEAN, furyCollateral : BOOLEAN,
     incremental : BOOLEAN, maxOpen : Nat, leverageMax : Nat, safetyFactor : Nat,
     openThreshold : Nat, minRate : Nat, fundPercentage : 0..Precision,
     epochLength : {n \in 1..Cycle : Cycle % n = 0}]

\* MsgOpen and MsgUpdateSwapFeeParamsRequest validate leverages and fees.
ASSUME MarginAssumption ==
    /\ Traders \subseteq Nat /\ Rates \subseteq Nat /\ Leverages \subseteq Nat
    /\ \A l \in Leverages : l >= Precision
    /\ Collaterals \subseteq Nat \ {0} /\ SwapAmounts \subseteq Nat \ {0}
    /\ DefaultFee \in 0..FeeDen /\ TokenFee \in [Assets -> 0..FeeDen]
    /\ GenesisBalance \in [Assets -> Nat \ {0}] /\ ForeignCoins \in Nat
    /\ Cycle \in Nat \ {0} /\ ParamTables \subseteq Params
    /\ MaxTxs \in Nat /\ MaxUnpaid \in Nat

poolVars == <<pool, mtps, openCount, module, stuck, unsent>>
vars == <<poolVars, mtpCount, params, whitelist, height, txs>>

Stores == [pool |-> pool, mtps |-> mtps, openCount |-> openCount,
           module |-> module, stuck |-> stuck, unsent |-> unsent]

Write(s) ==
    /\ pool' = s.pool /\ mtps' = s.mtps /\ openCount' = s.openCount
    /\ module' = s.module /\ stuck' = s.stuck /\ unsent' = s.unsent

-----------------------------------------------------------------------------
(* Prices.                                                                 *)

\* The pool quotes on balances and liabilities together.
SwapResult(p, x, to, fee) ==
    LET from == Other(to)
    IN  CalcSwapResult(to = "native", p.bal[from] + p.liab[from], x, p.bal[to] + p.liab[to], 0, fee)

\* What a position pays for a swap out of the asset.
SwapFeeRate(from) == IF params.enabled THEN DefaultFee ELSE TokenFee[from]

\* Mutant: liabilities count as coins the pool can pay out.
EnoughAssetTokensOfDepth(p, to, out) == out < p.bal[to] + p.liab[to]

EnoughAssetTokens(p, to, out) == out < p.bal[to]

\* 0 stands for the errors of CLPSwap.
CLPSwap(p, x, d) ==
    LET to == Side(d)
        out == SwapResult(p, x, to, SwapFeeRate(Other(to)))
    IN  IF EnoughAssetTokens(p, to, out) THEN out ELSE 0

\* The swap of the custody over the debt; -1 when there is no quote.
UpdateMTPHealth(p, m) ==
    LET value == CLPSwap(p, m.custody, m.collateral)
    IN  CASE m.liabilities = 0 -> 0
          [] m.liabilities # 0 /\ value = 0 -> -1
          [] OTHER -> DecQuo(Dec(value), Dec(m.liabilities + m.unpaid))

CalculatePoolHealth(p) ==
    LET part(a) == DecQuo(Dec(p.bal[a]), Dec(p.bal[a] + p.liab[a]))
    IN  DecMul(part("external"), part("native"))

\* Interest of a whole epoch, or of the part of it that has passed.
CalcMTPInterestLiabilities(m, rate, position, length) ==
    LET owed == rate * (m.liabilities + m.unpaid)
        interest == (IF position > 0 THEN (owed * position) \div (Precision * length)
                                     ELSE owed \div Precision) + m.unpaid
    IN  IF interest = 0 /\ rate # 0 THEN 1 ELSE interest

TakeFundPayment(amount) == TruncateInt(DecMul(params.fundPercentage, Dec(amount)))

-----------------------------------------------------------------------------
(* Interest.                                                               *)

\* Mutant: the fund's share stays in the books of the pool.
InterestPaidWhole(s, id, paid, unpaid) ==
    LET d == s.mtps[id].borrow
    IN  [s EXCEPT !.mtps[id].custody = @ - paid, !.mtps[id].unpaid = unpaid,
                  !.pool.cust[Side(d)] = @ - paid, !.pool.bal[Side(d)] = @ + paid,
                  !.module[d] = @ - TakeFundPayment(paid)]

\* What is paid leaves the custody, a share of it for the fund.  When the module
\* account cannot pay the share, only the position has changed.
InterestPaid(s, id, paid, unpaid) ==
    LET d == s.mtps[id].borrow
        taken == TakeFundPayment(paid)
        m == [s EXCEPT !.mtps[id].custody = @ - paid, !.mtps[id].unpaid = unpaid]
    IN  IF taken > s.module[d] THEN [m EXCEPT !.unsent = @ \cup {id}]
        ELSE [m EXCEPT !.pool.cust[Side(d)] = @ - paid, !.pool.bal[Side(d)] = @ + paid - taken,
                       !.module[d] = @ - taken]

\* HandleInterestPayment with IncrementalInterestPayment: out of the custody,
\* all of it when it does not suffice.  An error is logged and forgotten.
HandleInterestPayment(s, id, interest) ==
    LET m == s.mtps[id]
        payment == interest + m.unpaid
        inCustody == CLPSwap(s.pool, payment, m.borrow)
        covered == CLPSwap(s.pool, m.custody, m.collateral)
    IN  CASE ~params.incremental -> [s EXCEPT !.mtps[id].unpaid = Least(interest, MaxUnpaid)]
          [] params.incremental /\ inCustody = 0 -> s
          [] params.incremental /\ inCustody \in 1..m.custody -> InterestPaid(s, id, inCustody, 0)
          [] OTHER -> IF covered = 0 THEN [s EXCEPT !.mtps[id].unpaid = 0]
                      ELSE IF payment < covered THEN [s EXCEPT !.mtps[id].unpaid = payment - covered]
                      ELSE InterestPaid(s, id, m.custody, Least(payment - covered, MaxUnpaid))

\* sdk.Uint panics below zero: of the custody of the pool, once the fund was paid,
\* or of the interest left unpaid, before anything was.
Panics(s) ==
    \/ \E a \in Assets : s.pool.cust[a] < 0
    \/ \E id \in DOMAIN s.mtps : s.mtps[id].unpaid < 0

-----------------------------------------------------------------------------
(* Closure.                                                                *)

TakeOutCustody(s, id) ==
    LET c == Side(s.mtps[id].borrow)
    IN  [s EXCEPT !.pool.cust[c] = @ - s.mtps[id].custody,
                  !.pool.bal[c] = @ + s.mtps[id].custody]

RepayAmount(s, id) == CLPSwap(s.pool, s.mtps[id].custody, s.mtps[id].collateral)

\* What a closure pays out of the collateral, and what it leaves unpaid.
Returned(m, have) == IF have > m.liabilities + m.unpaid THEN have - (m.liabilities + m.unpaid) ELSE 0
Missing(m, have) == IF have < m.liabilities + m.unpaid THEN m.liabilities + m.unpaid - have ELSE 0

DestroyMTP(s, id) ==
    [s EXCEPT !.mtps = [i \in DOMAIN s.mtps \ {id} |-> s.mtps[i]], !.openCount = @ - 1]

\* Mutant: unpaid interest is taken off the liabilities of the pool.
RepayWithInterest(s, id, have) ==
    LET m == s.mtps[id]
        a == m.collateral
    IN  DestroyMTP([s EXCEPT !.pool.bal[a] = @ - Returned(m, have),
                             !.pool.liab[a] = @ - (m.liabilities + m.unpaid),
                             !.pool.unsettled[a] = @ + Missing(m, have),
                             !.module[a] = @ - Returned(m, have)], id)


\* The pool keeps what is owed and pays out the rest; what is missing is recorded
\* as unsettled.
Repay(s, id, have) ==
    LET m == s.mtps[id]
        a == m.collateral
    IN  DestroyMTP([s EXCEPT !.pool.bal[a] = @ - Returned(m, have),
                             !.pool.liab[a] = @ - m.liabilities,
                             !.pool.unsettled[a] = @ + Missing(m, have),
                             !.module[a] = @ - Returned(m, have)], id)

\* The custody fetches something, and the module account can pay out.
CanRepay(s, id) ==
    /\ RepayAmount(s, id) # 0
    /\ Returned(s.mtps[id], RepayAmount(s, id)) <= s.module[s.mtps[id].collateral]

\* The interest due within the epoch, which closing by message pays first.
Accrued(id) ==
    LET position == height % params.epochLength
        interest == CalcMTPInterestLiabilities(mtps[id], pool.rate, position, params.epochLength)
    IN  IF position > 0 THEN HandleInterestPayment(Stores, id, interest) ELSE Stores

\* Close by the trader, and ForceClose and AdminClose.
Close(id) ==
    LET s == Accrued(id)
        out == TakeOutCustody(s, id)
    IN  /\ ~Panics(s) /\ ~Panics(out)
        /\ height % params.epochLength > 0 => UpdateMTPHealth(s.pool, s.mtps[id]) >= 0
        /\ CanRepay(out, id)
        /\ Write(Repay(out, id, RepayAmount(out, id)))
        /\ UNCHANGED <<mtpCount, params, whitelist, height>>

-----------------------------------------------------------------------------
(* Opening.                                                                *)

CheckMinLiabilities(liabilities, b) ==
    LET sample == (params.minRate * liabilities) \div Precision
    IN  sample # 0 /\ CLPSwap(pool, sample, b) # 0

Borrow(p, a, collateral, liabilities) ==
    [p EXCEPT !.bal[a] = @ + collateral, !.liab[a] = @ + liabilities]

TakeInCustody(p, c, custody) == [p EXCEPT !.bal[c] = @ - custody, !.cust[c] = @ + custody]

\* Open and OpenLong of a position that borrows b.  With native collateral b names
\* the pool.  The health of the pool is taken between the two changes.  A maximal
\* leverage below one makes the conversion of the liabilities panic.
Open(trader, a, b, collateral, wanted) ==
    LET c == Side(b)
        leverage == Least(wanted, params.leverageMax)
        leveraged == TruncateInt(DecMul(Dec(collateral), leverage))
        liabilities == TruncateInt(DecMul(Dec(collateral), leverage - Precision))
        custody == CLPSwap(pool, leveraged, b)
        m == [address |-> trader, collateral |-> a, borrow |-> b, liabilities |-> liabilities,
              custody |-> custody, unpaid |-> 0]
        borrowed == Borrow(pool, a, collateral, liabilities)
        after == TakeInCustody([borrowed EXCEPT !.health = CalculatePoolHealth(borrowed)], c, custody)
    IN  /\ params.whitelisting => trader \in whitelist
        /\ openCount < params.maxOpen
        /\ a = "native" => b = "external"
        /\ params.enabled /\ ~params.closed
        /\ pool.health > params.openThreshold
        /\ a = "native" => params.furyCollateral
        /\ leveraged <= pool.bal[a]
        /\ liabilities >= 0
        /\ CheckMinLiabilities(liabilities, b)
        /\ custody # 0 /\ custody <= pool.bal[Other(a)]
        /\ UpdateMTPHealth(pool, m) >= 0
        /\ UpdateMTPHealth(after, m) > params.safetyFactor
        /\ pool' = after
        /\ mtpCount' = mtpCount + 1
        /\ openCount' = openCount + 1
        /\ mtps' = [i \in DOMAIN mtps \cup {mtpCount + 1} |-> IF i \in DOMAIN mtps THEN mtps[i] ELSE m]
        /\ module' = [module EXCEPT ![a] = @ + collateral]
        /\ UNCHANGED <<params, whitelist, height, stuck, unsent>>

-----------------------------------------------------------------------------
(* BeginBlocker.                                                           *)

\* ForceCloseLong of an unhealthy position.  An error after TakeOutCustody leaves
\* the custody with the balance, and the position open.
ForceCloseLong(s, id) ==
    LET out == TakeOutCustody(s, id)
    IN  CASE Panics(out) -> s
          [] ~Panics(out) /\ ~CanRepay(out, id) -> [out EXCEPT !.stuck = @ \cup {id}]
          [] OTHER -> Repay(out, id, RepayAmount(out, id))

\* A panic while the interest is paid comes after the fund's share was sent.
BeginBlockerProcessMTP(s, id) ==
    LET m == s.mtps[id]
        health == UpdateMTPHealth(s.pool, m)
        paid == HandleInterestPayment(s, id, CalcMTPInterestLiabilities(m, s.pool.rate, 0, 1))
    IN  CASE health < 0 -> s
          [] health >= 0 /\ Panics(paid) -> [s EXCEPT !.module = paid.module]
          [] health > params.safetyFactor /\ ~Panics(paid) -> paid
          [] OTHER -> ForceCloseLong(paid, id)

\* The order of the store: by address, then by id.
Before(i, j) ==
    \/ mtps[i].address < mtps[j].address
    \/ mtps[i].address = mtps[j].address /\ i < j

LastOf(ids) == CHOOSE i \in ids : \A j \in ids \ {i} : Before(j, i)

\* Every position is processed on what the ones before it left.
Epoch(rate) ==
    LET p == [pool EXCEPT !.rate = rate, !.health = CalculatePoolHealth(pool)]
        after[ids \in SUBSET DOMAIN mtps] ==
            IF ids = {} THEN [Stores EXCEPT !.pool = p]
            ELSE BeginBlockerProcessMTP(after[ids \ {LastOf(ids)}], LastOf(ids))
    IN  after[DOMAIN mtps]

\* Mutant: positions of a pool that is closed to new ones are not processed.
BeginBlockOfOpenPools ==
    /\ height' = (height + 1) % Cycle
    /\ IF height' % params.epochLength = 0 /\ params.enabled /\ ~params.closed
       THEN \E rate \in Rates : Write(Epoch(rate))
       ELSE UNCHANGED poolVars
    /\ UNCHANGED <<mtpCount, params, whitelist, txs>>

BeginBlock ==
    /\ height' = (height + 1) % Cycle
    /\ IF height' % params.epochLength = 0 /\ params.enabled
       THEN \E rate \in Rates : Write(Epoch(rate))
       ELSE UNCHANGED poolVars
    /\ UNCHANGED <<mtpCount, params, whitelist, txs>>

-----------------------------------------------------------------------------
(* Swaps of x/clp, and parameters.                                         *)

\* A user's swap pays the fee of the token, whether or not margin is enabled.
Swap(to, x) ==
    LET out == SwapResult(pool, x, to, TokenFee[Other(to)])
    IN  /\ EnoughAssetTokens(pool, to, out) /\ out <= module[to]
        /\ pool' = [pool EXCEPT !.bal[Other(to)] = @ + x, !.bal[to] = @ - out]
        /\ module' = [module EXCEPT ![Other(to)] = @ + x, ![to] = @ - out]
        /\ UNCHANGED <<mtps, openCount, stuck, unsent, mtpCount, params, whitelist, height>>

\* UpdateParams keeps the list of enabled pools, not that of closed ones.
UpdateParams(table) ==
    /\ params' = [table EXCEPT !.enabled = params.enabled]
    /\ UNCHANGED <<poolVars, mtpCount, whitelist, height>>

UpdatePools(enabled, closed) ==
    /\ params' = [params EXCEPT !.enabled = enabled, !.closed = closed]
    /\ UNCHANGED <<poolVars, mtpCount, whitelist, height>>

UpdateFuryCollateral(allowed) ==
    /\ params' = [params EXCEPT !.furyCollateral = allowed]
    /\ UNCHANGED <<poolVars, mtpCount, whitelist, height>>

CloseAllFactor == 100 * Precision

AdminCloseAll ==
    /\ params' = [params EXCEPT !.safetyFactor = CloseAllFactor]
    /\ UNCHANGED <<poolVars, mtpCount, whitelist, height>>

Whitelist(trader) ==
    /\ whitelist' = whitelist \cup {trader}
    /\ UNCHANGED <<poolVars, mtpCount, params, height>>

Dewhitelist(trader) ==
    /\ whitelist' = whitelist \ {trader}
    /\ UNCHANGED <<poolVars, mtpCount, params, height>>

-----------------------------------------------------------------------------
Nothing == [a \in Assets |-> 0]

Init ==
    /\ pool = [bal |-> GenesisBalance, liab |-> Nothing, cust |-> Nothing, unsettled |-> Nothing,
               rate |-> 0, health |-> Dec(1)]
    /\ mtps = <<>> /\ mtpCount = 0 /\ openCount = 0
    /\ module = [d \in Denoms |-> IF d = "foreign" THEN ForeignCoins ELSE GenesisBalance[d]]
    /\ params \in ParamTables
    /\ whitelist = {}
    /\ height = 0
    /\ txs = 0
    /\ stuck = {} /\ unsent = {}

Message ==
    /\ txs < MaxTxs /\ txs' = txs + 1
    /\ \/ \E trader \in Traders, a \in Assets, b \in Denoms, n \in Collaterals, l \in Leverages :
             Open(trader, a, b, n, l)
       \/ \E id \in DOMAIN mtps : Close(id)
       \/ \E to \in Assets, x \in SwapAmounts : Swap(to, x)
       \/ \E table \in ParamTables : UpdateParams(table)
       \/ \E enabled, closed \in BOOLEAN : UpdatePools(enabled, closed)
       \/ \E allowed \in BOOLEAN : UpdateFuryCollateral(allowed)
       \/ AdminCloseAll
       \/ \E trader \in Traders : Whitelist(trader) \/ Dewhitelist(trader)

Next == Message \/ BeginBlock

Spec == Init /\ [][Next]_vars

\* Blocks keep coming: BeginBlock is always enabled, and only it moves the height.
BlocksKeepComing == \A h \in 0..(Cycle - 1) : []<>(height = h)

FairSpec == Spec /\ BlocksKeepComing

-----------------------------------------------------------------------------
(* Properties.                                                             *)

\* What positions owe of an asset, and what they keep of it in custody.
Owed(ms, a) ==
    SumFunctionOnSet([i \in DOMAIN ms |-> IF ms[i].collateral = a THEN ms[i].liabilities ELSE 0],
                     DOMAIN ms)
Kept(ms, a) ==
    SumFunctionOnSet([i \in DOMAIN ms |-> IF Side(ms[i].borrow) = a THEN ms[i].custody ELSE 0],
                     DOMAIN ms)

\* The module account holds exactly the balances and the custody in the books of
\* the pool (BalanceModuleAccountCheck of x/clp), but for what positions with foreign
\* custody paid to the fund: these coins left another pool's part of the account, and
\* this pool's books (TakeFundPayment, IncrementalInterestPayment).  As long as no
\* forced closure failed after its custody had been taken out: the next interest of
\* such a position may panic between the payment to the fund and the books.
ModuleCoversPool ==
    stuck = {} => /\ module["native"] = pool.bal["native"] + pool.cust["native"]
                  /\ module["external"] + module["foreign"]
                       = pool.bal["external"] + pool.cust["external"] + ForeignCoins

\* The liabilities and the custody in the books of the pool are those of the open
\* positions, and the counter of open positions counts them, whatever positions
\* borrowed and whichever way they paid interest and were closed (Borrow, IncrementalInterestPayment, Repay,
\* DestroyMTP).  Custody as long as no forced closure failed after its custody had
\* been taken out (ForceCloseLong), and no share of interest for the fund could not be
\* sent, which takes the interest off the position only (TakeFundPayment).
PositionsMatch ==
    /\ openCount = Cardinality(DOMAIN mtps)
    /\ \A a \in Assets : pool.liab[a] = Owed(mtps, a)
    /\ stuck \cup unsent = {} => \A a \in Assets : pool.cust[a] = Kept(mtps, a)

\* Neither positions nor swaps empty a side of the pool, by which
\* InterestRateComputation divides outside any recover.
NeverEmpty == \A a \in Assets : pool.bal[a] > 0

Depth(p, a) == p.bal[a] + p.liab[a]

\* The position borrows the other asset of the pool of its collateral.
Opposite(m) == m.borrow = Other(m.collateral)


ClosingAll == params.safetyFactor = CloseAllFactor /\ params.enabled

\* AdminCloseAll closes in the end every position that borrows the other asset of
\* the pool, but for those whose custody fetches nothing, which no message and no
\* block can close either, and those worth a hundred times their debt.  It need not
\* close a position that borrows its own collateral or a foreign denomination, whose
\* interest may panic in every block (IncrementalInterestPayment).  And it does not
\* once a forced closure has failed after its custody was taken out: the custody of
\* the pool is then short, and the closure of other positions may panic in every block.
CloseAllDrains ==
    <>[]ClosingAll => <>[](\/ \A id \in DOMAIN mtps :
                                Opposite(mtps[id])
                                  => UpdateMTPHealth(pool, mtps[id]) \notin 0..CloseAllFactor
                           \/ stuck # {})
=============================================================================
