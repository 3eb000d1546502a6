------------------------------ MODULE ClpCalc ------------------------------
(***************************************************************************)
(* The arithmetic of x/clp: what swaps, additions and withdrawals of       *)
(* liquidity yield.  An sdk.Dec is the integer it stores, a multiple of    *)
(* 1/Precision; a swap fee rate is a multiple of 1/FeeDen, which an sdk.Dec*)
(* holds exactly; the PMTP running rate is a natural number.               *)
(***************************************************************************)
EXTENDS Integers

CONSTANTS
    Precision,    \* 10^18 in the sdk
    FeeDen,       \* denominator of the fee rates, a divisor of Precision
    MaxWbasis     \* 10000

ASSUME ClpCalcAssumption ==
    /\ Precision \in Nat \ {0} /\ FeeDen \in Nat \ {0} /\ MaxWbasis \in Nat \ {0}
    /\ Precision % FeeDen = 0

Least(a, b) == IF a < b THEN a ELSE b
AbsInt(n) == IF n < 0 THEN -n ELSE n

\* i.Sqrt of math/big for arguments below 2^24, bit by bit.
IntSqrt(z) ==
    LET root[i \in 0..12] ==
            IF i = 0 THEN 0
            ELSE LET s == root[i - 1]
                     b == 2^(12 - i)
                 IN  IF (s + b) * (s + b) <= z THEN s + b ELSE s
    IN  root[12]

-----------------------------------------------------------------------------
(* sdk.Dec: chopPrecisionAndRound rounds half to even.                     *)

RoundHalfEven(n) ==
    LET q == n \div Precision
        r == n % Precision
    IN  IF 2 * r < Precision \/ (2 * r = Precision /\ q % 2 = 0) THEN q ELSE q + 1

Dec(n) == n * Precision
DecMul(a, b) == RoundHalfEven(a * b)
DecQuo(a, b) == RoundHalfEven((a * Precision * Precision) \div b)
TruncateInt(a) == a \div Precision
RoundInt(a) == RoundHalfEven(a)

-----------------------------------------------------------------------------
(* Swaps.                                                                  *)

\* What x of one asset buys from a pool of X and Y: the constant-product
\* amount, shifted by the running rate, less the fee.  Both roundings are down.
CalcSwapResult(toFury, X, x, Y, rate, fee) ==
    LET num == IF toFury THEN x * Y ELSE x * Y * (1 + rate)
        den == IF toFury THEN (X + x) * (1 + rate) ELSE X + x
    IN  IF 0 \in {X, x, Y} THEN 0
        ELSE num \div den - (num * fee) \div (den * FeeDen)

CalculateDiscountedSentAmount(sent, fee) ==
    sent - RoundInt(DecMul(Dec(sent), (fee * Precision) \div FeeDen))

CalcFuryValue(amount, price) == RoundInt(DecMul(price, Dec(amount)))

-----------------------------------------------------------------------------
(* Additions.  R and A are the native and the external depth, r and a the  *)
(* amounts added, P the pool units.                                        *)

GetLiquidityAddSymmetryState(A, a, R, r) ==
    IF A = 0 \/ R = 0 THEN "ErrorEmptyPool"
    ELSE IF a = 0 /\ r = 0 THEN "ErrorNothingAdded"
    ELSE CASE R * a < r * A -> "NeedMoreX"
           [] R * a = r * A -> "Symmetric"
           [] OTHER         -> "NeedMoreY"

\* The external amount to swap so that what is added has the ratio of the pool.
\* With B = (a+A)R and C = A(r+R) the terms of the code collect to
\*   | sqrt(B(4(1-f)(1+p)C + (f+p)^2 B)) + (f+p)B - 2(1+p)C | / (2(1+p)(r+R)).
CalculateExternalSwapAmountAsymmetric(R, A, r, a, f, p) ==
    LET B == (a + A) * R
        C == A * (r + R)
        g == f + p * FeeDen
        root == IntSqrt((B * (4 * FeeDen * (FeeDen - f) * (1 + p) * C + g * g * B))
                          \div (FeeDen * FeeDen))
    IN  AbsInt(root * FeeDen + g * B - 2 * (1 + p) * FeeDen * C)
           \div (2 * (1 + p) * (r + R) * FeeDen)

\* The native amount to swap: with k = p - f(1+p),
\*   | sqrt(k^2 C^2 + 4(1+k)BC) - kC - 2B | / (2(a+A)).
CalculateNativeSwapAmountAsymmetric(R, A, r, a, f, p) ==
    LET B == (a + A) * R
        C == A * (r + R)
        k == p * FeeDen - f * (1 + p)
        root == IntSqrt((k * k * C * C + 4 * FeeDen * (FeeDen + k) * B * C)
                          \div (FeeDen * FeeDen))
    IN  AbsInt(root * FeeDen - k * C - 2 * FeeDen * B) \div (2 * (a + A) * FeeDen)

\* Mutant: the units of the amounts as they are added, without the swap.
CalculatePoolUnitsUnswapped(P, R, A, r, a, sellFee, buyFee, rate) ==
    LET u == IF r * A > a * R THEN (P * r) \div R ELSE (P * a) \div A
    IN  [ok |-> TRUE, pool |-> P + u, lp |-> u, swap |-> "NoSwap", amount |-> 0]

\* The units an addition earns, and what it swaps on the way; or an error, when
\* one side of an empty pool would stay empty, and when the subtraction of the
\* swapped amount, an sdk.Uint, panics.
CalculatePoolUnits(P, R, A, r, a, sellFee, buyFee, rate) ==
    LET state == GetLiquidityAddSymmetryState(A, a, R, r)
        bought == CalculateExternalSwapAmountAsymmetric(R, A, r, a, buyFee, rate)
        sold == CalculateNativeSwapAmountAsymmetric(R, A, r, a, sellFee, rate)
        added(ok, u, swap, s) == [ok |-> ok, pool |-> P + u, lp |-> u, swap |-> swap, amount |-> s]
    IN  CASE state = "ErrorEmptyPool" ->
               [ok |-> 0 \notin {a, r}, pool |-> r, lp |-> r, swap |-> "NoSwap", amount |-> 0]
          [] state = "NeedMoreY" ->
               added(bought \in 0..a, (P * (a - bought)) \div (A + bought), "BuyNative", bought)
          [] state = "NeedMoreX" ->
               added(sold \in 0..r, (P * (r - sold)) \div (R + sold), "SellNative", sold)
          [] state = "Symmetric" -> added(TRUE, (P * r) \div R, "NoSwap", 0)
          [] OTHER -> added(TRUE, 0, "NoSwap", 0)

-----------------------------------------------------------------------------
(* Withdrawals.                                                            *)

\* CalculateWithdrawal of wb basis points of a provider's units.  It panics when
\* the units to claim, or the share they are of the pool, are zero.
UnitsToClaim(lpUnits, wb) == DecQuo(Dec(lpUnits), DecQuo(Dec(MaxWbasis), Dec(wb)))

Claimable(P, claim) == claim > 0 /\ DecQuo(Dec(P), claim) > 0

CalculateWithdrawal(P, R, A, lpUnits, wb) ==
    LET claim == UnitsToClaim(lpUnits, wb)
        share(depth) == TruncateInt(DecQuo(Dec(depth), DecQuo(Dec(P), claim)))
    IN  [nat |-> share(R), ext |-> share(A), left |-> TruncateInt(Dec(lpUnits) - claim)]

CalculateWithdrawalFromUnits(P, R, A, lpUnits, units) ==
    LET share(depth) == RoundInt(DecQuo(Dec(depth), DecQuo(Dec(P), Dec(units))))
    IN  [nat |-> share(R), ext |-> share(A), left |-> lpUnits - units]

-----------------------------------------------------------------------------
(* Distributions to providers.                                             *)

CalcProviderDistributionAmount(distribution, poolUnits, units) ==
    RoundInt(DecMul(DecQuo(Dec(units), Dec(poolUnits)), distribution))

\* weight * distribution, rounded down.  depth and total are sdk.Dec.
calcPoolDistribution(depth, total, distribution) ==
    TruncateInt(DecMul(DecQuo(depth, total), Dec(distribution)))
=============================================================================
