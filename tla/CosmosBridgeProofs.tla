------------------------- MODULE CosmosBridgeProofs -------------------------
(***************************************************************************)
(* Proofs about CosmosBridge, for any validators, powers, threshold,       *)
(* claims, tokens and users.  While the validator set does not change, a   *)
(* prophecy is paid at most once, not later than it meets the threshold,   *)
(* and its power is that of its claimants.  Whatever the validator set     *)
(* does, the counters of Valset are never below the validators they count, *)
(* the events account for the money, nonces identify deposits and a Burn   *)
(* is paid in the token it names.                                          *)
(***************************************************************************)
EXTENDS CosmosBridge, Sums

TypeInv ==
    /\ signedPower \in [Claims -> Nat]
    /\ completions \in [Claims -> Nat]
    /\ powers \in [EthValidators -> Nat]

\* A prophecy that was paid was paid once and still stands above the threshold,
\* which is what makes the check at the head of newProphecyClaim sufficient.
PaidStaysReached ==
    \A c \in Claims :
        \/ completions[c] = 0
        \/ completions[c] = 1 /\ hasReachedThreshold(signedPower[c])

IInv == TypeInv /\ PaidStaysReached /\ ReachedIsPaid

\* Nothing is signed or paid when the contract is initialized.
LEMMA InitIInv == Init => IInv
<1> SUFFICES ASSUME Init PROVE IInv
    BY Zenon
<1>1. TypeInv
    BY ValsetAssumption, Zenon DEF Init, ValsetInit, TypeInv
<1>2. \A c \in Claims : completions[c] = 0 /\ signedPower[c] = 0
    BY Zenon DEF Init
<1>3. PaidStaysReached /\ ReachedIsPaid
    BY <1>2, Zenon DEF PaidStaysReached, ReachedIsPaid
<1> QED BY <1>1, <1>3, Zenon DEF IInv

\* A claim keeps the invariant: it is refused once the threshold is met, and pays
\* in the same step in which it meets it.
LEMMA ClaimIInv ==
    ASSUME IInv, NEW v \in EthValidators, NEW c \in Claims, newProphecyClaim(v, c)
    PROVE  IInv'
<1>1. /\ ~hasReachedThreshold(signedPower[c])
      /\ signedPower' = [signedPower EXCEPT ![c] = @ + powers[v]]
      /\ powers' = powers /\ totalPower' = totalPower
    BY Zenon DEF newProphecyClaim, newOracleClaim, getValidatorPower, valsetVars
<1>2. IF hasReachedThreshold(signedPower'[c])
      THEN completions' = [completions EXCEPT ![c] = @ + 1]
      ELSE completions' = completions
    BY Zenon DEF newProphecyClaim, completeProphecyClaim
<1>3. TypeInv'
    BY <1>1, <1>2 DEF IInv, TypeInv
<1>4. \A s : hasReachedThreshold(s)' <=> hasReachedThreshold(s)
    BY <1>1, Zenon DEF hasReachedThreshold
<1>5. completions[c] = 0
    BY <1>1, Zenon DEF IInv, PaidStaysReached
<1>6. \A d \in Claims \ {c} : completions'[d] = completions[d] /\ signedPower'[d] = signedPower[d]
    BY <1>1, <1>2, Zenon DEF IInv, TypeInv
<1>7. completions'[c] = IF hasReachedThreshold(signedPower'[c]) THEN 1 ELSE 0
    BY <1>2, <1>5 DEF IInv, TypeInv
<1>8. PaidStaysReached'
  <2> SUFFICES ASSUME NEW d \in Claims
               PROVE  \/ completions'[d] = 0
                      \/ completions'[d] = 1 /\ hasReachedThreshold(signedPower'[d])
      BY <1>4, Zenon DEF PaidStaysReached
  <2>1. CASE d = c
      BY <2>1, <1>4, <1>7, Zenon
  <2>2. CASE d # c
      BY <2>2, <1>4, <1>6, Zenon DEF IInv, PaidStaysReached
  <2> QED BY <2>1, <2>2, Zenon
<1>9. ReachedIsPaid'
  <2> SUFFICES ASSUME ~hasReachedThreshold(0), NEW d \in Claims, hasReachedThreshold(signedPower'[d])
               PROVE  completions'[d] >= 1
      BY <1>4, Zenon DEF ReachedIsPaid
  <2>1. CASE d = c
      BY <2>1, <1>7
  <2>2. CASE d # c
      BY <2>2, <1>6, Zenon DEF IInv, ReachedIsPaid
  <2> QED BY <2>1, <2>2, Zenon
<1> QED BY <1>3, <1>8, <1>9, Zenon DEF IInv

\* So does every step of the stable specification.
LEMMA StepIInv == IInv /\ [Claiming \/ BankActivity]_vars => IInv'
<1> SUFFICES ASSUME IInv, [Claiming \/ BankActivity]_vars PROVE IInv'
    BY Zenon
<1>1. ASSUME UNCHANGED <<valsetVars, prophecyVars>> PROVE IInv'
    BY <1>1, Zenon DEF IInv, TypeInv, PaidStaysReached, ReachedIsPaid, hasReachedThreshold,
                valsetVars, prophecyVars
<1>2. ASSUME NEW v \in EthValidators, NEW c \in Claims, newProphecyClaim(v, c) PROVE IInv'
    BY <1>2, ClaimIInv, Zenon
<1>3. ASSUME NEW a \in Callers, setBridgeBank(a) PROVE IInv'
    BY <1>3, <1>1, Zenon DEF setBridgeBank
<1>4. CASE BankActivity
    BY <1>4, <1>1, Zenon DEF BankActivity
<1>5. CASE UNCHANGED vars
    BY <1>5, <1>1, Zenon DEF vars
<1> QED BY <1>2, <1>3, <1>4, <1>5, Zenon DEF Claiming

\* The invariant holds in every reachable state.
LEMMA Invariance == StableSpec => []IInv
BY InitIInv, StepIInv, PTL DEF StableSpec

\* newProphecyClaim never pays a prophecy twice while the validator set stands.
THEOREM NeverPaidTwice == StableSpec => []PaidOnce
<1>1. IInv => PaidOnce
    BY DEF IInv, TypeInv, PaidStaysReached, PaidOnce
<1> QED BY <1>1, Invariance, PTL

\* A prophecy that meets the threshold has been paid while the validator set
\* stands.
THEOREM PaidWhenReached == StableSpec => []ReachedIsPaid
<1>1. IInv => ReachedIsPaid
    BY Zenon DEF IInv
<1> QED BY <1>1, Invariance, PTL

-----------------------------------------------------------------------------
(* The counters of the validator set (Valset.sol).                         *)

CountersInv ==
    /\ validators \subseteq EthValidators
    /\ powers \in [EthValidators -> Nat]
    /\ totalPower \in Nat
    /\ validatorCount \in Nat
    /\ CountersCoverActive

\* A set of positions that is not empty has a last one.
LEMMA LastOf ==
    ASSUME NEW n \in Nat, NEW E \in SUBSET (1..n), E # {}
    PROVE  Max(E) \in E
<1> DEFINE T == {m \in Nat : n - m \in E}
<1>1. T # {}
  <2>1. PICK e \in E : TRUE
    BY Zenon
  <2>2. n - e \in Nat /\ n - (n - e) = e
    OBVIOUS
  <2> QED BY <2>2, Zenon
<1>2. PICK m \in T : \A k \in T : m <= k
  BY <1>1, LeastMember, Zenon
<1>3. \A e \in E : n - e \in T /\ e \in Nat
  OBVIOUS
<1>4. n - m \in E /\ \A e \in E : n - m >= e
  BY <1>2, <1>3
<1> QED
  BY <1>4, Zenon DEF Max

\* The sum over a changed set of validators, or over changed powers.
LEMMA PowersFinite ==
    ASSUME CountersInv
    PROVE  /\ \A V \in SUBSET EthValidators : IsFiniteSet(V) /\ Cardinality(V) \in Nat
           /\ \A V \in SUBSET EthValidators : SumFunctionOnSet(powers, V) \in Nat
<1>1. \A V \in SUBSET EthValidators : IsFiniteSet(V) /\ Cardinality(V) \in Nat
  BY ValsetAssumption, OneLess, Zenon
<1>2. ASSUME NEW V \in SUBSET EthValidators PROVE SumFunctionOnSet(powers, V) \in Nat
  <2>1. \A v \in V : powers[v] \in Nat
    BY Zenon DEF CountersInv
  <2> QED BY <1>1, <2>1, SumNat, Zenon
<1> QED BY <1>1, <1>2, Zenon

\* Taking a validator out takes its power out of the sum, whatever becomes of
\* its own entry.
LEMMA WithoutOne ==
    ASSUME CountersInv, NEW v \in EthValidators,
           powers' \in [EthValidators -> Nat],
           \A w \in EthValidators \ {v} : powers'[w] = powers[w],
           validators' = validators \ {v}
    PROVE  /\ ActivePower' = ActivePower - (IF v \in validators THEN powers[v] ELSE 0)
           /\ Cardinality(validators') = Cardinality(validators) - (IF v \in validators THEN 1 ELSE 0)
<1> DEFINE V == validators \ {v}
<1>1. /\ V \in SUBSET EthValidators /\ validators \in SUBSET EthValidators
      /\ IsFiniteSet(V) /\ IsFiniteSet(validators) /\ Cardinality(validators) \in Nat
      /\ SumFunctionOnSet(powers, V) \in Nat /\ SumFunctionOnSet(powers, validators) \in Nat
  BY PowersFinite, Zenon DEF CountersInv
<1>2. SumFunctionOnSet(powers', V) = SumFunctionOnSet(powers, V)
  <2>1. \A w \in V : powers[w] \in Int /\ powers'[w] = powers[w]
    BY <1>1 DEF CountersInv
  <2> HIDE DEF V
  <2> QED BY <1>1, <2>1, SumCong, Zenon
<1>3. CASE v \in validators
  <2>1. \A w \in validators : powers[w] \in Int
    BY <1>1 DEF CountersInv
  <2>2. SumFunctionOnSet(powers, validators) = powers[v] + SumFunctionOnSet(powers, V)
    BY <1>1, <1>3, <2>1, SumRemove
  <2>3. Cardinality(V) = Cardinality(validators) - 1
    BY <1>1, <1>3, OneLess, Zenon
  <2>4. powers[v] \in Nat
    BY Zenon DEF CountersInv
  <2> QED
    BY <1>1, <1>2, <1>3, <2>2, <2>3, <2>4 DEF ActivePower
<1>4. CASE v \notin validators
  <2>1. V = validators
    BY <1>4, Zenon
  <2> QED
    BY <1>1, <1>2, <1>4, <2>1, SMTT(60) DEF ActivePower
<1> QED
  BY <1>3, <1>4, Zenon

\* updateValset counts every entry of the list, the active set holds each listed
\* validator once, with the power of its last entry.
LEMMA ListCovers ==
    ASSUME NEW n \in Nat, NEW list \in [1..n -> EthValidators \X Powers], Len(list) = n,
           NEW pw, pw = [v \in EthValidators |-> ListedPower(list, v)],
           NEW given, given = [i \in 1..Len(list) |-> list[i][2]]
    PROVE  /\ Listed(list) \subseteq EthValidators
           /\ pw \in [EthValidators -> Nat]
           /\ SumFunction(given) \in Nat
           /\ SumFunctionOnSet(pw, Listed(list)) <= SumFunction(given)
           /\ Cardinality(Listed(list)) <= n
<1> DEFINE entries(v) == {i \in 1..n : list[i][1] = v}
           last == [v \in Listed(list) |-> Max(entries(v))]
<1>1. \A i \in 1..n : /\ list[i][1] \in EthValidators /\ list[i][2] \in Nat
                      /\ given[i] = list[i][2]
  BY ValsetAssumption, Zenon
<1>2. Listed(list) = {list[i][1] : i \in 1..n} /\ Listed(list) \subseteq EthValidators
  BY <1>1, Zenon DEF Listed
<1>3. \A v \in EthValidators : entries(v) # {} => Max(entries(v)) \in entries(v)
  BY LastOf, Zenon
<1>4. \A v \in EthValidators : pw[v] = IF entries(v) = {} THEN 0 ELSE list[Max(entries(v))][2]
  BY Zenon DEF ListedPower
<1>5. \A v \in Listed(list) : entries(v) # {}
  BY <1>2, Zenon
<1>6. pw \in [EthValidators -> Nat]
  <2> HIDE DEF entries
  <2>1. ASSUME NEW v \in EthValidators PROVE pw[v] \in Nat
    <3>1. CASE entries(v) = {}
      BY <1>4, <3>1
    <3>2. CASE entries(v) # {}
      <4>1. Max(entries(v)) \in 1..n
        BY <1>3, <3>2, Zenon DEF entries
      <4>2. pw[v] = list[Max(entries(v))][2]
        BY <1>4, <3>2, Zenon
      <4> QED BY <1>1, <4>1, <4>2, Zenon
    <3> QED BY <3>1, <3>2, Zenon
  <2> QED BY <2>1, Zenon
<1>7. \A v \in Listed(list) : /\ last[v] \in 1..n /\ list[last[v]][1] = v
                              /\ given[last[v]] = pw[v] /\ pw[v] \in Int
  BY <1>1, <1>2, <1>3, <1>4, <1>5, <1>6, SMTT(60)
<1> DEFINE V == Listed(list)
           Lasts == {last[v] : v \in V}
<1>8. /\ \A v, w \in V : last[v] = last[w] => v = w
      /\ \A v \in V : pw[v] \in Int /\ given[last[v]] = pw[v] /\ last[v] \in 1..n
      /\ DOMAIN last = V /\ last = [v \in V |-> last[v]]
  <2> HIDE DEF last
  <2>1. \A v, w \in V : last[v] = last[w] => v = w
    <3> SUFFICES ASSUME NEW v \in V, NEW w \in V, last[v] = last[w] PROVE v = w
      BY Zenon
    <3>1. list[last[v]][1] = v /\ list[last[w]][1] = w
      BY <1>7, Zenon
    <3> QED BY <3>1, Zenon
  <2> QED BY <1>7, <2>1, Zenon DEF last
<1>9. IsFiniteSet(V) /\ IsFiniteSet(1..n) /\ Cardinality(1..n) = n
  <2>1. V \in SUBSET EthValidators
    BY <1>2, Zenon
  <2>2. IsFiniteSet(V)
    BY <2>1, ValsetAssumption, FS_Subset, Zenon
  <2>3. IsFiniteSet(1..n) /\ Cardinality(1..n) = IF 1 > n THEN 0 ELSE n - 1 + 1
    BY FS_Interval
  <2> QED BY <2>2, <2>3
<1>a. \A i \in 1..n : given[i] \in Nat
  BY <1>1, Zenon
<1> HIDE DEF V, last
<1>b. Lasts \in SUBSET (1..n)
  <2>1. \A v \in V : last[v] \in 1..n
    BY <1>8, Zenon
  <2> QED BY <2>1, Zenon
<1>c. last \in [V -> 1..n]
  <2>1. \A v \in V : last[v] \in 1..n
    BY <1>8, Zenon
  <2> QED BY <1>8, <2>1, Zenon
<1>d. /\ \A v, w \in V : last[v] = last[w] => v = w
      /\ \A v \in V : pw[v] \in Int /\ given[last[v]] = pw[v]
  BY <1>8, Zenon
<1>e. \A z : z \in Lasts <=> \E v \in V : z = last[v]
  BY Zenon
<1> HIDE DEF Lasts
<1>10. SumFunctionOnSet(given, Lasts) = SumFunctionOnSet(pw, V)
  <2>1. Renames(last, pw, V, given, Lasts)
    BY <1>d, <1>e, Zenon DEF Renames
  <2> QED BY <1>9, <2>1, SumRename
<1>11. SumFunctionOnSet(given, Lasts) <= SumFunctionOnSet(given, 1..n)
  BY <1>9, <1>a, <1>b, SumPart, Zenon
<1>12. SumFunctionOnSet(given, 1..n) \in Nat
  BY <1>9, <1>a, SumNat, Zenon
<1>13. Cardinality(V) <= n
  <2>1. last \in Injection(V, 1..n)
    BY <1>c, <1>d, Zenon DEF Injection, IsInjective
  <2> QED BY <1>9, <2>1, FS_Injection
<1>14. SumFunction(given) = SumFunctionOnSet(given, 1..n)
  BY Zenon DEF SumFunction
<1> QED
  BY <1>2, <1>6, <1>11, <1>12, <1>13, <1>14, <1>10, Zenon DEF V

\* Every operator function keeps the counters above the active validators.
LEMMA ValsetStep ==
    ASSUME CountersInv, ValsetChange PROVE CountersInv'
<1> DEFINE S == ActivePower
           N == Cardinality(validators)
<1>0. /\ S \in Nat /\ N \in Nat /\ totalPower \in Nat /\ validatorCount \in Nat
      /\ totalPower >= S /\ validatorCount >= N
      /\ validators \in SUBSET EthValidators /\ powers \in [EthValidators -> Nat]
  BY PowersFinite, Zenon DEF CountersInv, CountersCoverActive, ActivePower
<1>s. S = ActivePower /\ N = Cardinality(validators)
  BY Zenon
<1> HIDE DEF S, N
<1>1. ASSUME NEW c, NEW v \in EthValidators, NEW p \in Powers, addValidator(c, v, p)
      PROVE  CountersInv'
  <2>1. /\ totalPower' = totalPower + p /\ validatorCount' = validatorCount + 1 /\ p \in Nat
        /\ validators' = validators \cup {v} /\ powers' = [powers EXCEPT ![v] = p]
    BY <1>1, ValsetAssumption, Zenon DEF addValidator, addValidatorInternal
  <2>2. /\ validators' \in SUBSET EthValidators /\ powers' \in [EthValidators -> Nat]
        /\ \A w \in EthValidators \ {v} : powers'[w] = powers[w]
        /\ powers'[v] = p
    BY <1>0, <2>1, Zenon
  <2>3. IsFiniteSet(validators) /\ IsFiniteSet(validators')
    BY <1>0, <2>2, PowersFinite, ValsetAssumption, OneLess, Zenon
  <2>4. CASE v \in validators
    <3>1. validators' = validators
      BY <2>1, <2>4, Zenon
    <3>2. SumFunctionOnSet(powers', validators) = SumFunctionOnSet(powers, validators) - powers[v] + p
      <4>1. \A w \in validators : powers[w] \in Int /\ (w # v => powers'[w] = powers[w])
        BY <1>0, <2>2
      <4>2. powers'[v] \in Int
        BY <2>1, <2>2
      <4> QED BY <2>2, <2>3, <2>4, <4>1, <4>2, SumUpdate
    <3>3. ActivePower' = S - powers[v] + p /\ powers[v] \in Nat
      BY <1>0, <3>1, <3>2, Zenon DEF ActivePower, S
    <3>4. totalPower' >= ActivePower' /\ validatorCount' >= Cardinality(validators')
      <4>1. Cardinality(validators') = N
        BY <1>s, <3>1, Zenon
      <4>2. totalPower' = totalPower + p /\ validatorCount' = validatorCount + 1 /\ p \in Nat
        BY <2>1, Zenon
      <4> QED BY <1>0, <3>3, <4>1, <4>2
    <3> QED
      BY <1>0, <2>1, <2>2, <3>4 DEF CountersInv, CountersCoverActive
  <2>5. CASE v \notin validators
    <3>1. SumFunctionOnSet(powers', validators) = SumFunctionOnSet(powers, validators)
      <4>1. \A w \in validators : powers[w] \in Int /\ powers'[w] = powers[w]
        BY <1>0, <2>2, <2>5
      <4> QED BY <2>3, <4>1, SumCong, Zenon
    <3>2. SumFunctionOnSet(powers', validators \cup {v}) = SumFunctionOnSet(powers', validators) + powers'[v]
      <4>1. /\ \A w \in validators : powers'[w] \in Int
            /\ powers'[v] \in Int
        BY <1>0, <2>1, <2>2
      <4> QED BY <2>3, <2>5, <4>1, SumAdd, Zenon
    <3>3. ActivePower' = S + p
      BY <2>1, <2>2, <3>1, <3>2, Zenon DEF ActivePower, S
    <3>4. Cardinality(validators') = N + 1
      BY <2>1, <2>3, <2>5, FS_AddElement, Zenon DEF N
    <3> QED
      BY <1>0, <2>1, <2>2, <3>3, <3>4 DEF CountersInv, CountersCoverActive
  <2> QED
    BY <2>4, <2>5, Zenon
<1>2. ASSUME NEW c, NEW v \in EthValidators, NEW p \in Powers, updateValidatorPower(c, v, p)
      PROVE  CountersInv'
  <2>1. /\ totalPower' = totalPower - powers[v] + p /\ validatorCount' = validatorCount /\ p \in Nat
        /\ validators' = validators /\ powers' = [powers EXCEPT ![v] = p]
        /\ v \in validators /\ totalPower >= powers[v] /\ powers[v] \in Nat
    BY <1>0, <1>2, ValsetAssumption, Zenon DEF updateValidatorPower, isActiveValidator
  <2>2. IsFiniteSet(validators)
    BY <1>0, PowersFinite, Zenon
  <2>3. /\ \A w \in validators : powers[w] \in Int
        /\ \A w \in validators \ {v} : powers'[w] = powers[w]
        /\ powers'[v] = p /\ powers'[v] \in Int
        /\ powers' \in [EthValidators -> Nat]
    BY <1>0, <2>1
  <2>a. v \in validators
    BY <2>1, Zenon
  <2>4. SumFunctionOnSet(powers', validators) = SumFunctionOnSet(powers, validators) - powers[v] + powers'[v]
    BY <2>a, <2>2, <2>3, SumUpdate
  <2>5. ActivePower' = S - powers[v] + p
    BY <2>1, <2>3, <2>4, Zenon DEF ActivePower, S
  <2> QED
    BY <1>0, <2>1, <2>3, <2>5 DEF CountersInv, CountersCoverActive, N
<1>3. ASSUME NEW c, NEW v \in EthValidators, removeValidator(c, v) PROVE CountersInv'
  <2>1. /\ totalPower' = totalPower - powers[v] /\ validatorCount' = validatorCount - 1
        /\ validators' = validators \ {v} /\ powers' = [powers EXCEPT ![v] = 0]
        /\ v \in validators /\ validatorCount >= 1 /\ totalPower >= powers[v] /\ powers[v] \in Nat
    BY <1>0, <1>3, Zenon DEF removeValidator, isActiveValidator
  <2>2. powers' \in [EthValidators -> Nat] /\ \A w \in EthValidators \ {v} : powers'[w] = powers[w]
    BY <1>0, <2>1, Zenon
  <2>3. ActivePower' = S - powers[v] /\ Cardinality(validators') = N - 1
    BY <2>1, <2>2, WithoutOne, Zenon DEF S, N
  <2> QED
    BY <1>0, <2>1, <2>2, <2>3 DEF CountersInv, CountersCoverActive
<1>4. ASSUME NEW c, NEW n \in 0..MaxListed, NEW list \in [1..n -> EthValidators \X Powers],
             updateValset(c, list)
      PROVE  CountersInv'
  <2>0. n \in Nat /\ Len(list) = n
    BY ValsetAssumption
  <2>1. PICK pw, given : /\ pw = [v \in EthValidators |-> ListedPower(list, v)]
                         /\ given = [i \in 1..Len(list) |-> list[i][2]]
    BY Zenon
  <2>2. /\ validators' = Listed(list) /\ powers' = pw /\ validatorCount' = n
        /\ totalPower' = SumFunction(given)
    BY <1>4, <2>0, <2>1, Zenon DEF updateValset
  <2>3. /\ Listed(list) \subseteq EthValidators
        /\ pw \in [EthValidators -> Nat]
        /\ SumFunction(given) \in Nat
        /\ SumFunctionOnSet(pw, Listed(list)) <= SumFunction(given)
        /\ Cardinality(Listed(list)) <= n
    BY <2>0, <2>1, ListCovers, Zenon
  <2>4. SumFunctionOnSet(pw, Listed(list)) \in Int /\ Cardinality(Listed(list)) \in Nat
    <3>1. IsFiniteSet(Listed(list)) /\ \A v \in Listed(list) : pw[v] \in Int
      BY <2>3, ValsetAssumption, FS_Subset
    <3> QED BY <3>1, SumInt, FS_CardinalityType, Zenon
  <2> QED
    BY <2>0, <2>2, <2>3, <2>4, Zenon DEF CountersInv, CountersCoverActive, ActivePower
<1>5. ASSUME NEW c, NEW v \in EthValidators, NEW old, recoverGas(c, old, v) PROVE CountersInv'
  <2>1. /\ totalPower' = totalPower /\ validatorCount' = validatorCount
        /\ validators' = validators \ {v} /\ powers' = [powers EXCEPT ![v] = 0]
    BY <1>5, Zenon DEF recoverGas
  <2>2. powers' \in [EthValidators -> Nat] /\ \A w \in EthValidators \ {v} : powers'[w] = powers[w]
    BY <1>0, <2>1, Zenon
  <2>3. /\ ActivePower' = S - (IF v \in validators THEN powers[v] ELSE 0)
        /\ Cardinality(validators') = N - (IF v \in validators THEN 1 ELSE 0)
        /\ powers[v] \in Nat
    BY <1>0, <2>1, <2>2, WithoutOne, Zenon DEF S, N
  <2> QED
    BY <1>0, <2>1, <2>2, <2>3 DEF CountersInv, CountersCoverActive
<1>6. ASSUME NEW c, NEW new, changeOperator(c, new) PROVE CountersInv'
  BY <1>6, Zenon DEF changeOperator, CountersInv, CountersCoverActive, ActivePower
<1> QED
  BY <1>1, <1>2, <1>3, <1>4, <1>5, <1>6, Zenon DEF ValsetChange

\* The counters never fall short of the active validators, so that SafeMath
\* reverts no removal and no update of an active validator (addValidatorInternal,
\* removeValidator, updateValset and recoverGas of Valset.sol).
THEOREM CountersNeverShort == Spec => []CountersCoverActive
<1>1. Init => CountersInv
  <2> SUFFICES ASSUME Init PROVE CountersInv
    BY Zenon
  <2>1. /\ validators = EthValidators /\ powers = GenesisEthPower
        /\ validatorCount = Cardinality(EthValidators)
        /\ totalPower = SumFunctionOnSet(GenesisEthPower, EthValidators)
    BY ValsetAssumption, Zenon DEF Init, ValsetInit, SumFunction
  <2>2. \A v \in EthValidators : GenesisEthPower[v] \in Nat
    BY ValsetAssumption, Zenon
  <2>3. SumFunctionOnSet(GenesisEthPower, EthValidators) \in Nat /\ Cardinality(EthValidators) \in Nat
    BY <2>2, ValsetAssumption, SumNat, FS_CardinalityType, Zenon
  <2> QED
    BY <2>1, <2>3, ValsetAssumption DEF CountersInv, CountersCoverActive, ActivePower
<1>2. CountersInv /\ [Next]_vars => CountersInv'
  <2> SUFFICES ASSUME CountersInv, [Next]_vars PROVE CountersInv'
    BY Zenon
  <2>1. CASE ValsetActivity
    BY <2>1, ValsetStep, Zenon DEF ValsetActivity
  <2>2. ASSUME UNCHANGED valsetVars PROVE CountersInv'
    BY <2>2, Zenon DEF valsetVars, CountersInv, CountersCoverActive, ActivePower
  <2>3. CASE Claiming
    BY <2>2, <2>3, Zenon DEF Claiming, newProphecyClaim, setBridgeBank
  <2>4. CASE BankActivity
    BY <2>2, <2>4, Zenon DEF BankActivity
  <2>5. CASE UNCHANGED vars
    BY <2>2, <2>5, Zenon DEF vars
  <2> QED
    BY <2>1, <2>3, <2>4, <2>5, Zenon DEF Next
<1>3. CountersInv => CountersCoverActive
  BY Zenon DEF CountersInv
<1> QED
  BY <1>1, <1>2, <1>3, PTL DEF Spec

-----------------------------------------------------------------------------
(* The power behind a prophecy.                                            *)

SignedInv ==
    /\ signedPower \in [Claims -> Nat]
    /\ hasMadeClaim \in [Claims -> SUBSET EthValidators]
    /\ powers \in [EthValidators -> Nat]
    /\ SignedByClaimants

\* The power a prophecy has gathered is that of the validators who claimed it,
\* each counted once, while the validator set stands (newOracleClaim).
THEOREM SignedPowerExact == StableSpec => []SignedByClaimants
<1>1. Init => SignedInv
  BY ValsetAssumption, SumEmpty DEF Init, ValsetInit, SignedInv, SignedByClaimants
<1>2. SignedInv /\ [Claiming \/ BankActivity]_vars => SignedInv'
  <2> SUFFICES ASSUME SignedInv, [Claiming \/ BankActivity]_vars PROVE SignedInv'
    BY Zenon
  <2>1. ASSUME UNCHANGED <<valsetVars, prophecyVars>> PROVE SignedInv'
    BY <2>1, Zenon DEF SignedInv, SignedByClaimants, valsetVars, prophecyVars
  <2>2. ASSUME NEW v \in EthValidators, NEW c \in Claims, newProphecyClaim(v, c) PROVE SignedInv'
    <3>1. /\ v \notin hasMadeClaim[c] /\ powers' = powers
          /\ hasMadeClaim' = [hasMadeClaim EXCEPT ![c] = @ \cup {v}]
          /\ signedPower' = [signedPower EXCEPT ![c] = @ + powers[v]]
      BY <2>2, Zenon DEF newProphecyClaim, newOracleClaim, getValidatorPower, valsetVars
    <3>2. /\ hasMadeClaim[c] \in SUBSET EthValidators
          /\ hasMadeClaim'[c] = hasMadeClaim[c] \cup {v} /\ signedPower'[c] = signedPower[c] + powers[v]
          /\ \A d \in Claims \ {c} : hasMadeClaim'[d] = hasMadeClaim[d] /\ signedPower'[d] = signedPower[d]
          /\ hasMadeClaim' \in [Claims -> SUBSET EthValidators] /\ signedPower' \in [Claims -> Nat]
      BY <3>1 DEF SignedInv
    <3>3. SumFunctionOnSet(powers, hasMadeClaim[c] \cup {v})
            = SumFunctionOnSet(powers, hasMadeClaim[c]) + powers[v]
      <4>1. IsFiniteSet(hasMadeClaim[c])
        BY <3>2, ValsetAssumption, FS_Subset, Zenon
      <4>2. (\A w \in hasMadeClaim[c] : powers[w] \in Int) /\ powers[v] \in Int
        BY <3>2 DEF SignedInv
      <4> QED BY <3>1, <4>1, <4>2, SumAdd, Zenon
    <3>4. ASSUME NEW d \in Claims PROVE signedPower'[d] = SumFunctionOnSet(powers', hasMadeClaim'[d])
      <4>1. signedPower[d] = SumFunctionOnSet(powers, hasMadeClaim[d])
        BY Zenon DEF SignedInv, SignedByClaimants
      <4>2. CASE d = c
        BY <3>1, <3>2, <3>3, <4>1, <4>2, Zenon
      <4>3. CASE d # c
        BY <3>1, <3>2, <4>1, <4>3, Zenon
      <4> QED BY <4>2, <4>3, Zenon
    <3> QED
      BY <3>1, <3>2, <3>4, Zenon DEF SignedInv, SignedByClaimants
  <2>3. ASSUME NEW a \in Callers, setBridgeBank(a) PROVE SignedInv'
    BY <2>1, <2>3, Zenon DEF setBridgeBank
  <2>4. CASE BankActivity
    BY <2>1, <2>4, Zenon DEF BankActivity
  <2>5. CASE UNCHANGED vars
    BY <2>1, <2>5, Zenon DEF vars
  <2> QED
    BY <2>2, <2>3, <2>4, <2>5, Zenon DEF Claiming
<1>3. SignedInv => SignedByClaimants
  BY Zenon DEF SignedInv
<1> QED
  BY <1>1, <1>2, <1>3, PTL DEF StableSpec

-----------------------------------------------------------------------------
(* The money of the bank and its events (BridgeBank.sol).                  *)

Holders == Users \cup {Bank}

LogEntry ==
    [name : {"LogLock", "LogBurn", "LogUnlock", "LogBridgeTokenMint"}, who : Holders,
     token : Tokens, symbol : Symbols, amount : Nat, nonce : Nat, recipient : Recipients \cup Holders]

\* A deposit has a nonce not above the counter, which is what makes the next
\* nonce a new one.
MoneyInv ==
    /\ funds \in [Tokens -> [Holders -> Nat]]
    /\ log \in Seq(LogEntry)
    /\ lockBurnNonce \in Nat
    /\ LogsAccountForFunds
    /\ NoncesIdentifyDeposits
    /\ \A i \in 1..Len(log) : log[i].name \in {"LogLock", "LogBurn"} => log[i].nonce <= lockBurnNonce

\* What the event e says that the bank has gained of a token, and that was added to
\* the supply.
BankGain(e, t) ==
    IF e.token # t THEN 0
    ELSE IF e.name = "LogLock" THEN e.amount ELSE IF e.name = "LogUnlock" THEN - e.amount ELSE 0

SupplyGain(e, t) ==
    IF e.token # t THEN 0
    ELSE IF e.name = "LogBridgeTokenMint" THEN e.amount ELSE IF e.name = "LogBurn" THEN - e.amount ELSE 0

\* A step that emits e: the bank gains no less and the supply no more than e says.
Emits(e) ==
    /\ e \in LogEntry
    /\ log' = Append(log, e)
    /\ funds' \in [Tokens -> [Holders -> Nat]]
    /\ \A t \in Tokens : /\ funds'[t][Bank] >= funds[t][Bank] + BankGain(e, t)
                         /\ Supply(funds', t) <= Supply(funds, t) + SupplyGain(e, t)
    /\ IF e.name \in {"LogLock", "LogBurn"}
       THEN lockBurnNonce' = lockBurnNonce + 1 /\ e.nonce = lockBurnNonce'
       ELSE lockBurnNonce' = lockBurnNonce

\* A step without an event: the bank loses nothing and nothing is minted.
Quiet ==
    /\ UNCHANGED <<log, lockBurnNonce>>
    /\ funds' \in [Tokens -> [Holders -> Nat]]
    /\ \A t \in Tokens : funds'[t][Bank] >= funds[t][Bank] /\ Supply(funds', t) <= Supply(funds, t)

\* A supply is a natural number.
LEMMA SupplyIsNat ==
    ASSUME NEW f \in [Tokens -> [Holders -> Nat]], NEW t \in Tokens PROVE Supply(f, t) \in Nat
<1>1. IsFiniteSet(Holders)
  BY BankAssumption, FS_AddElement, Zenon DEF Holders
<1>2. f[t] \in [Holders -> Nat]
  BY Zenon
<1>3. SumFunctionOnSet(f[t], Holders) \in Nat
  BY <1>1, <1>2, SumNat, Zenon
<1>4. SumFunction(f[t]) = SumFunctionOnSet(f[t], Holders)
  BY <1>2, Zenon DEF SumFunction
<1> QED
  BY <1>3, <1>4, Zenon DEF Supply

\* The bank deploys tokens.
LEMMA DeployedAreTokens == DeployedTokens \subseteq Tokens
<1> SUFFICES ASSUME NEW s \in DOMAIN BridgeTokenOf PROVE BridgeTokenOf[s] \in Tokens
  BY Zenon DEF DeployedTokens
<1> QED
  BY BankAssumption, SMTT(60)

\* One more event adds its amount to the total of its name and token.
LEMMA LoggedGrows ==
    ASSUME log \in Seq(LogEntry), NEW e \in LogEntry, log' = Append(log, e),
           NEW name, NEW t
    PROVE  /\ LoggedAmount(name, t) \in Nat
           /\ LoggedAmount(name, t)'
                = LoggedAmount(name, t) + (IF e.name = name /\ e.token = t THEN e.amount ELSE 0)
<1> DEFINE n == Len(log)
           f == [i \in 1..Len(log) |-> log[i].amount]
           g == [i \in 1..Len(log') |-> log'[i].amount]
           S == Logged({name}, t)
           T == Logged({name}, t)'
<1>1. /\ n \in Nat /\ Len(log') = n + 1 /\ log'[n + 1] = e
      /\ \A i \in 1..n : log'[i] = log[i] /\ log[i] \in LogEntry
  OBVIOUS
<1>2. /\ \A i \in 1..n : f[i] \in Nat /\ g[i] = f[i]
      /\ g[n + 1] = e.amount /\ e.amount \in Nat
  BY <1>1, SMTT(60) DEF LogEntry
<1>3. /\ S \subseteq 1..n
      /\ T = IF e.name = name /\ e.token = t THEN S \cup {n + 1} ELSE S
  BY <1>1, SMTT(60) DEF Logged
<1>4. IsFiniteSet(S)
  <2> HIDE DEF n, S
  <2>1. IsFiniteSet(1..n)
    BY <1>1, FS_Interval
  <2> QED BY <1>3, <2>1, FS_Subset, Zenon
<1>5. LoggedAmount(name, t) = SumFunctionOnSet(f, S) /\ LoggedAmount(name, t)' = SumFunctionOnSet(g, T)
  BY Zenon DEF LoggedAmount
<1> HIDE DEF f, g, S, T, n
<1>6. SumFunctionOnSet(f, S) \in Nat /\ SumFunctionOnSet(g, S) = SumFunctionOnSet(f, S)
  <2>1. \A i \in S : f[i] \in Nat /\ f[i] \in Int /\ g[i] = f[i]
    BY <1>2, <1>3
  <2> QED BY <1>4, <2>1, SumNat, SumCong, Zenon
<1>7. CASE e.name = name /\ e.token = t
  <2>1. T = S \cup {n + 1} /\ n + 1 \notin S
    BY <1>1, <1>3, <1>7
  <2>2. (\A i \in S : g[i] \in Int) /\ g[n + 1] \in Int
    BY <1>2, <1>3
  <2>3. SumFunctionOnSet(g, S \cup {n + 1}) = SumFunctionOnSet(g, S) + g[n + 1]
    BY <1>4, <2>1, <2>2, SumAdd
  <2> QED
    BY <1>2, <1>5, <1>6, <1>7, <2>1, <2>3, Zenon
<1>8. CASE ~(e.name = name /\ e.token = t)
  <2>1. T = S
    BY <1>3, <1>8, Zenon
  <2> QED
    BY <1>5, <1>6, <1>8, <2>1
<1> QED
  BY <1>7, <1>8, Zenon

\* A total of logged amounts is a natural number.
LEMMA LoggedIsNat ==
    ASSUME log \in Seq(LogEntry), NEW name, NEW t PROVE LoggedAmount(name, t) \in Nat
<1> DEFINE f == [i \in 1..Len(log) |-> log[i].amount]
           S == Logged({name}, t)
<1>1. Len(log) \in Nat /\ \A i \in 1..Len(log) : log[i] \in LogEntry
  OBVIOUS
<1>2. \A i \in 1..Len(log) : f[i] \in Nat
  BY <1>1, SMTT(60) DEF LogEntry
<1>3. S \subseteq 1..Len(log)
  BY Zenon DEF Logged
<1>4. IsFiniteSet(1..Len(log))
  BY <1>1, FS_Interval
<1> HIDE DEF f, S
<1>5. IsFiniteSet(S)
  BY <1>3, <1>4, FS_Subset, Zenon
<1>6. SumFunctionOnSet(f, S) \in Nat
  BY <1>2, <1>3, <1>5, SumNat, Zenon
<1> QED BY <1>6, Zenon DEF LoggedAmount, f, S

\* A step that emits an event keeps the invariant.
LEMMA EmitsKeeps ==
    ASSUME MoneyInv, NEW e, Emits(e) PROVE MoneyInv'
<1> DEFINE n == Len(log)
<1>1. /\ e \in LogEntry /\ n \in Nat /\ Len(log') = n + 1 /\ log'[n + 1] = e
      /\ log \in Seq(LogEntry) /\ log' \in Seq(LogEntry) /\ log' = Append(log, e)
      /\ \A i \in 1..n : log'[i] = log[i] /\ log[i] \in LogEntry
  BY SMTT(60) DEF MoneyInv, Emits
<1>2. /\ lockBurnNonce \in Nat /\ lockBurnNonce' \in Nat /\ lockBurnNonce <= lockBurnNonce'
      /\ e.name \in {"LogLock", "LogBurn"} => e.nonce = lockBurnNonce' /\ lockBurnNonce < lockBurnNonce'
  BY SMTT(60) DEF MoneyInv, Emits
<1>3. \A i \in 1..n : log[i].name \in {"LogLock", "LogBurn"} => log[i].nonce <= lockBurnNonce
  BY Zenon DEF MoneyInv
<1> HIDE DEF n
<1>4. \A i \in 1..Len(log') : log'[i].name \in {"LogLock", "LogBurn"} => log'[i].nonce <= lockBurnNonce'
  <2> SUFFICES ASSUME NEW i \in 1..(n + 1), log'[i].name \in {"LogLock", "LogBurn"}
               PROVE  log'[i].nonce <= lockBurnNonce'
    BY <1>1, Zenon
  <2>1. CASE i = n + 1
    BY <1>1, <1>2, <2>1
  <2>2. CASE i \in 1..n
    <3>1. log[i].nonce \in Nat /\ log[i].nonce <= lockBurnNonce
      BY <1>1, <1>3, <2>2, Zenon DEF LogEntry
    <3> QED BY <1>1, <1>2, <2>2, <3>1
  <2> QED BY <1>1, <2>1, <2>2
<1> DEFINE Deposit(i) == log[i].name \in {"LogLock", "LogBurn"}
           DepositN(i) == log'[i].name \in {"LogLock", "LogBurn"}
<1>5. \A i, j \in 1..n : Deposit(i) /\ Deposit(j) /\ i # j => log[i].nonce # log[j].nonce
  <2>1. ASSUME NEW i \in 1..n, Deposit(i)
        PROVE  i \in UNION {Logged({"LogLock", "LogBurn"}, t) : t \in Tokens}
    <3>1. log[i].token \in Tokens
      BY <1>1, Zenon DEF LogEntry
    <3>2. i \in Logged({"LogLock", "LogBurn"}, log[i].token)
      BY <2>1, Zenon DEF Logged, n
    <3> QED BY <3>1, <3>2, Zenon
  <2> QED
    BY <2>1, Zenon DEF MoneyInv, NoncesIdentifyDeposits
<1>6. \A i, j \in 1..(n + 1) : DepositN(i) /\ DepositN(j) /\ i # j => log'[i].nonce # log'[j].nonce
  <2> SUFFICES ASSUME NEW i \in 1..(n + 1), NEW j \in 1..(n + 1), DepositN(i), DepositN(j), i < j
               PROVE  log'[i].nonce # log'[j].nonce
    BY <1>1, SMTT(60)
  <2>1. i \in 1..n
    BY <1>1, SMTT(60)
  <2>2. CASE j \in 1..n
    BY <1>1, <1>5, <2>1, <2>2, SMTT(60)
  <2>3. CASE j = n + 1
    <3>1. log[i].nonce \in Nat /\ log[i].nonce <= lockBurnNonce
      BY <1>1, <1>3, <2>1, Zenon DEF LogEntry
    <3>2. log'[j].nonce = lockBurnNonce' /\ lockBurnNonce < lockBurnNonce'
      BY <1>1, <1>2, <2>3, Zenon
    <3> QED BY <1>1, <1>2, <2>1, <3>1, <3>2, SMTT(60)
  <2> QED BY <1>1, <2>2, <2>3, SMTT(60)
<1>7. NoncesIdentifyDeposits'
  BY <1>1, <1>6, Zenon DEF NoncesIdentifyDeposits, Logged
<1>8. LogsAccountForFunds'
  <2>1. ASSUME NEW t \in Tokens
        PROVE  /\ funds'[t][Bank] + LoggedAmount("LogUnlock", t)'
                     >= StartFunds[t][Bank] + LoggedAmount("LogLock", t)'
               /\ t \in DeployedTokens =>
                     Supply(funds', t) + LoggedAmount("LogBurn", t)'
                       <= Supply(StartFunds, t) + LoggedAmount("LogBridgeTokenMint", t)'
    <3> DEFINE Before(name) == LoggedAmount(name, t)
               After(name) == LoggedAmount(name, t)'
    <3>1. ASSUME NEW name
          PROVE  Before(name) \in Nat /\ After(name) = Before(name) + (IF e.name = name /\ e.token = t THEN e.amount ELSE 0)
      BY <1>1, <2>1, LoggedGrows, SMTT(60)
    <3>2. /\ funds[t][Bank] + Before("LogUnlock") >= StartFunds[t][Bank] + Before("LogLock")
          /\ t \in DeployedTokens =>
                Supply(funds, t) + Before("LogBurn") <= Supply(StartFunds, t) + Before("LogBridgeTokenMint")
      BY <2>1, Zenon DEF MoneyInv, LogsAccountForFunds
    <3>3. /\ funds'[t][Bank] >= funds[t][Bank] + BankGain(e, t)
          /\ Supply(funds', t) <= Supply(funds, t) + SupplyGain(e, t)
      BY <2>1, Zenon DEF Emits
    <3>4. /\ e.amount \in Nat /\ e.name \in {"LogLock", "LogBurn", "LogUnlock", "LogBridgeTokenMint"}
      BY <1>1, Zenon DEF LogEntry
    <3>5. /\ funds \in [Tokens -> [Holders -> Nat]] /\ funds' \in [Tokens -> [Holders -> Nat]]
          /\ StartFunds \in [Tokens -> [Holders -> Nat]] /\ Bank \in Holders
      BY BankAssumption, Zenon DEF MoneyInv, Emits, Holders
    <3>6. funds[t][Bank] \in Nat /\ StartFunds[t][Bank] \in Nat /\ funds'[t][Bank] \in Nat
      BY <2>1, <3>5, Zenon
    <3>7. Supply(funds, t) \in Nat /\ Supply(StartFunds, t) \in Nat /\ Supply(funds', t) \in Nat
      BY <2>1, <3>5, SupplyIsNat, Zenon
    <3> HIDE DEF Before, After
    <3>8. funds'[t][Bank] + After("LogUnlock") >= StartFunds[t][Bank] + After("LogLock")
      BY <3>1, <3>2, <3>3, <3>4, <3>6, SMTT(60) DEF BankGain
    <3>9. t \in DeployedTokens =>
             Supply(funds', t) + After("LogBurn") <= Supply(StartFunds, t) + After("LogBridgeTokenMint")
      BY <3>1, <3>2, <3>3, <3>4, <3>7, SMTT(60) DEF SupplyGain
    <3> QED BY <3>8, <3>9, Zenon DEF After
  <2>2. \A t \in DeployedTokens : t \in Tokens
    BY DeployedAreTokens, Zenon
  <2> QED BY <2>1, <2>2, Zenon DEF LogsAccountForFunds
<1>9. funds' \in [Tokens -> [Holders -> Nat]]
  BY Zenon DEF Emits
<1> QED
  BY <1>1, <1>2, <1>4, <1>7, <1>8, <1>9, Zenon DEF MoneyInv

\* So does a step without an event.
LEMMA QuietKeeps ==
    ASSUME MoneyInv, Quiet PROVE MoneyInv'
<1>1. /\ log' = log /\ lockBurnNonce' = lockBurnNonce /\ funds' \in [Tokens -> [Holders -> Nat]]
      /\ funds \in [Tokens -> [Holders -> Nat]] /\ StartFunds \in [Tokens -> [Holders -> Nat]]
      /\ Bank \in Holders /\ log \in Seq(LogEntry)
  BY BankAssumption, Zenon DEF Quiet, MoneyInv, Holders
<1>2. \A names, t : Logged(names, t)' = Logged(names, t)
  BY <1>1, Zenon DEF Logged
<1>3. \A name, t : LoggedAmount(name, t)' = LoggedAmount(name, t)
  BY <1>1, <1>2, Zenon DEF LoggedAmount
<1>4. ASSUME NEW t \in Tokens
      PROVE  /\ funds'[t][Bank] + LoggedAmount("LogUnlock", t) >= StartFunds[t][Bank] + LoggedAmount("LogLock", t)
             /\ t \in DeployedTokens =>
                   Supply(funds', t) + LoggedAmount("LogBurn", t)
                     <= Supply(StartFunds, t) + LoggedAmount("LogBridgeTokenMint", t)
  <2>1. \A name : LoggedAmount(name, t) \in Nat
    BY <1>1, <1>4, LoggedIsNat, Zenon
  <2>2. /\ funds[t][Bank] + LoggedAmount("LogUnlock", t) >= StartFunds[t][Bank] + LoggedAmount("LogLock", t)
        /\ t \in DeployedTokens =>
              Supply(funds, t) + LoggedAmount("LogBurn", t)
                <= Supply(StartFunds, t) + LoggedAmount("LogBridgeTokenMint", t)
    BY <1>4, Zenon DEF MoneyInv, LogsAccountForFunds
  <2>3. funds'[t][Bank] >= funds[t][Bank] /\ Supply(funds', t) <= Supply(funds, t)
    BY <1>4, Zenon DEF Quiet
  <2>4. funds[t][Bank] \in Nat /\ funds'[t][Bank] \in Nat /\ StartFunds[t][Bank] \in Nat
    BY <1>1, <1>4, Zenon
  <2>5. Supply(funds, t) \in Nat /\ Supply(funds', t) \in Nat /\ Supply(StartFunds, t) \in Nat
    BY <1>1, <1>4, SupplyIsNat, Zenon
  <2> QED BY <2>1, <2>2, <2>3, <2>4, <2>5, SMTT(60)
<1>5. LogsAccountForFunds'
  <2>1. \A t \in DeployedTokens : t \in Tokens
    BY DeployedAreTokens, Zenon
  <2> QED BY <1>3, <1>4, <2>1, Zenon DEF LogsAccountForFunds
<1>6. NoncesIdentifyDeposits'
  BY <1>1, <1>2, Zenon DEF MoneyInv, NoncesIdentifyDeposits
<1> QED
  BY <1>1, <1>5, <1>6, Zenon DEF MoneyInv

\* A token is listed under its own symbol, and lowerToUpperTokens maps a symbol to
\* a token's symbol that it is the lower-case spelling of.
TableInv ==
    /\ lockedTokenList \in [Symbols -> Tokens]
    /\ controlledBridgeTokens \in [Symbols -> Tokens]
    /\ lowerToUpperTokens \in [Symbols -> Symbols \cup {NoSymbol}]
    /\ \A s \in Symbols : lockedTokenList[s] # Ether => TokenSymbol[lockedTokenList[s]] = s
    /\ \A s \in Symbols : lowerToUpperTokens[s] # NoSymbol =>
           \E t \in Tokens : lowerToUpperTokens[s] = TokenSymbol[t] /\ Lower[TokenSymbol[t]] = s

\* How the symbol tables change in any step: a token is listed as locked under its
\* symbol, and a symbol is given the spelling of a token's symbol.
TableStep ==
    /\ controlledBridgeTokens' \in [Symbols -> Tokens]
    /\ \/ lockedTokenList' = lockedTokenList
       \/ \E t \in Tokens : lockedTokenList' = [lockedTokenList EXCEPT ![TokenSymbol[t]] = t]
    /\ lowerToUpperTokens' \in [Symbols -> Symbols \cup {NoSymbol}]
    /\ \A s \in Symbols : lowerToUpperTokens'[s] # lowerToUpperTokens[s] =>
           \E t \in Tokens : lowerToUpperTokens'[s] = TokenSymbol[t] /\ Lower[TokenSymbol[t]] = s

\* Such a step keeps the tables well formed.
LEMMA TableStepKeeps == TableInv /\ TableStep => TableInv'
<1> SUFFICES ASSUME TableInv, TableStep PROVE TableInv'
  BY Zenon
<1>1. /\ lockedTokenList' \in [Symbols -> Tokens]
      /\ \A s \in Symbols : lockedTokenList'[s] # Ether => TokenSymbol[lockedTokenList'[s]] = s
  <2>1. /\ lockedTokenList \in [Symbols -> Tokens]
        /\ \A s \in Symbols : lockedTokenList[s] # Ether => TokenSymbol[lockedTokenList[s]] = s
    BY Zenon DEF TableInv
  <2>2. CASE lockedTokenList' = lockedTokenList
    BY <2>1, <2>2, Zenon
  <2>3. ASSUME NEW t \in Tokens, lockedTokenList' = [lockedTokenList EXCEPT ![TokenSymbol[t]] = t]
        PROVE  <1>1!1 /\ <1>1!2
    BY <2>1, <2>3, Zenon
  <2> QED
    BY <2>2, <2>3, Zenon DEF TableStep
<1>2. \A s \in Symbols : lowerToUpperTokens'[s] # NoSymbol =>
           \E t \in Tokens : lowerToUpperTokens'[s] = TokenSymbol[t] /\ Lower[TokenSymbol[t]] = s
  BY SMTT(60) DEF TableInv, TableStep
<1> QED
  BY <1>1, <1>2, Zenon DEF TableInv, TableStep

\* Registering a token under the lower-case spelling of its symbol is such a step.
LEMMA RegisterIsTableStep ==
    ASSUME TableInv, NEW t \in Tokens,
           lowerToUpperTokens' = [lowerToUpperTokens EXCEPT ![Lower[TokenSymbol[t]]] = TokenSymbol[t]],
           controlledBridgeTokens' \in [Symbols -> Tokens],
           lockedTokenList' = lockedTokenList
    PROVE  TableStep
<1>1. TokenSymbol[t] \in Symbols /\ Lower[TokenSymbol[t]] \in Symbols
  BY BankAssumption, Zenon
<1>2. lowerToUpperTokens \in [Symbols -> Symbols \cup {NoSymbol}]
  BY Zenon DEF TableInv
<1>3. lowerToUpperTokens' \in [Symbols -> Symbols \cup {NoSymbol}]
  BY <1>1, <1>2, Zenon
<1>4. \A s \in Symbols : lowerToUpperTokens'[s] # lowerToUpperTokens[s] =>
           lowerToUpperTokens'[s] = TokenSymbol[t] /\ Lower[TokenSymbol[t]] = s
  BY <1>1, <1>2, Zenon
<1> QED
  BY <1>3, <1>4, Zenon DEF TableStep

\* Every step changes the tables in these ways only.
LEMMA NextIsTableStep == TableInv /\ [Next]_vars => TableStep
<1> SUFFICES ASSUME TableInv, [Next]_vars PROVE TableStep
  BY Zenon
<1>1. ASSUME UNCHANGED <<lockedTokenList, controlledBridgeTokens, lowerToUpperTokens>> PROVE TableStep
  BY <1>1, Zenon DEF TableInv, TableStep
<1>2. ASSUME UNCHANGED bankVars PROVE TableStep
  BY <1>1, <1>2, Zenon DEF bankVars, tokenVars
<1>3. ASSUME NEW v \in EthValidators, NEW c \in Claims, newProphecyClaim(v, c) PROVE TableStep
  <2>1. FirstClaim(c) /\ lockedTokenList' = lockedTokenList
    BY <1>3, Zenon DEF newProphecyClaim
  <2> DEFINE symbol == safeLowerToUpperTokens(c.symbol)
  <2>2. CASE Deploys(c)
    <3>1. createNewBridgeToken(symbol)
      BY <2>1, <2>2, Zenon DEF FirstClaim
    <3> HIDE DEF symbol
    <3>2. PICK t \in Tokens : t = BridgeTokenOf[symbol] /\ TokenSymbol[t] = symbol
      BY <3>1, BankAssumption, Zenon DEF createNewBridgeToken
    <3>3. /\ controlledBridgeTokens' = [controlledBridgeTokens EXCEPT ![symbol] = t]
          /\ lowerToUpperTokens' = [lowerToUpperTokens EXCEPT ![Lower[TokenSymbol[t]]] = TokenSymbol[t]]
      BY <3>1, <3>2, Zenon DEF createNewBridgeToken
    <3>4. controlledBridgeTokens' \in [Symbols -> Tokens]
      BY <3>3, Zenon DEF TableInv
    <3> QED BY <2>1, <3>3, <3>4, RegisterIsTableStep, Zenon
  <2>3. CASE ~Deploys(c)
    BY <1>1, <2>1, <2>3, Zenon DEF FirstClaim
  <2> QED BY <2>2, <2>3, Zenon
<1>4. ASSUME NEW u \in Users, NEW r \in Recipients, NEW t \in Tokens, NEW n \in LockAmounts, lock(u, r, t, n)
      PROVE  TableStep
  BY <1>4, Zenon DEF lock, TableInv, TableStep
<1>5. ASSUME NEW u \in Users, NEW r \in Recipients, NEW t \in Tokens, NEW n \in LockAmounts, burn(u, r, t, n)
      PROVE  TableStep
  BY <1>1, <1>5, Zenon DEF burn, tokenVars
<1>6. CASE HolderActivity
  BY <1>1, <1>6, Zenon DEF HolderActivity, transfer, burnOwn, tokenVars
<1>7. CASE TokenAdministration
  <2>1. ASSUME NEW a, NEW t \in ERC20s, addExistingBridgeToken(a, t) PROVE TableStep
    <3>1. t \in Tokens /\ TokenSymbol[t] \in Symbols
      BY BankAssumption, Zenon DEF ERC20s
    <3>2. controlledBridgeTokens' \in [Symbols -> Tokens]
      BY <2>1, <3>1, Zenon DEF addExistingBridgeToken, TableInv
    <3> QED BY <2>1, <3>1, <3>2, RegisterIsTableStep, Zenon DEF addExistingBridgeToken
  <2>2. ASSUME NEW a, NEW t \in ERC20s, NEW b, updateEthWhiteList(a, t, b) PROVE TableStep
    <3>1. t \in Tokens
      BY Zenon DEF ERC20s
    <3>2. controlledBridgeTokens' \in [Symbols -> Tokens]
      BY <2>2, Zenon DEF updateEthWhiteList, TableInv
    <3> QED BY <2>2, <3>1, <3>2, RegisterIsTableStep, Zenon DEF updateEthWhiteList
  <2>3. ASSUME NEW a, NEW ts \in [1..2 -> ERC20s], bulkWhitelistUpdateLimits(a, ts) PROVE TableStep
    <3> DEFINE upperOf(s) == {i \in 1..Len(ts) : Lower[TokenSymbol[ts[i]]] = s}
    <3>1. /\ lowerToUpperTokens' = [s \in Symbols |-> IF upperOf(s) = {} THEN lowerToUpperTokens[s]
                                                     ELSE TokenSymbol[ts[Max(upperOf(s))]]]
          /\ lockedTokenList' = lockedTokenList /\ controlledBridgeTokens' = controlledBridgeTokens
      BY <2>3, Zenon DEF bulkWhitelistUpdateLimits
    <3>2. Len(ts) = 2 /\ \A i \in 1..2 : ts[i] \in Tokens /\ TokenSymbol[ts[i]] \in Symbols
      BY BankAssumption DEF ERC20s
    <3>3. ASSUME NEW s, upperOf(s) # {} PROVE Max(upperOf(s)) \in upperOf(s)
      <4>1. \E m \in upperOf(s) : \A i \in upperOf(s) : i <= m
        BY <3>2, <3>3, SMTT(60)
      <4> QED BY <4>1, Zenon DEF Max
    <3>4. ASSUME NEW s \in Symbols, upperOf(s) # {}
          PROVE  \E t \in Tokens : lowerToUpperTokens'[s] = TokenSymbol[t] /\ Lower[TokenSymbol[t]] = s
      <4>1. PICK i \in 1..2 : i = Max(upperOf(s)) /\ Lower[TokenSymbol[ts[i]]] = s
        BY <3>2, <3>3, <3>4, Zenon
      <4>2. lowerToUpperTokens'[s] = TokenSymbol[ts[i]]
        BY <3>1, <3>4, <4>1, Zenon
      <4> QED BY <3>2, <4>1, <4>2, Zenon
    <3>5. ASSUME NEW s \in Symbols, upperOf(s) = {}
          PROVE  lowerToUpperTokens'[s] = lowerToUpperTokens[s]
      BY <3>1, <3>5, Zenon
    <3> HIDE DEF upperOf
    <3>6. lowerToUpperTokens' \in [Symbols -> Symbols \cup {NoSymbol}]
      <4>1. \A s \in Symbols : lowerToUpperTokens'[s] \in Symbols \cup {NoSymbol}
        <5>1. \A t \in Tokens : TokenSymbol[t] \in Symbols
          BY BankAssumption, Zenon
        <5>2. \A s \in Symbols : lowerToUpperTokens[s] \in Symbols \cup {NoSymbol}
          BY Zenon DEF TableInv
        <5>3. ASSUME NEW s \in Symbols PROVE lowerToUpperTokens'[s] \in Symbols \cup {NoSymbol}
          BY <3>4, <3>5, <5>1, <5>2, Zenon
        <5> QED BY <5>3, Zenon
      <4> QED BY <3>1, <4>1, Zenon
    <3> QED BY <3>1, <3>4, <3>5, <3>6, Zenon DEF TableStep, TableInv
  <2> QED BY <1>7, <2>1, <2>2, <2>3, Zenon DEF TokenAdministration
<1>8. CASE SafetySwitches
  <2>1. UNCHANGED tokenVars
    BY <1>8, Zenon DEF SafetySwitches, pause, unpause, renouncePauser, setBlocklist, BlocklistChanges,
                addPauser, changeOwner, changeBankOperator
  <2> QED BY <1>1, <2>1, Zenon DEF tokenVars
<1>9. ASSUME NEW a \in Callers, setBridgeBank(a) PROVE TableStep
  BY <1>2, <1>9, Zenon DEF setBridgeBank
<1>10. CASE ValsetActivity
  BY <1>2, <1>10, Zenon DEF ValsetActivity
<1>11. CASE UNCHANGED vars
  BY <1>2, <1>11, Zenon DEF vars
<1> QED
  BY <1>3, <1>4, <1>5, <1>7, <1>8, <1>9, <1>10, <1>11, <1>6, Zenon DEF Next, Claiming, BankActivity, Deposits

\* The tables are well formed in every reachable state.
THEOREM TablesWellFormed == Spec => []TableInv
<1>1. Init => TableInv
  BY BankAssumption, SMTT(60) DEF Init, BankInit, TableInv
<1>2. TableInv /\ [Next]_vars => TableInv'
  BY NextIsTableStep, TableStepKeeps, Zenon
<1> QED
  BY <1>1, <1>2, PTL DEF Spec

\* The supply of a token after a change of one balance.
LEMMA SupplyOneChange ==
    ASSUME NEW b \in [Holders -> Nat], NEW d \in [Holders -> Nat], NEW h \in Holders,
           \A k \in Holders \ {h} : d[k] = b[k]
    PROVE  SumFunction(b) \in Nat /\ SumFunction(d) = SumFunction(b) - b[h] + d[h]
<1>1. IsFiniteSet(Holders)
  BY BankAssumption, FS_AddElement, Zenon DEF Holders
<1>2. SumFunction(b) = SumFunctionOnSet(b, Holders) /\ SumFunction(d) = SumFunctionOnSet(d, Holders)
  BY Zenon DEF SumFunction
<1>3. SumFunctionOnSet(b, Holders) \in Nat
  BY <1>1, SumNat, Zenon
<1>4. (\A k \in Holders : b[k] \in Int) /\ d[h] \in Int
  OBVIOUS
<1>5. SumFunctionOnSet(d, Holders) = SumFunctionOnSet(b, Holders) - b[h] + d[h]
  BY <1>1, <1>4, SumUpdate, SMTT(60)
<1> QED
  BY <1>2, <1>3, <1>5, Zenon

\* A transfer leaves the supply as it was.
LEMMA SupplyTransfer ==
    ASSUME NEW b \in [Holders -> Nat], NEW d \in [Holders -> Nat],
           NEW from \in Holders, NEW to \in Holders, from # to,
           NEW amount \in Nat, amount <= b[from],
           d[from] = b[from] - amount, d[to] = b[to] + amount,
           \A k \in Holders \ {from, to} : d[k] = b[k]
    PROVE  SumFunction(d) = SumFunction(b)
<1> DEFINE m == [b EXCEPT ![from] = b[from] - amount]
<1>1. /\ m \in [Holders -> Nat] /\ m[from] = b[from] - amount /\ m[to] = b[to]
      /\ \A k \in Holders \ {from} : m[k] = b[k]
      /\ \A k \in Holders \ {to} : d[k] = m[k]
  BY Zenon
<1> HIDE DEF m
<1>2. SumFunction(b) \in Nat /\ SumFunction(m) = SumFunction(b) - b[from] + m[from]
  BY <1>1, SupplyOneChange, Zenon
<1>3. SumFunction(m) \in Nat /\ SumFunction(d) = SumFunction(m) - m[to] + d[to]
  BY <1>1, SupplyOneChange, Zenon
<1>4. b[from] \in Nat /\ b[to] \in Nat
  BY Zenon
<1> QED
  BY <1>1, <1>2, <1>3, <1>4, SMTT(60)

\* A transfer moves the amount from one holder to the other, who may be the same, and
\* leaves every supply as it was.
LEMMA TransferMoves ==
    ASSUME funds \in [Tokens -> [Holders -> Nat]], NEW t \in Tokens,
           NEW from \in Holders, NEW to \in Holders, NEW n \in Nat,
           funds[t][from] >= n, Transfer(t, from, to, n)
    PROVE  /\ funds' \in [Tokens -> [Holders -> Nat]]
           /\ \A k \in Tokens : Supply(funds', k) = Supply(funds, k)
           /\ \A k \in Tokens \ {t} : funds'[k] = funds[k]
           /\ \A h \in Holders : h # from => funds'[t][h] >= funds[t][h]
           /\ to # from => funds'[t][to] = funds[t][to] + n
           /\ funds'[t][from] >= funds[t][from] - n
<1> DEFINE b == funds[t]  d == funds'[t]
<1>0. b \in [Holders -> Nat] /\ b[from] \in Nat /\ b[to] \in Nat /\ b[from] - n \in Nat /\ n <= b[from]
  OBVIOUS
<1>1. CASE from = to
  <2>1. funds'[t][from] = funds[t][from] - n + n /\ \A h \in Holders \ {from} : funds'[t][h] = funds[t][h]
    BY <1>0, <1>1, SMTT(60) DEF Transfer
  <2>2. funds' \in [Tokens -> [Holders -> Nat]] /\ \A k \in Tokens \ {t} : funds'[k] = funds[k]
    BY <1>0, <1>1, SMTT(60) DEF Transfer
  <2>3. d = b
    <3>1. \A h \in Holders : d[h] = b[h]
      BY <1>0, <2>1, SMTT(60)
    <3>2. d \in [Holders -> Nat]
      BY <2>2, Zenon
    <3> QED BY <1>0, <3>1, <3>2, SMTT(60)
  <2>4. \A k \in Tokens : funds'[k] = funds[k]
    BY <2>2, <2>3, Zenon
  <2> QED BY <1>0, <1>1, <2>2, <2>3, <2>4 DEF Supply
<1>2. CASE from # to
  <2>1. /\ funds' \in [Tokens -> [Holders -> Nat]]
        /\ \A k \in Tokens \ {t} : funds'[k] = funds[k]
        /\ \A h \in Holders \ {from, to} : funds'[t][h] = funds[t][h]
        /\ funds'[t][from] = funds[t][from] - n
        /\ funds'[t][to] = funds[t][to] + n
    BY <1>0, <1>2, SMTT(60) DEF Transfer
  <2>2. /\ d \in [Holders -> Nat] /\ d[from] = b[from] - n /\ d[to] = b[to] + n
        /\ \A h \in Holders \ {from, to} : d[h] = b[h]
    BY <2>1, Zenon
  <2>3. SumFunction(d) = SumFunction(b)
    <3> HIDE DEF b, d
    <3> QED BY <1>0, <1>2, <2>2, SupplyTransfer, ZenonT(60)
  <2>4. \A k \in Tokens : Supply(funds', k) = Supply(funds, k)
    BY <2>1, <2>3, Zenon DEF Supply
  <2>5. \A h \in Holders : h # from => funds'[t][h] >= funds[t][h]
    BY <1>0, <2>1, SMTT(60)
  <2>6. funds'[t][from] >= funds[t][from] - n
    BY <1>0, <2>1, SMTT(60)
  <2> QED BY <2>1, <2>4, <2>5, <2>6, Zenon
<1> QED BY <1>1, <1>2, Zenon

\* The step sets the balance of h to v.
SetsBalance(t, h, v) == funds' = [funds EXCEPT ![t][h] = v]

\* What it leaves behind.
BalanceSet(t, h, v) ==
    /\ funds' \in [Tokens -> [Holders -> Nat]]
    /\ \A k \in Tokens \ {t} : funds'[k] = funds[k]
    /\ \A k \in Holders \ {h} : funds'[t][k] = funds[t][k]
    /\ funds'[t][h] = v
    /\ Supply(funds, t) \in Nat
    /\ Supply(funds', t) = Supply(funds, t) - funds[t][h] + v

\* A change of one balance changes one supply.
LEMMA OneBalance ==
    ASSUME funds \in [Tokens -> [Holders -> Nat]], NEW t \in Tokens, NEW h \in Holders, NEW v \in Nat,
           SetsBalance(t, h, v)
    PROVE  BalanceSet(t, h, v)
<1>1. /\ funds' \in [Tokens -> [Holders -> Nat]]
      /\ \A k \in Tokens \ {t} : funds'[k] = funds[k]
      /\ \A k \in Holders \ {h} : funds'[t][k] = funds[t][k]
      /\ funds'[t][h] = v
  BY DEF SetsBalance
<1> DEFINE b == funds[t]  d == funds'[t]
<1>2. b \in [Holders -> Nat] /\ d \in [Holders -> Nat] /\ \A k \in Holders \ {h} : d[k] = b[k]
  BY <1>1, Zenon
<1>3. SumFunction(b) \in Nat /\ SumFunction(d) = SumFunction(b) - b[h] + d[h]
  <2> HIDE DEF b, d
  <2> QED BY <1>2, SupplyOneChange, Zenon
<1> QED BY <1>1, <1>3, Zenon DEF Supply, BalanceSet

\* A step that logs e, changes the balances of its token and no other, and lets the
\* bank gain no less and the supply no more than e says.
LEMMA TokenEmits ==
    ASSUME funds \in [Tokens -> [Holders -> Nat]], NEW e \in LogEntry, log' = Append(log, e),
           funds' \in [Tokens -> [Holders -> Nat]],
           \A k \in Tokens \ {e.token} : funds'[k] = funds[k],
           funds'[e.token][Bank] >= funds[e.token][Bank] + BankGain(e, e.token),
           Supply(funds', e.token) <= Supply(funds, e.token) + SupplyGain(e, e.token),
           IF e.name \in {"LogLock", "LogBurn"}
           THEN lockBurnNonce' = lockBurnNonce + 1 /\ e.nonce = lockBurnNonce'
           ELSE lockBurnNonce' = lockBurnNonce
    PROVE  \E k : Emits(k)
<1>1. ASSUME NEW t \in Tokens, t # e.token
      PROVE  /\ funds'[t][Bank] >= funds[t][Bank] + BankGain(e, t)
             /\ Supply(funds', t) <= Supply(funds, t) + SupplyGain(e, t)
  <2>1. funds'[t] = funds[t] /\ BankGain(e, t) = 0 /\ SupplyGain(e, t) = 0
    BY <1>1, Zenon DEF BankGain, SupplyGain
  <2>2. Supply(funds', t) = Supply(funds, t)
    BY <2>1, Zenon DEF Supply
  <2>3. Supply(funds, t) \in Nat /\ funds[t][Bank] \in Nat
    BY <1>1, SupplyIsNat, Zenon DEF Holders
  <2> QED BY <2>1, <2>2, <2>3, SMTT(60)
<1>2. Emits(e)
  BY <1>1, Zenon DEF Emits
<1> QED
  BY <1>2, Zenon

\* The four functions that emit events: lock moves the amount to the bank.
LEMMA LockMoves ==
    ASSUME funds \in [Tokens -> [Holders -> Nat]], lockBurnNonce \in Nat,
           NEW u \in Users, NEW r \in Recipients, NEW t \in Tokens, NEW n \in LockAmounts,
           lock(u, r, t, n)
    PROVE  \E e : Emits(e)
<1> DEFINE e == Event("LogLock", u, t, TokenSymbol[t], n, lockBurnNonce', r)
<1>1. /\ log' = Append(log, e) /\ lockBurnNonce' = lockBurnNonce + 1
      /\ funds[t][u] >= n /\ Transfer(t, u, Bank, n)
  BY Zenon DEF lock
<1>2. /\ n \in Nat /\ TokenSymbol[t] \in Symbols /\ u # Bank /\ u \in Holders /\ Bank \in Holders
  BY BankAssumption, Zenon DEF Holders
<1>3. e \in LogEntry
  BY <1>1, <1>2, SMTT(60) DEF LogEntry, Event
<1>4. e.name = "LogLock" /\ e.token = t /\ e.amount = n /\ e.nonce = lockBurnNonce'
  BY Zenon DEF Event
<1> HIDE DEF e
<1>5. /\ funds' \in [Tokens -> [Holders -> Nat]] /\ \A k \in Tokens \ {t} : funds'[k] = funds[k]
      /\ Supply(funds', t) = Supply(funds, t) /\ funds'[t][Bank] = funds[t][Bank] + n
  BY <1>1, <1>2, TransferMoves, Zenon
<1>6. BankGain(e, t) = n /\ SupplyGain(e, t) = 0
  BY <1>4, Zenon DEF BankGain, SupplyGain
<1>7. Supply(funds, t) \in Nat /\ funds[t][Bank] \in Nat
  BY <1>2, SupplyIsNat, Zenon
<1>8. funds'[t][Bank] >= funds[t][Bank] + BankGain(e, t) /\ Supply(funds', t) <= Supply(funds, t) + SupplyGain(e, t)
  BY <1>2, <1>5, <1>6, <1>7, SMTT(60)
<1> QED
  BY <1>1, <1>3, <1>4, <1>5, <1>8, TokenEmits, Zenon

\* burn takes the tokens of the sender out of the supply.
LEMMA BurnMoves ==
    ASSUME funds \in [Tokens -> [Holders -> Nat]], lockBurnNonce \in Nat,
           NEW u \in Users, NEW r \in Recipients, NEW t \in Tokens, NEW n \in LockAmounts,
           burn(u, r, t, n)
    PROVE  \E e : Emits(e)
<1> DEFINE e == Event("LogBurn", u, t, TokenSymbol[t], n, lockBurnNonce', r)
<1>1. /\ log' = Append(log, e) /\ lockBurnNonce' = lockBurnNonce + 1
      /\ funds[t][u] >= n /\ SetsBalance(t, u, funds[t][u] - n)
  BY Zenon DEF burn, SetsBalance
<1>2. /\ n \in Nat /\ TokenSymbol[t] \in Symbols /\ u # Bank /\ u \in Holders /\ Bank \in Holders
  BY BankAssumption, Zenon DEF Holders
<1>3. e \in LogEntry
  BY <1>1, <1>2, SMTT(60) DEF LogEntry, Event
<1>4. e.name = "LogBurn" /\ e.token = t /\ e.amount = n /\ e.nonce = lockBurnNonce'
  BY Zenon DEF Event
<1> HIDE DEF e
<1>5. funds[t][u] \in Nat /\ funds[t][u] - n \in Nat
  BY <1>1, <1>2, SMTT(60)
<1>6. PICK left \in Nat : left = funds[t][u] - n /\ SetsBalance(t, u, left)
  BY <1>1, <1>5, Zenon
<1>7. BalanceSet(t, u, left)
  BY <1>2, <1>6, OneBalance, Zenon
<1>8. /\ funds' \in [Tokens -> [Holders -> Nat]] /\ \A k \in Tokens \ {t} : funds'[k] = funds[k]
      /\ Supply(funds, t) \in Nat /\ Supply(funds', t) = Supply(funds, t) - funds[t][u] + left
      /\ funds'[t][Bank] = funds[t][Bank]
  BY <1>2, <1>7, Zenon DEF BalanceSet
<1>9. BankGain(e, t) = 0 /\ SupplyGain(e, t) = -n
  BY <1>4, Zenon DEF BankGain, SupplyGain
<1>10. funds[t][Bank] \in Nat
  BY <1>2, Zenon
<1>11. funds'[t][Bank] >= funds[t][Bank] + BankGain(e, t) /\ Supply(funds', t) <= Supply(funds, t) + SupplyGain(e, t)
  BY <1>2, <1>5, <1>8, <1>9, <1>10, <1>6, SMTT(60)
<1> QED
  BY <1>1, <1>3, <1>4, <1>8, <1>11, TokenEmits, Zenon

\* unlock moves what the bank holds of the token found for the symbol, if only to
\* the bank itself.
LEMMA UnlockMoves ==
    ASSUME TableInv, funds \in [Tokens -> [Holders -> Nat]], lockBurnNonce \in Nat,
           NEW u \in Holders, NEW s \in Symbols, NEW n \in Nat,
           unlock(u, s, n), lockBurnNonce' = lockBurnNonce
    PROVE  \E e : Emits(e)
<1> DEFINE symbol == safeLowerToUpperTokens(s)
           t == lockedTokenList[symbol]
           e == Event("LogUnlock", u, t, symbol, n, lockBurnNonce, u)
<1>1. /\ log' = Append(log, e) /\ funds[t][Bank] >= n /\ Transfer(t, Bank, u, n)
  BY Zenon DEF unlock
<1>2. /\ symbol \in Symbols /\ t \in Tokens
  BY BankAssumption, Zenon DEF TableInv, safeLowerToUpperTokens
<1>3. Bank \in Holders
  BY Zenon DEF Holders
<1> HIDE DEF symbol, t
<1>4. e \in LogEntry
  BY <1>1, <1>2, Zenon DEF LogEntry, Event
<1>5. e.name = "LogUnlock" /\ e.token = t /\ e.amount = n
  BY Zenon DEF Event
<1> HIDE DEF e
<1>6. /\ funds' \in [Tokens -> [Holders -> Nat]] /\ \A k \in Tokens \ {t} : funds'[k] = funds[k]
      /\ Supply(funds', t) = Supply(funds, t) /\ funds'[t][Bank] >= funds[t][Bank] - n
  BY <1>1, <1>2, <1>3, TransferMoves, Zenon
<1>7. BankGain(e, t) = -n /\ SupplyGain(e, t) = 0
  BY <1>5, Zenon DEF BankGain, SupplyGain
<1>8. Supply(funds, t) \in Nat /\ funds[t][Bank] \in Nat /\ funds'[t][Bank] \in Nat
  BY <1>2, <1>3, <1>6, SupplyIsNat, Zenon
<1>9. funds'[t][Bank] >= funds[t][Bank] + BankGain(e, t) /\ Supply(funds', t) <= Supply(funds, t) + SupplyGain(e, t)
  BY <1>6, <1>7, <1>8, SMTT(60)
<1> QED
  BY <1>1, <1>4, <1>5, <1>6, <1>9, TokenEmits, Zenon

\* mintBridgeTokens adds to the supply of the token registered for the symbol.
LEMMA MintMoves ==
    ASSUME TableInv', funds \in [Tokens -> [Holders -> Nat]], lockBurnNonce \in Nat,
           NEW u \in Holders, NEW s \in Symbols, NEW n \in Nat,
           mintBridgeTokens(u, s, n, controlledBridgeTokens', lowerToUpperTokens'),
           lockBurnNonce' = lockBurnNonce
    PROVE  \E e : Emits(e)
<1> DEFINE symbol == IF lowerToUpperTokens'[s] = NoSymbol THEN s ELSE lowerToUpperTokens'[s]
           t == controlledBridgeTokens'[symbol]
           e == Event("LogBridgeTokenMint", u, t, symbol, n, lockBurnNonce, u)
<1>1. /\ log' = Append(log, e) /\ SetsBalance(t, u, funds[t][u] + n)
  BY Zenon DEF mintBridgeTokens, SetsBalance
<1>2. /\ symbol \in Symbols /\ t \in Tokens
  BY BankAssumption, Zenon DEF TableInv
<1>3. Bank \in Holders
  BY Zenon DEF Holders
<1> HIDE DEF symbol, t
<1>4. e \in LogEntry
  BY <1>1, <1>2, Zenon DEF LogEntry, Event
<1>5. e.name = "LogBridgeTokenMint" /\ e.token = t /\ e.amount = n
  BY Zenon DEF Event
<1> HIDE DEF e
<1>6. funds[t][u] \in Nat /\ funds[t][u] + n \in Nat
  BY <1>2, SMTT(60)
<1>7. PICK more \in Nat : more = funds[t][u] + n /\ SetsBalance(t, u, more)
  BY <1>1, <1>6, Zenon
<1>8. BalanceSet(t, u, more)
  BY <1>2, <1>7, OneBalance, Zenon
<1>9. /\ funds' \in [Tokens -> [Holders -> Nat]] /\ \A k \in Tokens \ {t} : funds'[k] = funds[k]
      /\ Supply(funds, t) \in Nat /\ Supply(funds', t) = Supply(funds, t) - funds[t][u] + more
      /\ funds'[t][u] = more
      /\ Bank # u => funds'[t][Bank] = funds[t][Bank]
  BY <1>3, <1>8, Zenon DEF BalanceSet
<1>10. BankGain(e, t) = 0 /\ SupplyGain(e, t) = n
  BY <1>5, Zenon DEF BankGain, SupplyGain
<1>11. funds[t][Bank] \in Nat
  BY <1>2, <1>3, Zenon
<1>12. funds'[t][Bank] >= funds[t][Bank] + BankGain(e, t)
  <2>1. CASE u = Bank
    BY <1>6, <1>9, <1>10, <1>7, <2>1, SMTT(60)
  <2>2. CASE u # Bank
    BY <1>9, <1>10, <1>11, <2>2, SMTT(60)
  <2> QED BY <2>1, <2>2, Zenon
<1>13. Supply(funds', t) <= Supply(funds, t) + SupplyGain(e, t)
  BY <1>6, <1>9, <1>10, <1>7, SMTT(60)
<1> QED
  BY <1>1, <1>4, <1>5, <1>9, <1>12, <1>13, TokenEmits, Zenon

\* What holders do by themselves gives the bank no less, and mints nothing.
LEMMA HoldersAreQuiet ==
    ASSUME funds \in [Tokens -> [Holders -> Nat]], HolderActivity PROVE Quiet
<1>1. PICK u \in Users, t \in Tokens, n \in LockAmounts :
          (\E h \in Users \cup {Bank} : transfer(u, h, t, n)) \/ burnOwn(u, t, n)
  BY Zenon DEF HolderActivity
<1>2. n \in Nat /\ u # Bank /\ u \in Holders /\ Bank \in Holders
  BY BankAssumption, Zenon DEF Holders
<1>3. \A k \in Tokens : Supply(funds, k) \in Nat /\ funds[k][Bank] \in Nat
  BY <1>2, SupplyIsNat, Zenon
<1>4. ASSUME NEW h \in Holders, transfer(u, h, t, n) PROVE Quiet
  <2>1. UNCHANGED <<log, lockBurnNonce>> /\ funds[t][u] >= n /\ Transfer(t, u, h, n)
    BY <1>4, Zenon DEF transfer
  <2>2. /\ funds' \in [Tokens -> [Holders -> Nat]]
        /\ \A k \in Tokens : Supply(funds', k) = Supply(funds, k)
        /\ \A k \in Tokens \ {t} : funds'[k] = funds[k]
        /\ funds'[t][Bank] >= funds[t][Bank]
    BY <1>2, <1>4, <2>1, TransferMoves, Zenon
  <2>3. ASSUME NEW k \in Tokens PROVE funds'[k][Bank] >= funds[k][Bank] /\ Supply(funds', k) <= Supply(funds, k)
    BY <1>3, <2>2, <2>3, SMTT(60)
  <2> QED BY <2>1, <2>2, <2>3, Zenon DEF Quiet
<1>5. CASE burnOwn(u, t, n)
  <2>1. /\ UNCHANGED <<log, lockBurnNonce>> /\ funds[t][u] >= n
        /\ SetsBalance(t, u, funds[t][u] - n)
    BY <1>5, Zenon DEF burnOwn, SetsBalance
  <2>2. funds[t][u] \in Nat /\ funds[t][u] - n \in Nat
    BY <1>2, <2>1, SMTT(60)
  <2>3. PICK left \in Nat : left = funds[t][u] - n /\ SetsBalance(t, u, left)
    BY <2>1, <2>2, Zenon
  <2>4. BalanceSet(t, u, left)
    BY <1>2, <2>3, OneBalance, Zenon
  <2>5. /\ funds' \in [Tokens -> [Holders -> Nat]] /\ \A k \in Tokens \ {t} : funds'[k] = funds[k]
        /\ Supply(funds', t) = Supply(funds, t) - funds[t][u] + left
        /\ funds'[t][Bank] = funds[t][Bank]
    BY <1>2, <2>4, Zenon DEF BalanceSet
  <2>6. funds'[t][Bank] >= funds[t][Bank] /\ Supply(funds', t) <= Supply(funds, t)
    BY <1>2, <1>3, <2>2, <2>5, <2>3, SMTT(60)
  <2>7. ASSUME NEW k \in Tokens, k # t
        PROVE  funds'[k][Bank] >= funds[k][Bank] /\ Supply(funds', k) <= Supply(funds, k)
    <3>1. funds'[k] = funds[k] /\ Supply(funds', k) = Supply(funds, k)
      BY <2>5, <2>7, Zenon DEF Supply
    <3> QED BY <1>3, <2>7, <3>1, SMTT(60)
  <2> QED BY <2>1, <2>5, <2>6, <2>7, Zenon DEF Quiet
<1> QED BY <1>1, <1>4, <1>5, Zenon DEF Holders

\* Every step is quiet, or emits one event and moves its money.
LEMMA NextEmits ==
    TableInv /\ TableInv' /\ MoneyInv /\ [Next]_vars => Quiet \/ \E e : Emits(e)
<1> SUFFICES ASSUME TableInv, TableInv', MoneyInv, [Next]_vars, ~Quiet
             PROVE  \E e : Emits(e)
  BY Zenon
<1>1. funds \in [Tokens -> [Holders -> Nat]] /\ lockBurnNonce \in Nat /\ ~HolderActivity
  BY HoldersAreQuiet, Zenon DEF MoneyInv
<1>2. ~(UNCHANGED moneyVars)
  <2> SUFFICES ASSUME funds' = funds, log' = log, lockBurnNonce' = lockBurnNonce PROVE Quiet
    BY Zenon DEF moneyVars
  <2>1. \A t \in Tokens : Supply(funds, t) \in Nat /\ Supply(funds', t) = Supply(funds, t) /\ funds[t][Bank] \in Nat
    BY <1>1, SupplyIsNat, Zenon DEF Holders
  <2>2. \A t \in Tokens : funds'[t][Bank] >= funds[t][Bank] /\ Supply(funds', t) <= Supply(funds, t)
    BY <2>1, SMTT(60)
  <2> QED BY <1>1, <2>2, Zenon DEF Quiet
<1>3. ASSUME NEW v \in EthValidators, NEW c \in Claims, newProphecyClaim(v, c) PROVE \E e : Emits(e)
  <2>1. /\ lockBurnNonce' = lockBurnNonce
        /\ UNCHANGED <<funds, log>> \/ completeProphecyClaim(c)
    BY <1>3, Zenon DEF newProphecyClaim
  <2>2. completeProphecyClaim(c)
    BY <1>2, <2>1, Zenon DEF moneyVars
  <2>3. c.receiver \in Holders /\ c.symbol \in Symbols /\ c.amount \in Nat
    BY BridgeAssumption, Zenon DEF Holders
  <2>4. CASE c.type = "Burn"
    BY <1>1, <2>1, <2>2, <2>3, <2>4, UnlockMoves, Zenon DEF completeProphecyClaim
  <2>5. CASE c.type # "Burn"
    BY <1>1, <2>1, <2>2, <2>3, <2>5, MintMoves, Zenon DEF completeProphecyClaim
  <2> QED BY <2>4, <2>5, Zenon
<1>4. ASSUME NEW u \in Users, NEW r \in Recipients, NEW t \in Tokens, NEW n \in LockAmounts,
             lock(u, r, t, n) \/ burn(u, r, t, n)
      PROVE  \E e : Emits(e)
  BY <1>1, <1>4, LockMoves, BurnMoves, Zenon
<1>5. ~TokenAdministration
  BY <1>2, Zenon DEF TokenAdministration, addExistingBridgeToken, updateEthWhiteList, bulkWhitelistUpdateLimits
<1>6. ~SafetySwitches
  BY <1>2, Zenon DEF SafetySwitches, pause, unpause, renouncePauser, setBlocklist, BlocklistChanges,
         addPauser, changeOwner, changeBankOperator
<1>7. (\A a \in Callers : ~setBridgeBank(a)) /\ ~ValsetActivity /\ ~(UNCHANGED vars)
  BY <1>2, Zenon DEF setBridgeBank, ValsetActivity, vars, bankVars
<1> QED
  BY <1>1, <1>3, <1>4, <1>5, <1>6, <1>7, Zenon DEF Next, Claiming, BankActivity, Deposits

\* The inductive invariant of the money.
LEMMA MoneyInvariant == Spec => []MoneyInv
<1>1. Init => MoneyInv
  <2> SUFFICES ASSUME Init PROVE MoneyInv
    BY Zenon
  <2>1. log = <<>> /\ Len(log) = 0 /\ lockBurnNonce = 0 /\ funds = StartFunds
    BY Zenon DEF Init, BankInit
  <2>2. \A names, t : Logged(names, t) = {}
    BY <2>1 DEF Logged
  <2>3. \A name, t : LoggedAmount(name, t) = 0
    BY <2>2, SumEmpty, Zenon DEF LoggedAmount
  <2>4. StartFunds \in [Tokens -> [Holders -> Nat]]
    BY BankAssumption, Zenon DEF Holders
  <2>5. LogsAccountForFunds
    <3>1. \A t \in Tokens : StartFunds[t][Bank] \in Nat /\ Supply(StartFunds, t) \in Nat
      BY <2>4, SupplyIsNat, Zenon DEF Holders
    <3>2. \A t \in DeployedTokens : t \in Tokens
      BY DeployedAreTokens, Zenon
    <3>3. \A t \in Tokens : StartFunds[t][Bank] + 0 >= StartFunds[t][Bank] + 0 /\ Supply(StartFunds, t) + 0 <= Supply(StartFunds, t) + 0
      BY <3>1, SMTT(60)
    <3> QED BY <2>1, <2>3, <3>2, <3>3, Zenon DEF LogsAccountForFunds
  <2>6. NoncesIdentifyDeposits
    BY <2>2, Zenon DEF NoncesIdentifyDeposits
  <2> QED BY <2>1, <2>5, <2>6, <2>4 DEF MoneyInv
<1>2. TableInv /\ TableInv' /\ MoneyInv /\ [Next]_vars => MoneyInv'
  <2> SUFFICES ASSUME TableInv, TableInv', MoneyInv, [Next]_vars PROVE MoneyInv'
    BY Zenon
  <2>1. CASE Quiet
    BY <2>1, QuietKeeps, Zenon
  <2>2. CASE \E e : Emits(e)
    BY <2>2, EmitsKeeps, Zenon
  <2> QED BY <2>1, <2>2, NextEmits, Zenon
<1> QED
  BY <1>1, <1>2, TablesWellFormed, PTL DEF Spec

\* The bank can return every lock the events tell of, and every token it deployed is
\* matched by a mint they tell of, whatever the operator, the validators and the
\* users do and in whatever order, tokens sent to the bank or burned without it
\* included (lock, burn, unlockFunds, mintNewBridgeTokens).
THEOREM EventsAccountForFunds == Spec => []LogsAccountForFunds
<1>1. MoneyInv => LogsAccountForFunds
  BY Zenon DEF MoneyInv
<1> QED
  BY <1>1, MoneyInvariant, PTL

\* Each deposit has a nonce of its own (lock, burn: lockBurnNonce).
THEOREM DepositNoncesUnique == Spec => []NoncesIdentifyDeposits
<1>1. MoneyInv => NoncesIdentifyDeposits
  BY Zenon DEF MoneyInv
<1> QED
  BY <1>1, MoneyInvariant, PTL

-----------------------------------------------------------------------------
(* The token a Burn is paid in.                                            *)

\* What the first claim of a Burn checks of its symbol.
Payable(s) ==
    \/ lockedTokenList[safeLowerToUpperTokens(s)] # Ether
    \/ safeLowerToUpperTokens(s) = EthSymbol

\* A Burn that has been claimed stays payable: that is what makes the check at its
\* first claim good for its completion.
KindInv ==
    /\ log \in Seq(LogEntry)
    /\ DOMAIN signedPower = Claims
    /\ OneSpelling => \A c \in Claims : signedPower[c] # 0 /\ c.type = "Burn" => Payable(c.symbol)
    /\ PaidInKind

\* With one spelling for each symbol no change of the tables changes the token a
\* payable symbol stands for, or makes it unpayable.
LEMMA PayableStays ==
    ASSUME TableInv, TableStep, OneSpelling, NEW s \in Symbols, Payable(s) PROVE Payable(s)'
<1> DEFINE n == safeLowerToUpperTokens(s)
<1>1. /\ lockedTokenList \in [Symbols -> Tokens]
      /\ lowerToUpperTokens \in [Symbols -> Symbols \cup {NoSymbol}]
      /\ \A k \in Symbols : lockedTokenList[k] # Ether => TokenSymbol[lockedTokenList[k]] = k
  BY Zenon DEF TableInv
<1>2. n \in Symbols
  BY <1>1, BankAssumption, Zenon DEF safeLowerToUpperTokens
<1>3. \E t \in Tokens : TokenSymbol[t] = n
  BY <1>1, <1>2, BankAssumption, Zenon DEF Payable
<1>4. \A k \in Symbols : lowerToUpperTokens[k] # NoSymbol =>
           \E t \in Tokens : lowerToUpperTokens[k] = TokenSymbol[t] /\ Lower[TokenSymbol[t]] = k
  BY Zenon DEF TableInv
<1>5. safeLowerToUpperTokens(s)' = n
  <2>1. CASE lowerToUpperTokens'[s] = lowerToUpperTokens[s]
    BY <2>1, Zenon DEF safeLowerToUpperTokens
  <2>2. CASE lowerToUpperTokens'[s] # lowerToUpperTokens[s]
    <3>1. PICK t \in Tokens : lowerToUpperTokens'[s] = TokenSymbol[t] /\ Lower[TokenSymbol[t]] = s
      BY <2>2, Zenon DEF TableStep
    <3>2. TokenSymbol[t] \in Symbols /\ Lower[s] = s
      BY <3>1, BankAssumption, Zenon
    <3>3. safeLowerToUpperTokens(s)' = TokenSymbol[t]
      BY <3>1, <3>2, BankAssumption, Zenon DEF safeLowerToUpperTokens
    <3>4. PICK u \in Tokens : TokenSymbol[u] = n
      BY <1>3, Zenon
    <3>5. Lower[n] = s
      <4>1. CASE lowerToUpperTokens[s] = NoSymbol
        BY <3>2, <4>1, Zenon DEF safeLowerToUpperTokens
      <4>2. CASE lowerToUpperTokens[s] # NoSymbol
        BY <1>4, <4>2, Zenon DEF safeLowerToUpperTokens
      <4> QED BY <4>1, <4>2, Zenon
    <3> QED BY <3>1, <3>3, <3>4, <3>5, Zenon DEF OneSpelling
  <2> QED BY <2>1, <2>2, Zenon
<1> HIDE DEF n
<1>6. n = EthSymbol \/ lockedTokenList[n] # Ether
  BY Zenon DEF Payable, n
<1>7. n = EthSymbol \/ lockedTokenList'[n] # Ether
  <2>1. CASE lockedTokenList' = lockedTokenList
    BY <1>6, <2>1, Zenon
  <2>2. ASSUME NEW t \in Tokens, lockedTokenList' = [lockedTokenList EXCEPT ![TokenSymbol[t]] = t]
        PROVE  n = EthSymbol \/ lockedTokenList'[n] # Ether
    BY <1>1, <1>2, <1>6, <2>2, BankAssumption, Zenon
  <2> QED BY <2>1, <2>2, Zenon DEF TableStep
<1> QED
  BY <1>5, <1>7, Zenon DEF Payable

\* What a step may add to the events.
KindStep ==
    \/ log' = log
    \/ \E e \in LogEntry :
          /\ log' = Append(log, e)
          /\ OneSpelling /\ e.name = "LogUnlock" => Lower[TokenSymbol[e.token]] = Lower[e.symbol]

\* An unlock of a payable symbol finds the token of that symbol.
LEMMA UnlockInKind ==
    ASSUME TableInv, lockBurnNonce \in Nat, NEW u \in Holders, NEW s \in Symbols, NEW n \in Nat,
           unlock(u, s, n), OneSpelling => Payable(s)
    PROVE  KindStep
<1> DEFINE symbol == safeLowerToUpperTokens(s)
           t == lockedTokenList[symbol]
           e == Event("LogUnlock", u, t, symbol, n, lockBurnNonce, u)
<1>1. log' = Append(log, e)
  BY Zenon DEF unlock
<1>2. symbol \in Symbols /\ t \in Tokens /\ (t # Ether => TokenSymbol[t] = symbol)
  BY BankAssumption, Zenon DEF TableInv, safeLowerToUpperTokens
<1>3. OneSpelling => t # Ether \/ symbol = EthSymbol
  BY Zenon DEF Payable
<1> HIDE DEF symbol, t
<1>4. e \in LogEntry
  BY <1>2, Zenon DEF LogEntry, Event
<1>5. e.token = t /\ e.symbol = symbol
  BY Zenon DEF Event
<1>6. OneSpelling => TokenSymbol[t] = symbol
  BY <1>2, <1>3, BankAssumption, Zenon
<1> HIDE DEF e
<1> QED
  BY <1>1, <1>4, <1>5, <1>6, Zenon DEF KindStep

\* Every step adds at most one event, and an unlock in the token of its symbol.
LEMMA NextInKind ==
    TableInv /\ TableInv' /\ MoneyInv /\ KindInv /\ [Next]_vars => KindStep
<1> SUFFICES ASSUME TableInv, TableInv', MoneyInv, KindInv, [Next]_vars, log' # log
             PROVE  KindStep
  BY Zenon DEF KindStep
<1>0. funds \in [Tokens -> [Holders -> Nat]] /\ lockBurnNonce \in Nat
  BY Zenon DEF MoneyInv
<1>1. ASSUME NEW v \in EthValidators, NEW c \in Claims, newProphecyClaim(v, c) PROVE KindStep
  <2>1. FirstClaim(c) /\ completeProphecyClaim(c)
    BY <1>1, Zenon DEF newProphecyClaim
  <2>3. c.receiver \in Holders /\ c.symbol \in Symbols /\ c.amount \in Nat
    BY BridgeAssumption, Zenon DEF Holders
  <2>4. CASE c.type = "Burn"
    <3>1. OneSpelling => Payable(c.symbol)
      BY <2>1, <2>4, Zenon DEF FirstClaim, KindInv, Payable
    <3> QED
      BY <1>0, <2>1, <2>3, <2>4, <3>1, UnlockInKind, Zenon DEF completeProphecyClaim
  <2>5. CASE c.type # "Burn"
    <3>1. mintBridgeTokens(c.receiver, c.symbol, c.amount, controlledBridgeTokens', lowerToUpperTokens')
      BY <2>1, <2>5, Zenon DEF completeProphecyClaim
    <3>2. lockBurnNonce' = lockBurnNonce
      BY <1>1, Zenon DEF newProphecyClaim
    <3>3. PICK e : Emits(e)
      BY <1>0, <2>3, <3>1, <3>2, MintMoves, Zenon
    <3>4. PICK name, t : log' = Append(log, Event("LogBridgeTokenMint", c.receiver, t, name, c.amount,
                                                 lockBurnNonce, c.receiver))
      BY <3>1, Zenon DEF mintBridgeTokens
    <3>5. e \in LogEntry /\ log' = Append(log, e) /\ log \in Seq(LogEntry)
      BY <3>3, Zenon DEF Emits, KindInv
    <3>6. e.name = "LogBridgeTokenMint"
      BY <3>4, <3>5, SMTT(60) DEF Event
    <3> QED BY <3>5, <3>6, Zenon DEF KindStep
  <2> QED BY <2>4, <2>5, Zenon
<1>2. ASSUME NEW u \in Users, NEW r \in Recipients, NEW t \in Tokens, NEW n \in LockAmounts,
             NEW name \in {"LogLock", "LogBurn"}, lockBurnNonce' = lockBurnNonce + 1,
             log' = Append(log, Event(name, u, t, TokenSymbol[t], n, lockBurnNonce', r))
      PROVE  KindStep
  <2> DEFINE e == Event(name, u, t, TokenSymbol[t], n, lockBurnNonce', r)
  <2>1. TokenSymbol[t] \in Symbols /\ n \in Nat /\ lockBurnNonce' \in Nat
    BY <1>0, <1>2, BankAssumption, SMTT(60)
  <2>2. e \in LogEntry /\ e.name # "LogUnlock"
    BY <2>1, Zenon DEF LogEntry, Event, Holders
  <2> HIDE DEF e
  <2>3. log' = Append(log, e)
    BY <1>2, Zenon DEF e
  <2> QED BY <2>2, <2>3, Zenon DEF KindStep
<1>3. ASSUME NEW u \in Users, NEW r \in Recipients, NEW t \in Tokens, NEW n \in LockAmounts, lock(u, r, t, n)
      PROVE  KindStep
  BY <1>2, <1>3, Zenon DEF lock
<1>4. ASSUME NEW u \in Users, NEW r \in Recipients, NEW t \in Tokens, NEW n \in LockAmounts, burn(u, r, t, n)
      PROVE  KindStep
  BY <1>2, <1>4, Zenon DEF burn
<1>5. ~TokenAdministration /\ ~HolderActivity
  BY Zenon DEF TokenAdministration, addExistingBridgeToken, updateEthWhiteList, bulkWhitelistUpdateLimits, moneyVars,
         HolderActivity, transfer, burnOwn
<1>6. ~SafetySwitches
  BY Zenon DEF SafetySwitches, pause, unpause, renouncePauser, setBlocklist, BlocklistChanges,
         addPauser, changeOwner, changeBankOperator, moneyVars
<1>7. (\A a \in Callers : ~setBridgeBank(a)) /\ ~ValsetActivity /\ ~(UNCHANGED vars)
  BY Zenon DEF setBridgeBank, ValsetActivity, vars, bankVars, moneyVars
<1> QED
  BY <1>1, <1>3, <1>4, <1>5, <1>6, <1>7, Zenon DEF Next, Claiming, BankActivity, Deposits

\* A claim leaves the power behind a Burn at zero only if it was, and then its
\* symbol was checked.
LEMMA ClaimedIsPayable ==
    ASSUME TableInv, TableStep, KindInv, [Next]_vars, OneSpelling, NEW c \in Claims, c.type = "Burn",
           signedPower'[c] # 0
    PROVE  DOMAIN signedPower' = Claims /\ Payable(c.symbol)'
<1>1. c.symbol \in Symbols
  BY BridgeAssumption, Zenon
<1>2. DOMAIN signedPower = Claims /\ (signedPower[c] # 0 => Payable(c.symbol))
  BY Zenon DEF KindInv
<1>3. CASE signedPower' = signedPower
  BY <1>1, <1>2, <1>3, PayableStays, Zenon
<1>4. ASSUME NEW v \in EthValidators, NEW d \in Claims, newProphecyClaim(v, d)
      PROVE  DOMAIN signedPower' = Claims /\ Payable(c.symbol)'
  <2>1. signedPower' = [signedPower EXCEPT ![d] = @ + getValidatorPower(v)] /\ FirstClaim(d)
    BY <1>4, Zenon DEF newProphecyClaim, newOracleClaim
  <2>2. CASE c = d
    <3>1. Payable(c.symbol)
      BY <1>2, <2>1, <2>2, Zenon DEF FirstClaim, Payable
    <3> QED BY <1>1, <1>2, <2>1, <3>1, PayableStays, Zenon
  <2>3. CASE c # d
    BY <1>1, <1>2, <2>1, <2>3, PayableStays, Zenon
  <2> QED BY <2>2, <2>3, Zenon
<1>5. signedPower' = signedPower \/ \E v \in EthValidators, d \in Claims : newProphecyClaim(v, d)
  BY Zenon DEF Next, Claiming, BankActivity, ValsetActivity, setBridgeBank, vars, prophecyVars
<1> QED
  BY <1>3, <1>4, <1>5, Zenon

\* A Burn is paid in the token it names, although its symbol is looked up at its
\* first claim and again at its completion (newProphecyClaim, unlockFunds).
THEOREM BurnsPaidInKind == Spec => []PaidInKind
<1>1. Init => KindInv
  <2> SUFFICES ASSUME Init PROVE KindInv
    BY Zenon
  <2>1. log = <<>> /\ Len(log) = 0 /\ signedPower = [c \in Claims |-> 0]
    BY Zenon DEF Init, BankInit
  <2>2. log \in Seq(LogEntry)
    BY <2>1
  <2>3. PaidInKind
    BY <2>1 DEF PaidInKind
  <2>4. DOMAIN signedPower = Claims /\ \A c \in Claims : signedPower[c] = 0
    BY <2>1, Zenon
  <2> QED BY <2>2, <2>3, <2>4, Zenon DEF KindInv
<1>2. TableInv /\ TableInv' /\ MoneyInv /\ KindInv /\ [Next]_vars => KindInv'
  <2> SUFFICES ASSUME TableInv, TableInv', MoneyInv, KindInv, [Next]_vars PROVE KindInv'
    BY Zenon
  <2>1. TableStep /\ KindStep
    BY NextIsTableStep, NextInKind, Zenon
  <2>2. DOMAIN signedPower' = Claims
    <3>1. DOMAIN signedPower = Claims
      BY Zenon DEF KindInv
    <3>2. signedPower' = signedPower \/ \E d \in Claims : \E k : signedPower' = [signedPower EXCEPT ![d] = k]
      BY Zenon DEF Next, Claiming, BankActivity, ValsetActivity, setBridgeBank, vars, prophecyVars,
             newProphecyClaim, newOracleClaim
    <3> QED BY <3>1, <3>2, Zenon
  <2>3. OneSpelling => \A c \in Claims : signedPower'[c] # 0 /\ c.type = "Burn" => Payable(c.symbol)'
    BY <2>1, ClaimedIsPayable, Zenon
  <2>4. log' \in Seq(LogEntry) /\ PaidInKind'
    <3>1. log \in Seq(LogEntry) /\ PaidInKind
      BY Zenon DEF KindInv
    <3>2. CASE log' = log
      BY <3>1, <3>2, Zenon DEF PaidInKind, OneSpelling
    <3>3. ASSUME NEW e \in LogEntry, log' = Append(log, e),
                 OneSpelling /\ e.name = "LogUnlock" => Lower[TokenSymbol[e.token]] = Lower[e.symbol]
          PROVE  log' \in Seq(LogEntry) /\ PaidInKind'
      <4>1. log \in Seq(LogEntry) /\ log' = Append(log, e)
        BY <3>1, <3>3, Zenon
      <4>2. log' \in Seq(LogEntry) /\ Len(log) \in Nat /\ Len(log') = Len(log) + 1
        BY <4>1
      <4>3. log'[Len(log) + 1] = e /\ \A i \in 1..Len(log) : log'[i] = log[i]
        BY <4>1
      <4>4. ASSUME OneSpelling, NEW i \in 1..Len(log'), log'[i].name = "LogUnlock"
            PROVE  Lower[TokenSymbol[log'[i].token]] = Lower[log'[i].symbol]
        <5>1. CASE i \in 1..Len(log)
          BY <3>1, <4>3, <4>4, <5>1, Zenon DEF PaidInKind
        <5>2. CASE i = Len(log) + 1
          BY <3>3, <4>3, <4>4, <5>2, Zenon
        <5>3. i \in 1..Len(log) \/ i = Len(log) + 1
          BY <4>2
        <5> QED BY <5>1, <5>2, <5>3, Zenon
      <4>5. OneSpelling' <=> OneSpelling
        BY Zenon DEF OneSpelling
      <4> QED BY <4>2, <4>4, <4>5, Zenon DEF PaidInKind
    <3> QED BY <2>1, <3>2, <3>3, Zenon DEF KindStep
  <2>5. OneSpelling' <=> OneSpelling
    BY Zenon DEF OneSpelling
  <2> QED BY <2>2, <2>3, <2>4, <2>5, Zenon DEF KindInv
<1>3. KindInv => PaidInKind
  BY Zenon DEF KindInv
<1> QED
  BY <1>1, <1>2, <1>3, TablesWellFormed, MoneyInvariant, PTL DEF Spec
=============================================================================
