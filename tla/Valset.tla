------------------------------- MODULE Valset -------------------------------
(***************************************************************************)
(* The validator set of the Ethereum side (Valset.sol).  Validators and    *)
(* powers are kept per version of the set; every function reads and writes *)
(* the entries of the current version only, so those are the state, and a  *)
(* new version starts from empty entries.  The total power and the number  *)
(* of validators are kept in counters of their own.                        *)
(*                                                                         *)
(* onlyOperator is overridden in CosmosBridge.sol, so that the operator is *)
(* the one CosmosBridge.changeOperator sets.                               *)
(***************************************************************************)
EXTENDS Integers, Sequences, FiniteSets, FiniteSetsExt, Functions

CONSTANTS
    EthValidators,       \* Ethereum addresses of validators
    Callers,             \* addresses that call operator functions
    GenesisOperator,
    GenesisEthPower,     \* [EthValidators -> Nat], the initial powers
    Powers,              \* powers the operator may set
    MaxPowers,           \* bound: the total power the operator hands out
    MaxVersion,          \* bound: versions of the validator set
    MaxListed            \* bound: validators given to updateValset

VARIABLES
    operator,
    version,             \* currentValsetVersion
    validators,          \* active validators of the current version
    powers,              \* powers of the current version
    validatorCount,
    totalPower

valsetVars == <<operator, version, validators, powers, validatorCount, totalPower>>

ASSUME ValsetAssumption ==
    /\ GenesisOperator \in Callers
    /\ IsFiniteSet(EthValidators)
    /\ GenesisEthPower \in [EthValidators -> Nat]
    /\ Powers \subseteq Nat
    /\ MaxPowers \in Nat
    /\ MaxVersion \in Nat
    /\ MaxListed \in Nat

isActiveValidator(v) == v \in validators

getValidatorPower(v) == powers[v]

\* addValidatorInternal: a validator that is already active is counted again.
addValidatorInternal(v, p) ==
    /\ validatorCount' = validatorCount + 1
    /\ totalPower' = totalPower + p
    /\ validators' = validators \cup {v}
    /\ powers' = [powers EXCEPT ![v] = p]

addValidator(caller, v, p) ==
    /\ caller = operator
    /\ totalPower + p <= MaxPowers
    /\ validatorCount < MaxPowers
    /\ addValidatorInternal(v, p)
    /\ UNCHANGED <<operator, version>>

updateValidatorPower(caller, v, p) ==
    /\ caller = operator
    /\ isActiveValidator(v)
    /\ totalPower >= powers[v]
    /\ totalPower - powers[v] + p <= MaxPowers
    /\ totalPower' = totalPower - powers[v] + p
    /\ powers' = [powers EXCEPT ![v] = p]
    /\ UNCHANGED <<operator, version, validators, validatorCount>>

\* SafeMath's sub reverts the call when a counter is too small.
removeValidator(caller, v) ==
    /\ caller = operator
    /\ isActiveValidator(v)
    /\ validatorCount >= 1
    /\ totalPower >= powers[v]
    /\ validatorCount' = validatorCount - 1
    /\ totalPower' = totalPower - powers[v]
    /\ validators' = validators \ {v}
    /\ powers' = [powers EXCEPT ![v] = 0]
    /\ UNCHANGED <<operator, version>>

\* The power the last entry for v in a list of <<validator, power>> gives it.
ListedPower(list, v) ==
    LET entries == {i \in 1..Len(list) : list[i][1] = v}
    IN  IF entries = {} THEN 0 ELSE list[Max(entries)][2]

Listed(list) == {list[i][1] : i \in 1..Len(list)}

\* Mutant: the counters of the previous version are kept.
updateValsetWithoutReset(caller, list) ==
    /\ caller = operator
    /\ version < MaxVersion
    /\ version' = version + 1
    /\ validators' = Listed(list)
    /\ powers' = [v \in EthValidators |-> ListedPower(list, v)]
    /\ UNCHANGED <<operator, validatorCount, totalPower>>

\* resetValset, then addValidatorInternal for each entry of the list.
updateValset(caller, list) ==
    LET total == SumFunction([i \in 1..Len(list) |-> list[i][2]])
    IN  /\ caller = operator
        /\ version < MaxVersion
        /\ total <= MaxPowers
        /\ version' = version + 1
        /\ validators' = Listed(list)
        /\ powers' = [v \in EthValidators |-> ListedPower(list, v)]
        /\ validatorCount' = Len(list)
        /\ totalPower' = total
        /\ UNCHANGED operator

\* recoverGas checks that the given version is an old one and then deletes
\* the entries of the current version.
recoverGas(caller, oldVersion, v) ==
    /\ caller = operator
    /\ oldVersion < version
    /\ validators' = validators \ {v}
    /\ powers' = [powers EXCEPT ![v] = 0]
    /\ UNCHANGED <<operator, version, validatorCount, totalPower>>

changeOperator(caller, newOperator) ==
    /\ caller = operator
    /\ operator' = newOperator
    /\ UNCHANGED <<version, validators, powers, validatorCount, totalPower>>

\* initialize: resetValset makes version 1, then the validators are added.
ValsetInit ==
    /\ operator = GenesisOperator
    /\ version = 1
    /\ validators = EthValidators
    /\ powers = GenesisEthPower
    /\ validatorCount = Cardinality(EthValidators)
    /\ totalPower = SumFunction(GenesisEthPower)

ValsetChange ==
    \E c \in Callers :
        \/ \E v \in EthValidators, p \in Powers : addValidator(c, v, p) \/ updateValidatorPower(c, v, p)
        \/ \E v \in EthValidators : removeValidator(c, v)
        \/ \E n \in 0..MaxListed : \E list \in [1..n -> EthValidators \X Powers] : updateValset(c, list)
        \/ \E v \in EthValidators, old \in 0..MaxVersion : recoverGas(c, old, v)
        \/ \E new \in Callers : changeOperator(c, new)

-----------------------------------------------------------------------------
(* Properties.                                                             *)

ActivePower == SumFunctionOnSet(powers, validators)

\* The counters cover the active validators: they are never less than the sum
\* of the active powers and the number of active validators, through double
\* additions, removals, new versions and recoverGas.  So a removal or an update
\* of an active validator is never reverted by SafeMath.
CountersCoverActive ==
    /\ totalPower >= ActivePower
    /\ validatorCount >= Cardinality(validators)

=============================================================================
