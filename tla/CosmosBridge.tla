---------------------------- MODULE CosmosBridge ----------------------------
(***************************************************************************)
(* The contract that pays on Ethereum what was locked or burned on the     *)
(* chain: CosmosBridge.sol, which inherits Oracle.sol and through it       *)
(* Valset.sol (module Valset), and calls BridgeBank.sol (module            *)
(* BridgeBank).                                                            *)
(*                                                                         *)
(* A prophecy is identified by the hash of the fields of the claim, so     *)
(* claims are their own identifiers here.                                  *)
(***************************************************************************)
EXTENDS Valset, BridgeBank

CONSTANTS
    Claims,              \* records [type, event, receiver, symbol, amount]
    ConsensusThreshold   \* percent of the total power

VARIABLES
    signedPower,         \* oracleClaimValidators: the power behind a prophecy
    hasMadeClaim,        \* the validators who made each claim
    completions,         \* how often LogProphecyCompleted was emitted for a prophecy
    hasBridgeBank

prophecyVars == <<signedPower, hasMadeClaim, completions>>
vars == <<valsetVars, bankVars, prophecyVars, hasBridgeBank>>

ASSUME BridgeAssumption ==
    /\ ConsensusThreshold \in 1..100
    /\ \A c \in Claims : /\ c.type \in {"Burn", "Lock", "Unsupported"}
                         /\ c.receiver \in Users \cup {Bank}
                         /\ c.symbol \in Symbols
                         /\ c.amount \in Nat

-----------------------------------------------------------------------------

\* getProphecyThreshold with the given signed power and the total power of now.
hasReachedThreshold(signed) == signed * 100 >= totalPower * ConsensusThreshold

\* Mutant: a validator may repeat a claim.
newOracleClaimAgain(v, c) ==
    /\ hasMadeClaim' = [hasMadeClaim EXCEPT ![c] = @ \cup {v}]
    /\ signedPower' = [signedPower EXCEPT ![c] = @ + getValidatorPower(v)]

newOracleClaim(v, c) ==
    /\ v \notin hasMadeClaim[c]
    /\ hasMadeClaim' = [hasMadeClaim EXCEPT ![c] = @ \cup {v}]
    /\ signedPower' = [signedPower EXCEPT ![c] = @ + getValidatorPower(v)]

\* What the first claim of a prophecy needs: a Burn names a token that was
\* locked, or Ether; a Lock deploys a bridge token if the symbol has none.
Deploys(c) ==
    /\ signedPower[c] = 0
    /\ c.type = "Lock"
    /\ controlledBridgeTokens[safeLowerToUpperTokens(c.symbol)] = Ether

\* Mutant: the token of a Burn is not looked up.
FirstClaimUnchecked(c) ==
    /\ signedPower[c] = 0 => c.type # "Unsupported"
    /\ IF Deploys(c) THEN createNewBridgeToken(safeLowerToUpperTokens(c.symbol))
       ELSE UNCHANGED <<controlledBridgeTokens, lowerToUpperTokens, cosmosWhiteList>>

FirstClaim(c) ==
    LET symbol == safeLowerToUpperTokens(c.symbol)
    IN  /\ signedPower[c] = 0 =>
              /\ c.type # "Unsupported"
              /\ c.type = "Burn" => lockedTokenList[symbol] # Ether \/ symbol = EthSymbol
        /\ IF Deploys(c) THEN createNewBridgeToken(symbol)
           ELSE UNCHANGED <<controlledBridgeTokens, lowerToUpperTokens, cosmosWhiteList>>

\* unlockTokens or issueBridgeTokens; a failure in the bank fails the claim.
completeProphecyClaim(c) ==
    /\ IF c.type = "Burn" THEN unlock(c.receiver, c.symbol, c.amount)
       ELSE mintBridgeTokens(c.receiver, c.symbol, c.amount,
                               controlledBridgeTokens', lowerToUpperTokens')
    /\ completions' = [completions EXCEPT ![c] = @ + 1]

\* Mutant: a prophecy that is complete takes further claims.
newProphecyClaimLate(v, c) ==
    /\ hasBridgeBank
    /\ isActiveValidator(v)
    /\ FirstClaim(c)
    /\ newOracleClaim(v, c)
    /\ IF hasReachedThreshold(signedPower'[c]) THEN completeProphecyClaim(c)
       ELSE UNCHANGED <<funds, log, completions>>
    /\ UNCHANGED <<valsetVars, hasBridgeBank, lockedTokenList, ethWhiteList, lockBurnNonce,
                   pauseVars, blockVars, roleVars>>

\* Mutant: completion is judged by the power signed before this claim.
newProphecyClaimStale(v, c) ==
    /\ hasBridgeBank
    /\ isActiveValidator(v)
    /\ ~hasReachedThreshold(signedPower[c])
    /\ FirstClaim(c)
    /\ newOracleClaim(v, c)
    /\ IF hasReachedThreshold(signedPower[c]) THEN completeProphecyClaim(c)
       ELSE UNCHANGED <<funds, log, completions>>
    /\ UNCHANGED <<valsetVars, hasBridgeBank, lockedTokenList, ethWhiteList, lockBurnNonce,
                   pauseVars, blockVars, roleVars>>

newProphecyClaim(v, c) ==
    /\ hasBridgeBank
    /\ isActiveValidator(v)
    /\ ~hasReachedThreshold(signedPower[c])
    /\ FirstClaim(c)
    /\ newOracleClaim(v, c)
    /\ IF hasReachedThreshold(signedPower'[c]) THEN completeProphecyClaim(c)
       ELSE UNCHANGED <<funds, log, completions>>
    /\ UNCHANGED <<valsetVars, hasBridgeBank, lockedTokenList, ethWhiteList, lockBurnNonce,
                   pauseVars, blockVars, roleVars>>

setBridgeBank(caller) ==
    /\ caller = operator
    /\ ~hasBridgeBank
    /\ hasBridgeBank' = TRUE
    /\ UNCHANGED <<valsetVars, bankVars, prophecyVars>>

Init ==
    /\ ValsetInit
    /\ BankInit
    /\ signedPower = [c \in Claims |-> 0]
    /\ hasMadeClaim = [c \in Claims |-> {}]
    /\ completions = [c \in Claims |-> 0]
    /\ hasBridgeBank = FALSE

Claiming ==
    \/ \E v \in EthValidators, c \in Claims : newProphecyClaim(v, c)
    \/ \E a \in Callers : setBridgeBank(a)

BankActivity ==
    /\ Deposits \/ HolderActivity \/ TokenAdministration \/ SafetySwitches
    /\ UNCHANGED <<valsetVars, prophecyVars, hasBridgeBank>>

ValsetActivity ==
    /\ ValsetChange
    /\ UNCHANGED <<bankVars, prophecyVars, hasBridgeBank>>

Next == Claiming \/ BankActivity \/ ValsetActivity

Spec == Init /\ [][Next]_vars

\* The same while the operator leaves the validator set alone.
StableSpec == Init /\ [][Claiming \/ BankActivity]_vars

-----------------------------------------------------------------------------
(* Properties.                                                             *)

\* A prophecy is paid at most once: the check at the head of newProphecyClaim is
\* all that stands between a paid prophecy and its next claim.
PaidOnce == \A c \in Claims : completions[c] <= 1

\* A prophecy that has met the threshold has been paid: no claim is recorded as
\* sufficient without the mint or unlock it stands for, also when the bank was
\* paused, the receiver blocklisted or the bank short of tokens in between.
\* (With no power at all every prophecy counts as complete.)
ReachedIsPaid ==
    ~hasReachedThreshold(0) =>
        \A c \in Claims : hasReachedThreshold(signedPower[c]) => completions[c] >= 1

\* The power behind a prophecy is the power of its claimants, each counted once.
SignedByClaimants ==
    \A c \in Claims : signedPower[c] = SumFunctionOnSet(powers, hasMadeClaim[c])

OneSpelling ==
    \A t, u \in Tokens : Lower[TokenSymbol[t]] = Lower[TokenSymbol[u]]
                           => TokenSymbol[t] = TokenSymbol[u]

\* A Burn is paid in the token it names: the token that unlock finds has the
\* symbol of the claim, although the symbol is looked up when the prophecy is
\* first claimed and again when it completes, with the operator changing the
\* symbol tables and the validators in between.  (Symbols that differ in case
\* only share an entry of lowerToUpperTokens, which listing either overwrites:
\* this is about tokens without such a neighbour.)
PaidInKind ==
    OneSpelling =>
        \A i \in 1..Len(log) :
            log[i].name = "LogUnlock" => Lower[TokenSymbol[log[i].token]] = Lower[log[i].symbol]

=============================================================================
