------------------------------- MODULE Oracle -------------------------------
(***************************************************************************)
(* The oracle of the chain (x/oracle): whitelisted, bonded validators      *)
(* claim the content of an Ethereum event; a prophecy gathers the claims   *)
(* about one event and is finalised once the staking power behind a        *)
(* content reaches consensusNeeded, or can no longer reach it.             *)
(*                                                                         *)
(* A claim's id and content are opaque (members of Ids and Contents, which *)
(* are never empty strings).  A prophecy absent from the store behaves as  *)
(* NewProphecy.  The whitelist is kept as a set: AddOracleWhiteList may    *)
(* append a second copy, every reader asks only for membership, and        *)
(* RemoveOracleWhiteList drops all copies.                                 *)
(***************************************************************************)
EXTENDS Integers, Sequences, FiniteSets, Functions

CONSTANTS
    Validators,      \* operator addresses
    Ids,             \* prophecy ids
    Contents,        \* claim contents
    NoClaim,         \* the empty string: no claim, no final claim
    Accounts,        \* senders of administrative messages
    AdminAccount,    \* the oracle's admin account, set at genesis
    ConsensusNum,    \* consensusNeeded = ConsensusNum / ConsensusDen
    ConsensusDen,
    MaxPower,        \* bound: consensus power of one validator
    GenesisWhitelist,
    GenesisPower     \* [Validators -> 0..MaxPower], all bonded at genesis

\* NewKeeper panics unless 0 < consensusNeeded <= 1.
ASSUME ConsensusAssumption ==
    /\ ConsensusNum \in Nat \ {0}
    /\ ConsensusDen \in Nat \ {0}
    /\ ConsensusNum <= ConsensusDen

ASSUME ContentAssumption == NoClaim \notin Contents

ASSUME GenesisAssumption ==
    /\ IsFiniteSet(Validators)
    /\ MaxPower \in Nat
    /\ GenesisWhitelist \subseteq Validators
    /\ GenesisPower \in [Validators -> 0..MaxPower]
    /\ AdminAccount \in Accounts

VARIABLES
    prophecies,      \* [Ids -> Prophecy]
    whitelist,       \* validators allowed to claim
    bonded,          \* validators whose status is bonded (staking)
    power            \* consensus power (staking); 0 while jailed or unbonded

oracleVars == <<prophecies, whitelist, bonded, power>>

Prophecy ==
    [status : {"PENDING", "SUCCESS", "FAILED"},
     finalClaim : Contents \cup {NoClaim},
     claimValidators : [Contents -> Seq(Validators)],
     validatorClaims : [Validators -> Contents \cup {NoClaim}]]

NewProphecy ==
    [status |-> "PENDING",
     finalClaim |-> NoClaim,
     claimValidators |-> [c \in Contents |-> <<>>],
     validatorClaims |-> [v \in Validators |-> NoClaim]]

-----------------------------------------------------------------------------
(* Tallying the claims of a prophecy.                                      *)

\* The power a claimer contributes: zero once it left the bonded set.
PowerOf == [v \in Validators |-> IF v \in bonded THEN power[v] ELSE 0]

TotalPower == SumFunctionOnSet(PowerOf, whitelist)

ClaimPower(p, c) ==
    LET claimers == p.claimValidators[c]
    IN  SumFunction([i \in 1..Len(claimers) |-> PowerOf[claimers[i]]])

ClaimedContents(p) == {c \in Contents : p.claimValidators[c] # <<>>}

TotalClaimsPower(p) ==
    SumFunction([c \in ClaimedContents(p) |-> ClaimPower(p, c)])

\* FindHighestClaim ranges over a Go map: on a tie any of the highest
\* contents may come out first.
HighestClaims(p) ==
    {c \in ClaimedContents(p) :
        \A d \in ClaimedContents(p) : ClaimPower(p, c) >= ClaimPower(p, d)}

\* The code compares float64 quotients with consensusNeeded.  A zero total
\* gives +Inf, -Inf or NaN, and NaN compares false with everything.
ReachesConsensus(claimPower) ==
    IF TotalPower = 0 THEN claimPower > 0
    ELSE ConsensusDen * claimPower >= ConsensusNum * TotalPower

FallsShort(claimPower) ==
    IF TotalPower = 0 THEN claimPower < 0
    ELSE ConsensusDen * claimPower < ConsensusNum * TotalPower

-----------------------------------------------------------------------------
(* A claim.                                                                *)

AddClaim(p, v, c) ==
    [p EXCEPT !.claimValidators[c] = Append(@, v),
              !.validatorClaims[v] = c]

\* Mutant: forgets the power that has not claimed yet when it judges failure.
ProcessCompletionEager(p) ==
    { IF ReachesConsensus(ClaimPower(p, c))
      THEN [p EXCEPT !.status = "SUCCESS", !.finalClaim = c]
      ELSE [p EXCEPT !.status = "FAILED"]
      : c \in HighestClaims(p) }

\* The prophecies that processCompletion may return for p.
ProcessCompletion(p) ==
    { LET highest   == ClaimPower(p, c)
          remaining == TotalPower - TotalClaimsPower(p)
      IN  IF ReachesConsensus(highest)
          THEN [p EXCEPT !.status = "SUCCESS", !.finalClaim = c]
          ELSE IF FallsShort(highest + remaining)
               THEN [p EXCEPT !.status = "FAILED"]
               ELSE p
      : c \in HighestClaims(p) }

\* Mutant: no check for a second claim of the same validator.
MayClaimTwice(v, id) ==
    /\ v \in whitelist
    /\ v \in bonded
    /\ prophecies[id].status = "PENDING"

\* Mutant: claims are still taken once the prophecy is finalised.
MayClaimLate(v, id) ==
    /\ v \in whitelist
    /\ v \in bonded
    /\ prophecies[id].validatorClaims[v] = NoClaim

\* The checks ProcessClaim makes before it records a claim.
MayClaim(v, id) ==
    /\ v \in whitelist
    /\ v \in bonded
    /\ prophecies[id].status = "PENDING"
    /\ prophecies[id].validatorClaims[v] = NoClaim

ProcessClaim(v, id, c) ==
    /\ MayClaim(v, id)
    /\ \E p \in ProcessCompletion(AddClaim(prophecies[id], v, c)) :
          prophecies' = [prophecies EXCEPT ![id] = p]
    /\ UNCHANGED <<whitelist, bonded, power>>

-----------------------------------------------------------------------------
(* The whitelist, and the staking module the oracle reads.                 *)

ProcessUpdateWhiteListValidator(sender, v, operation) ==
    /\ sender = AdminAccount
    /\ \/ operation = "add"    /\ whitelist' = whitelist \cup {v}
       \/ operation = "remove" /\ whitelist' = whitelist \ {v}
    /\ UNCHANGED <<prophecies, bonded, power>>

\* Staking: delegations, slashing and jailing change a validator's power, and
\* the end of a block bonds and unbonds.  A jailed validator keeps the bonded
\* status, with no power in the index, until the end of the block.
StakingUpdate(v, isBonded, newPower) ==
    /\ bonded' = IF isBonded THEN bonded \cup {v} ELSE bonded \ {v}
    /\ power' = [power EXCEPT ![v] = IF isBonded THEN newPower ELSE 0]
    /\ UNCHANGED <<prophecies, whitelist>>

OracleInit ==
    /\ prophecies = [id \in Ids |-> NewProphecy]
    /\ whitelist = GenesisWhitelist
    /\ bonded = Validators
    /\ power = GenesisPower

OracleNext ==
    \/ \E v \in Validators, id \in Ids, c \in Contents : ProcessClaim(v, id, c)
    \/ \E sender \in Accounts, v \in Validators, operation \in {"add", "remove"} :
          ProcessUpdateWhiteListValidator(sender, v, operation)
    \/ \E v \in Validators, isBonded \in BOOLEAN, newPower \in 0..MaxPower :
          StakingUpdate(v, isBonded, newPower)

OracleSpec == OracleInit /\ [][OracleNext]_oracleVars

-----------------------------------------------------------------------------
(* Properties.                                                             *)

\* The stored prophecies, the whitelist and the staking view are well formed.
TypeOK ==
    /\ prophecies \in [Ids -> Prophecy]
    /\ whitelist \in SUBSET Validators
    /\ bonded \in SUBSET Validators
    /\ power \in [Validators -> Nat]

MapsAgree(claimValidators, validatorClaims) ==
    \A c \in Contents :
        /\ \A v \in Validators : validatorClaims[v] = c
              <=> \E i \in DOMAIN claimValidators[c] : claimValidators[c][i] = v
        /\ \A i, j \in DOMAIN claimValidators[c] :
              claimValidators[c][i] = claimValidators[c][j] => i = j

\* The two maps of a prophecy agree, whatever claims, whitelist updates and
\* stake changes came before: a validator is listed under the content it
\* claimed, under no other, and only once, so that FindHighestClaim counts its
\* power exactly once.
ClaimsCountedOnce ==
    \A id \in Ids :
        MapsAgree(prophecies[id].claimValidators, prophecies[id].validatorClaims)

\* A prophecy that reached SUCCESS or FAILED is never written again: late
\* claims, whitelist updates and stake changes leave it as it is.
FinalizedForever ==
    [][\A id \in Ids : prophecies[id].status # "PENDING"
            => prophecies'[id] = prophecies[id]]_oracleVars

Supporters(p, c) == {v \in Validators : p.validatorClaims[v] = c}

YetToClaim(p) == {v \in whitelist \cap bonded : p.validatorClaims[v] = NoClaim}

Support(p, c) == SumFunctionOnSet(PowerOf, Supporters(p, c))

PossibleSupport(p, c) == Support(p, c) + SumFunctionOnSet(PowerOf, YetToClaim(p))

Claimers(p) == {v \in Validators : p.validatorClaims[v] # NoClaim}

\* The verdict of ProcessClaim follows from the claims held and the stakes of
\* that moment, whatever the order of the claims and whoever left, returned or
\* lost stake in between, with the power counted per validator rather than
\* along the stored lists.  The prophecy succeeds exactly when some content has
\* the needed share of the whitelisted power, and on such a content.  While no
\* claimer has left the whitelist it fails exactly when the validators yet to
\* claim can carry no content any more, so none stays PENDING once all claimed.
VerdictMatchesClaims ==
    [][\A id \in Ids :
          LET p == prophecies'[id]
          IN  p # prophecies[id] =>
                /\ p.status = "SUCCESS"
                     <=> \E c \in Contents : ReachesConsensus(Support(p, c))
                /\ p.status = "SUCCESS" => ReachesConsensus(Support(p, p.finalClaim))
                /\ Claimers(p) \subseteq whitelist =>
                     (p.status = "FAILED"
                        <=> \A c \in Contents : FallsShort(PossibleSupport(p, c)))]_oracleVars

=============================================================================
