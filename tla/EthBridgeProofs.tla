--------------------------- MODULE EthBridgeProofs ---------------------------
(***************************************************************************)
(* Proofs about the chain's side of the bridge, for any accounts, coins,   *)
(* validators, claims and number of transactions: what the oracle promises *)
(* (module Oracle), that the bridge runs the oracle, and that the module   *)
(* as a whole keeps the ledger which BridgeLedger describes.               *)
(***************************************************************************)
EXTENDS EthBridge, Sums

-----------------------------------------------------------------------------
(* The oracle, for every set of validators, ids and contents, every        *)
(* consensus threshold and every stake.                                    *)

\* processCompletion may set the status and the final claim of a prophecy; it
\* leaves the two claim maps as AddClaim wrote them.
LEMMA CompletionKeepsClaims ==
    ASSUME NEW q \in Prophecy, NEW p \in ProcessCompletion(q)
    PROVE  /\ p \in Prophecy
           /\ p.claimValidators = q.claimValidators
           /\ p.validatorClaims = q.validatorClaims
<1>1. PICK c \in HighestClaims(q) :
         \/ p = [q EXCEPT !.status = "SUCCESS", !.finalClaim = c]
         \/ p = [q EXCEPT !.status = "FAILED"]
         \/ p = q
  BY Zenon DEF ProcessCompletion
<1>2. c \in Contents
  BY <1>1, Zenon DEF HighestClaims, ClaimedContents
<1> QED
  BY <1>1, <1>2, Zenon DEF Prophecy

\* AddClaim appends the validator to the list of its content and to no other
\* list, so the two maps keep agreeing if the validator had no claim before.
LEMMA AddClaimKeepsAgreement ==
    ASSUME NEW p \in Prophecy, NEW v \in Validators, NEW c \in Contents,
           p.validatorClaims[v] = NoClaim,
           MapsAgree(p.claimValidators, p.validatorClaims)
    PROVE  /\ AddClaim(p, v, c) \in Prophecy
           /\ MapsAgree(AddClaim(p, v, c).claimValidators, AddClaim(p, v, c).validatorClaims)
<1> DEFINE cv == p.claimValidators
           vc == p.validatorClaims
           newCv == [cv EXCEPT ![c] = Append(@, v)]
           newVc == [vc EXCEPT ![v] = c]
<1>1. /\ cv \in [Contents -> Seq(Validators)]
      /\ vc \in [Validators -> Contents \cup {NoClaim}]
      /\ vc[v] = NoClaim
      /\ MapsAgree(cv, vc)
  BY Zenon DEF Prophecy
<1>2. AddClaim(p, v, c) = [p EXCEPT !.claimValidators = newCv, !.validatorClaims = newVc]
  BY Zenon DEF AddClaim, Prophecy
<1>3. /\ newCv \in [Contents -> Seq(Validators)]
      /\ newVc \in [Validators -> Contents \cup {NoClaim}]
  BY <1>1
<1>4. /\ AddClaim(p, v, c) \in Prophecy
      /\ AddClaim(p, v, c).claimValidators = newCv
      /\ AddClaim(p, v, c).validatorClaims = newVc
  BY <1>2, <1>3, Zenon DEF Prophecy
<1> HIDE DEF cv, vc
<1>5. MapsAgree(newCv, newVc)
  <2> SUFFICES ASSUME NEW d \in Contents
               PROVE  /\ \A w \in Validators : newVc[w] = d
                            <=> \E i \in DOMAIN newCv[d] : newCv[d][i] = w
                      /\ \A i, j \in DOMAIN newCv[d] : newCv[d][i] = newCv[d][j] => i = j
    BY Zenon DEF MapsAgree
  <2>1. /\ \A w \in Validators : vc[w] = d <=> \E i \in DOMAIN cv[d] : cv[d][i] = w
        /\ \A i, j \in DOMAIN cv[d] : cv[d][i] = cv[d][j] => i = j
    BY <1>1, Zenon DEF MapsAgree
  <2>2. \A i \in DOMAIN cv[d] : cv[d][i] # v
    BY <1>1, <2>1, ContentAssumption, Zenon
  <2>3. CASE d # c
    <3>1. newCv[d] = cv[d]
      BY <1>1, <2>3, Zenon
    <3>2. \A w \in Validators : newVc[w] = d <=> vc[w] = d
      BY <1>1, <2>3, ContentAssumption, Zenon
    <3> HIDE DEF newCv, newVc
    <3>3. \A w \in Validators : newVc[w] = d <=> \E i \in DOMAIN newCv[d] : newCv[d][i] = w
      <4> DEFINE Has(q, w) == \E i \in DOMAIN q : q[i] = w
      <4>1. \A w \in Validators : vc[w] = d <=> Has(cv[d], w)
        BY <2>1, Zenon
      <4>2. \A w \in Validators : newVc[w] = d <=> Has(newCv[d], w)
        <5> HIDE DEF Has
        <5> QED BY <3>1, <3>2, <4>1, Zenon
      <4> QED BY <4>2, Zenon
    <3>4. \A i, j \in DOMAIN newCv[d] : newCv[d][i] = newCv[d][j] => i = j
      BY <2>1, <3>1, Zenon
    <3> QED
      BY <3>3, <3>4, Zenon
  <2>4. CASE d = c
    <3> DEFINE n == Len(cv[d])
    <3>1. /\ n \in Nat
          /\ DOMAIN cv[d] = 1..n
          /\ DOMAIN newCv[d] = 1..(n + 1)
          /\ \A i \in 1..n : newCv[d][i] = cv[d][i]
          /\ newCv[d][n + 1] = v
      BY <1>1, <2>4
    <3>2. \A w \in Validators : newVc[w] = d <=> (vc[w] = d \/ w = v)
      BY <1>1, <2>4, Zenon
    <3> HIDE DEF newCv, newVc, n
    <3>3. \A w : (\E i \in DOMAIN newCv[d] : newCv[d][i] = w)
                  <=> ((\E i \in DOMAIN cv[d] : cv[d][i] = w) \/ w = v)
      BY <3>1
    <3>4. \A i, j \in DOMAIN newCv[d] : newCv[d][i] = newCv[d][j] => i = j
      BY <2>1, <2>2, <3>1
    <3> QED
      BY <2>1, <3>2, <3>3, <3>4, Zenon
  <2> QED
    BY <2>3, <2>4, Zenon
<1> QED
  BY <1>4, <1>5, Zenon

-----------------------------------------------------------------------------

OracleInv == TypeOK /\ ClaimsCountedOnce

\* The invariant holds of the genesis state, where no prophecy has a claim.
LEMMA InitOracleInv == OracleInit => OracleInv
<1> SUFFICES ASSUME OracleInit PROVE OracleInv
  BY Zenon
<1>1. NewProphecy \in Prophecy
  BY DEF NewProphecy, Prophecy
<1>2. TypeOK
  BY <1>1, GenesisAssumption DEF OracleInit, TypeOK
<1>3. ClaimsCountedOnce
  BY ContentAssumption DEF OracleInit, ClaimsCountedOnce, MapsAgree, NewProphecy
<1> QED
  BY <1>2, <1>3, Zenon DEF OracleInv

\* Every step keeps the invariant; only ProcessClaim writes a prophecy.
LEMMA StepOracleInv == OracleInv /\ [OracleNext]_oracleVars => OracleInv'
<1> SUFFICES ASSUME OracleInv, [OracleNext]_oracleVars PROVE OracleInv'
  BY Zenon
<1> USE DEF OracleInv
<1>1. ASSUME NEW v \in Validators, NEW id \in Ids, NEW c \in Contents,
             ProcessClaim(v, id, c)
      PROVE  OracleInv'
  <2> DEFINE q == AddClaim(prophecies[id], v, c)
  <2>1. PICK p \in ProcessCompletion(q) : prophecies' = [prophecies EXCEPT ![id] = p]
    BY <1>1, Zenon DEF ProcessClaim
  <2>2. prophecies[id] \in Prophecy
    BY Zenon DEF TypeOK
  <2>3. prophecies[id].validatorClaims[v] = NoClaim
    BY <1>1, Zenon DEF ProcessClaim, MayClaim
  <2>4. q \in Prophecy /\ MapsAgree(q.claimValidators, q.validatorClaims)
    BY <2>2, <2>3, AddClaimKeepsAgreement, Zenon DEF ClaimsCountedOnce
  <2>5. /\ p \in Prophecy
        /\ p.claimValidators = q.claimValidators
        /\ p.validatorClaims = q.validatorClaims
    BY <2>1, <2>4, CompletionKeepsClaims, Zenon
  <2> HIDE DEF q
  <2>6. TypeOK'
    BY <1>1, <2>1, <2>5, Zenon DEF TypeOK, ProcessClaim
  <2>7. /\ prophecies'[id] = p
        /\ \A other \in Ids \ {id} : prophecies'[other] = prophecies[other]
    BY <2>1, Zenon DEF TypeOK
  <2>8. ClaimsCountedOnce'
    BY <2>4, <2>5, <2>7, Zenon DEF ClaimsCountedOnce
  <2> QED
    BY <2>6, <2>8, Zenon
<1>2. ASSUME NEW sender \in Accounts, NEW v \in Validators, NEW operation \in {"add", "remove"},
             ProcessUpdateWhiteListValidator(sender, v, operation)
      PROVE  OracleInv'
  BY <1>2, Zenon DEF ProcessUpdateWhiteListValidator, TypeOK, ClaimsCountedOnce
<1>3. ASSUME NEW v \in Validators, NEW isBonded \in BOOLEAN, NEW newPower \in 0..MaxPower,
             StakingUpdate(v, isBonded, newPower)
      PROVE  OracleInv'
  <2>1. prophecies' = prophecies /\ whitelist' = whitelist
    BY <1>3, Zenon DEF StakingUpdate
  <2>2. newPower \in Nat
    BY GenesisAssumption
  <2>3. bonded' \in SUBSET Validators /\ power' \in [Validators -> Nat]
    BY <1>3, <2>2, Zenon DEF StakingUpdate, TypeOK
  <2> QED
    BY <2>1, <2>3, Zenon DEF TypeOK, ClaimsCountedOnce
<1>4. CASE UNCHANGED oracleVars
  BY <1>4, Zenon DEF oracleVars, TypeOK, ClaimsCountedOnce
<1> QED
  BY <1>1, <1>2, <1>3, <1>4, Zenon DEF OracleNext

\* The state is well typed, and each claim is counted exactly once: both hold
\* in every reachable state, for every history of claims, whitelist updates and
\* stake changes.
THEOREM OracleTypeCorrect == OracleSpec => []TypeOK
<1>1. OracleInv => TypeOK
  BY Zenon DEF OracleInv
<1> QED
  BY <1>1, InitOracleInv, StepOracleInv, PTL DEF OracleSpec

\* The duplicate check of ProcessClaim (on validatorClaims) protects the tally
\* of FindHighestClaim (on claimValidators).
THEOREM CountedOnce == OracleSpec => []ClaimsCountedOnce
<1>1. OracleInv => ClaimsCountedOnce
  BY Zenon DEF OracleInv
<1> QED
  BY <1>1, InitOracleInv, StepOracleInv, PTL DEF OracleSpec

\* A finalised prophecy is never written again.
THEOREM Finality == OracleSpec => FinalizedForever
<1> DEFINE Frozen == \A id \in Ids : prophecies[id].status # "PENDING"
                        => prophecies'[id] = prophecies[id]
<1>1. TypeOK /\ [OracleNext]_oracleVars => [Frozen]_oracleVars
  <2> SUFFICES ASSUME TypeOK, [OracleNext]_oracleVars, NEW id \in Ids,
                      prophecies[id].status # "PENDING"
               PROVE  prophecies'[id] = prophecies[id]
    BY Zenon
  <2>1. ASSUME NEW v \in Validators, NEW other \in Ids, NEW c \in Contents,
               ProcessClaim(v, other, c)
        PROVE  prophecies'[id] = prophecies[id]
    <3>1. other # id
      BY <2>1, Zenon DEF ProcessClaim, MayClaim
    <3> QED
      BY <2>1, <3>1, Zenon DEF ProcessClaim, TypeOK
  <2>2. ASSUME NEW sender \in Accounts, NEW v \in Validators, NEW operation \in {"add", "remove"},
               ProcessUpdateWhiteListValidator(sender, v, operation)
        PROVE  prophecies'[id] = prophecies[id]
    BY <2>2, Zenon DEF ProcessUpdateWhiteListValidator
  <2>3. ASSUME NEW v \in Validators, NEW isBonded \in BOOLEAN, NEW newPower \in 0..MaxPower,
               StakingUpdate(v, isBonded, newPower)
        PROVE  prophecies'[id] = prophecies[id]
    BY <2>3, Zenon DEF StakingUpdate
  <2>4. CASE UNCHANGED oracleVars
    BY <2>4, Zenon DEF oracleVars
  <2> QED
    BY <2>1, <2>2, <2>3, <2>4, Zenon DEF OracleNext
<1> QED
  BY <1>1, OracleTypeCorrect, PTL DEF OracleSpec, FinalizedForever

\* A validator counts with a power that is never negative.
LEMMA PowersNat == TypeOK => PowerOf \in [Validators -> Nat]
BY Zenon DEF TypeOK, PowerOf

\* The power added up along the list of a content is the power of the validators
\* whose claim it is.
LEMMA ClaimPowerIsSupport ==
    ASSUME TypeOK, NEW p \in Prophecy, MapsAgree(p.claimValidators, p.validatorClaims),
           NEW c \in Contents
    PROVE  ClaimPower(p, c) = Support(p, c) /\ Support(p, c) \in Nat
<1> DEFINE L == p.claimValidators[c]
           n == Len(L)
           f == [i \in 1..n |-> PowerOf[L[i]]]
           R == Supporters(p, c)
<1>1. L \in Seq(Validators) /\ n \in Nat /\ \A i \in 1..n : L[i] \in Validators
  BY DEF Prophecy
<1>2. /\ \A v \in Validators : p.validatorClaims[v] = c <=> \E i \in 1..n : L[i] = v
      /\ \A i, j \in 1..n : L[i] = L[j] => i = j
  <2>1. DOMAIN L = 1..n
    BY <1>1
  <2> QED BY <2>1 DEF MapsAgree
<1>3. ClaimPower(p, c) = SumFunctionOnSet(f, 1..n)
  <2>1. ClaimPower(p, c) = SumFunction(f)
    BY Zenon DEF ClaimPower
  <2>2. SumFunction(f) = SumFunctionOnSet(f, DOMAIN f)
    BY Zenon DEF SumFunction
  <2>3. DOMAIN f = 1..n
    BY Zenon
  <2> HIDE DEF f
  <2> QED BY <2>1, <2>2, <2>3, Zenon
<1>4. \A i \in 1..n : f[i] \in Nat /\ f[i] = PowerOf[L[i]]
  BY <1>1, PowersNat, Zenon
<1>5. \A z : z \in R <=> \E i \in 1..n : z = L[i]
  BY <1>1, <1>2 DEF Supporters
<1> HIDE DEF f, L, R, n
<1>6. Renames(L, f, 1..n, PowerOf, R)
  BY <1>2, <1>4, <1>5 DEF Renames
<1>7. IsFiniteSet(1..n)
  BY <1>1, FS_Interval
<1>8. SumFunctionOnSet(PowerOf, R) = SumFunctionOnSet(f, 1..n)
  BY <1>6, <1>7, SumRename
<1>9. SumFunctionOnSet(f, 1..n) \in Nat
  BY <1>4, <1>7, SumNat, Zenon
<1>10. Support(p, c) = SumFunctionOnSet(PowerOf, R)
  BY Zenon DEF Support, R
<1> QED
  BY <1>3, <1>8, <1>9, <1>10, Zenon

\* The power of all claims is the power of the validators that made them.
LEMMA TotalClaimsIsClaimers ==
    ASSUME TypeOK, NEW p \in Prophecy, MapsAgree(p.claimValidators, p.validatorClaims)
    PROVE  TotalClaimsPower(p) = SumFunctionOnSet(PowerOf, Claimers(p))
<1> DEFINE C == ClaimedContents(p)
           S == Claimers(p)
           h == [c \in C |-> ClaimPower(p, c)]
           k == p.validatorClaims
<1>1. S \subseteq Validators /\ C \subseteq Contents
  BY Zenon DEF Claimers, ClaimedContents
<1>2. TotalClaimsPower(p) = SumFunctionOnSet(h, C)
  <2>1. TotalClaimsPower(p) = SumFunction(h)
    BY Zenon DEF TotalClaimsPower
  <2>2. SumFunction(h) = SumFunctionOnSet(h, DOMAIN h)
    BY Zenon DEF SumFunction
  <2>3. DOMAIN h = C
    BY Zenon
  <2> HIDE DEF h, C
  <2> QED BY <2>1, <2>2, <2>3, Zenon
<1>3. k \in [Validators -> Contents \cup {NoClaim}]
  BY Zenon DEF Prophecy
<1>4. ASSUME NEW x \in S PROVE k[x] \in C
  <2>1. k[x] \in Contents /\ x \in Validators
    BY <1>1, <1>3, Zenon DEF Claimers
  <2>2. PICK i \in DOMAIN p.claimValidators[k[x]] : p.claimValidators[k[x]][i] = x
    BY <2>1, Zenon DEF MapsAgree
  <2>3. p.claimValidators[k[x]] # <<>>
    BY <2>2
  <2> QED BY <2>1, <2>3, Zenon DEF ClaimedContents
<1>5. ASSUME NEW c \in C PROVE {x \in S : k[x] = c} = Supporters(p, c) /\ \E x \in S : k[x] = c
  <2>1. c \in Contents /\ c # NoClaim
    BY <1>1, ContentAssumption, Zenon
  <2>2. {x \in S : k[x] = c} = Supporters(p, c)
    BY <2>1, Zenon DEF Claimers, Supporters
  <2>3. p.claimValidators[c] # <<>> /\ p.claimValidators[c] \in Seq(Validators)
    BY <2>1, Zenon DEF ClaimedContents, Prophecy
  <2>4. 1 \in DOMAIN p.claimValidators[c] /\ p.claimValidators[c][1] \in Validators
    BY <2>3
  <2>5. k[p.claimValidators[c][1]] = c
    BY <2>1, <2>4 DEF MapsAgree
  <2> QED BY <2>1, <2>2, <2>4, <2>5, Zenon DEF Claimers
<1>6. IsFiniteSet(S)
  BY <1>1, GenesisAssumption, FS_Subset, Zenon
<1>7. \A x \in S : PowerOf[x] \in Int
  BY <1>1, PowersNat
<1>8. IsFiniteSet(C)
  <2>1. C = {k[x] : x \in S}
    BY <1>4, <1>5, Zenon
  <2> HIDE DEF k, S, C
  <2>2. IsFiniteSet({k[x] : x \in S})
    BY <1>6, FiniteImage, Zenon
  <2> QED BY <2>1, <2>2, Zenon
<1>9. ASSUME NEW c \in C PROVE h[c] = SumFunctionOnSet(PowerOf, {x \in S : k[x] = c})
  <2>1. h[c] = Support(p, c)
    BY <1>1, ClaimPowerIsSupport, Zenon
  <2>2. Support(p, c) = SumFunctionOnSet(PowerOf, Supporters(p, c))
    BY Zenon DEF Support
  <2>3. {x \in S : k[x] = c} = Supporters(p, c)
    BY <1>5, Zenon
  <2> QED BY <2>1, <2>2, <2>3, Zenon
<1> HIDE DEF C, S, h, k
<1>10. SumFunctionOnSet(h, C) = SumFunctionOnSet(PowerOf, S)
  <2>1. Classes(k, PowerOf, S, h, C)
    BY <1>4, <1>7, <1>9, Zenon DEF Classes
  <2> QED BY <1>6, <1>8, <2>1, SumByClass
<1> QED
  BY <1>2, <1>10, Zenon DEF S

\* While no claimer has left the whitelist, what remaining stands for in
\* processCompletion is the power of the validators yet to claim.
LEMMA RemainingIsYetToClaim ==
    ASSUME TypeOK, NEW p \in Prophecy, MapsAgree(p.claimValidators, p.validatorClaims),
           Claimers(p) \subseteq whitelist
    PROVE  /\ TotalPower - TotalClaimsPower(p) = SumFunctionOnSet(PowerOf, YetToClaim(p))
           /\ SumFunctionOnSet(PowerOf, YetToClaim(p)) \in Nat
<1> DEFINE S == Claimers(p)
           Y == YetToClaim(p)
           Z == {v \in whitelist \ bonded : p.validatorClaims[v] = NoClaim}
           W == PowerOf
<1>1. whitelist \subseteq Validators /\ IsFiniteSet(Validators) /\ \A v \in Validators : W[v] \in Nat /\ W[v] \in Int
  BY PowersNat, GenesisAssumption DEF TypeOK
<1>2. S \subseteq Validators /\ Y \subseteq Validators /\ Z \subseteq Validators
  BY <1>1, Zenon DEF Claimers, YetToClaim
<1>3. IsFiniteSet(S) /\ IsFiniteSet(Y) /\ IsFiniteSet(Z) /\ IsFiniteSet(Y \cup Z)
  BY <1>1, <1>2, FS_Subset, FS_Union, Zenon
<1>4. whitelist = S \cup (Y \cup Z) /\ S \cap (Y \cup Z) = {} /\ Y \cap Z = {}
  BY <1>1, Zenon DEF Claimers, YetToClaim
<1>5. \A v \in Z : W[v] = 0
  BY <1>1, <1>2, Zenon DEF PowerOf
<1>6. TotalPower = SumFunctionOnSet(W, whitelist)
  BY Zenon DEF TotalPower, W
<1> HIDE DEF S, Y, Z, W
<1>7. \A v \in S \cup (Y \cup Z) : W[v] \in Int
  BY <1>1, <1>2, Zenon
<1>8. SumFunctionOnSet(W, S \cup (Y \cup Z)) = SumFunctionOnSet(W, S) + SumFunctionOnSet(W, Y \cup Z)
  BY <1>3, <1>4, <1>7, SumDisjoint
<1>9. SumFunctionOnSet(W, Y \cup Z) = SumFunctionOnSet(W, Y) + SumFunctionOnSet(W, Z)
  BY <1>3, <1>4, <1>7, SumDisjoint, Zenon
<1>10. SumFunctionOnSet(W, Z) = 0
  BY <1>3, <1>5, SumZero, Zenon
<1>11. SumFunctionOnSet(W, S) \in Nat /\ SumFunctionOnSet(W, Y) \in Nat
  <2>1. (\A v \in S : W[v] \in Nat) /\ (\A v \in Y : W[v] \in Nat)
    BY <1>1, <1>2, Zenon
  <2> QED BY <1>3, <2>1, SumNat, Zenon
<1>12. TotalPower = SumFunctionOnSet(W, S \cup (Y \cup Z))
  BY <1>4, <1>6, Zenon
<1>13. TotalClaimsPower(p) = SumFunctionOnSet(W, S)
  BY TotalClaimsIsClaimers, Zenon DEF W, S
<1>14. SumFunctionOnSet(PowerOf, YetToClaim(p)) = SumFunctionOnSet(W, Y)
  BY Zenon DEF W, Y
<1> QED
  BY <1>8, <1>9, <1>10, <1>11, <1>12, <1>13, <1>14

\* Products of naturals are monotone.
LEMMA ProductMono == \A d, a, b \in Nat : a <= b => d * a <= d * b
<1> SUFFICES ASSUME NEW d \in Nat, NEW a \in Nat, NEW b \in Nat, a <= b PROVE d * a <= d * b
  BY Zenon
<1>1. PICK k \in Nat : b = a + k
  <2>1. b - a \in Nat /\ b = a + (b - a)
    OBVIOUS
  <2> QED BY <2>1, Zenon
<1>2. d * b = d * a + d * k /\ d * k \in Nat /\ d * a \in Nat
  BY <1>1
<1> QED
  BY <1>2

\* More power reaches the consensus if less does, and falls short only if less
\* does; what falls short does not reach it.
LEMMA ConsensusMono ==
    ASSUME TypeOK, NEW a \in Nat, NEW b \in Nat, a <= b
    PROVE  /\ ReachesConsensus(a) => ReachesConsensus(b)
           /\ FallsShort(b) => FallsShort(a)
           /\ ~(FallsShort(b) /\ ReachesConsensus(a))
<1>1. /\ ConsensusNum \in Nat /\ ConsensusDen \in Nat
  BY ConsensusAssumption, Zenon
<1>2. TotalPower \in Nat
  <2>1. IsFiniteSet(whitelist) /\ \A v \in whitelist : PowerOf[v] \in Nat
    BY GenesisAssumption, FS_Subset, PowersNat, Zenon DEF TypeOK
  <2>2. SumFunctionOnSet(PowerOf, whitelist) \in Nat
    BY <2>1, SumNat, Zenon
  <2> QED BY <2>2, Zenon DEF TotalPower
<1> DEFINE da == ConsensusDen * a
           db == ConsensusDen * b
           nt == ConsensusNum * TotalPower
<1>3. da <= db
  BY <1>1, ProductMono, Zenon
<1>4. da \in Nat /\ db \in Nat /\ nt \in Nat
  BY <1>1, <1>2
<1>5. /\ ReachesConsensus(a) <=> IF TotalPower = 0 THEN a > 0 ELSE da >= nt
      /\ ReachesConsensus(b) <=> IF TotalPower = 0 THEN b > 0 ELSE db >= nt
      /\ FallsShort(a) <=> IF TotalPower = 0 THEN a < 0 ELSE da < nt
      /\ FallsShort(b) <=> IF TotalPower = 0 THEN b < 0 ELSE db < nt
  BY Zenon DEF ReachesConsensus, FallsShort
<1> HIDE DEF da, db, nt
<1> QED
  BY <1>3, <1>4, <1>5

\* What processCompletion makes of a pending prophecy.
LEMMA CompletionVerdict ==
    ASSUME TypeOK, NEW q \in Prophecy, MapsAgree(q.claimValidators, q.validatorClaims),
           q.status = "PENDING", NEW p \in ProcessCompletion(q)
    PROVE  /\ p.status = "SUCCESS" <=> \E c \in Contents : ReachesConsensus(Support(p, c))
           /\ p.status = "SUCCESS" => ReachesConsensus(Support(p, p.finalClaim))
           /\ Claimers(p) \subseteq whitelist =>
                (p.status = "FAILED" <=> \A c \in Contents : FallsShort(PossibleSupport(p, c)))
<1> DEFINE s(d) == Support(q, d)
           rest == TotalPower - TotalClaimsPower(q)
<1>1. PICK c \in HighestClaims(q) :
         p = IF ReachesConsensus(ClaimPower(q, c))
             THEN [q EXCEPT !.status = "SUCCESS", !.finalClaim = c]
             ELSE IF FallsShort(ClaimPower(q, c) + rest)
                  THEN [q EXCEPT !.status = "FAILED"]
                  ELSE q
  BY Zenon DEF ProcessCompletion
<1>2. c \in Contents /\ \A d \in ClaimedContents(q) : ClaimPower(q, c) >= ClaimPower(q, d)
  BY <1>1, Zenon DEF HighestClaims, ClaimedContents
<1>3. \A d \in Contents : ClaimPower(q, d) = s(d) /\ s(d) \in Nat
  BY ClaimPowerIsSupport, Zenon
<1>4. ASSUME NEW d \in Contents PROVE s(d) <= s(c)
  <2>1. CASE d \in ClaimedContents(q)
    BY <1>2, <1>3, <2>1, Zenon
  <2>2. CASE d \notin ClaimedContents(q)
    <3>1. q.claimValidators[d] = <<>>
      BY <2>2, Zenon DEF ClaimedContents
    <3>2. DOMAIN q.claimValidators[d] = {}
      BY <3>1
    <3>3. Supporters(q, d) = {}
      BY <3>2 DEF Supporters, MapsAgree
    <3>4. s(d) = 0
      <4>1. s(d) = SumFunctionOnSet(PowerOf, Supporters(q, d))
        BY Zenon DEF Support
      <4>2. SumFunctionOnSet(PowerOf, Supporters(q, d)) = SumFunctionOnSet(PowerOf, {})
        BY <3>3, Zenon
      <4> QED BY <4>1, <4>2, SumEmpty, Zenon
    <3> QED BY <1>2, <1>3, <3>4
  <2> QED BY <2>1, <2>2, Zenon
<1>5. /\ p.validatorClaims = q.validatorClaims
      /\ p.status = IF ReachesConsensus(s(c)) THEN "SUCCESS"
                    ELSE IF FallsShort(s(c) + rest) THEN "FAILED" ELSE "PENDING"
      /\ ReachesConsensus(s(c)) => p.finalClaim = c
  <2> HIDE DEF s, rest
  <2>1. ClaimPower(q, c) = s(c)
    BY <1>2, <1>3, Zenon
  <2>2. CASE ReachesConsensus(s(c))
    BY <1>1, <2>1, <2>2, Zenon DEF Prophecy
  <2>3. CASE ~ReachesConsensus(s(c)) /\ FallsShort(s(c) + rest)
    BY <1>1, <2>1, <2>3, Zenon DEF Prophecy
  <2>4. CASE ~ReachesConsensus(s(c)) /\ ~FallsShort(s(c) + rest)
    BY <1>1, <2>1, <2>4, Zenon
  <2> QED BY <2>2, <2>3, <2>4, Zenon
<1>6. /\ Claimers(p) = Claimers(q)
      /\ YetToClaim(p) = YetToClaim(q)
      /\ \A d : Supporters(p, d) = Supporters(q, d)
  BY <1>5, Zenon DEF Claimers, YetToClaim, Supporters
<1>7. \A d : Support(p, d) = s(d)
  BY <1>6, Zenon DEF Support
<1>8. p.status = "SUCCESS" <=> \E d \in Contents : ReachesConsensus(s(d))
  <2>1. \A d \in Contents : ReachesConsensus(s(d)) => ReachesConsensus(s(c))
    BY <1>2, <1>3, <1>4, ConsensusMono, Zenon
  <2> HIDE DEF s
  <2> QED BY <1>2, <1>5, <2>1, Zenon
<1>9. p.status = "SUCCESS" => ReachesConsensus(s(p.finalClaim))
  <2> HIDE DEF s
  <2> QED BY <1>5, Zenon
<1>10. ASSUME Claimers(p) \subseteq whitelist
       PROVE  p.status = "FAILED" <=> \A d \in Contents : FallsShort(PossibleSupport(p, d))
  <2>1. rest \in Nat /\ rest = SumFunctionOnSet(PowerOf, YetToClaim(q))
    <3>1. Claimers(q) \subseteq whitelist
      BY <1>6, <1>10, Zenon
    <3> QED BY <3>1, RemainingIsYetToClaim, Zenon
  <2>2. \A d : PossibleSupport(p, d) = s(d) + rest
    <3>1. SumFunctionOnSet(PowerOf, YetToClaim(p)) = rest
      BY <1>6, <2>1, Zenon
    <3> HIDE DEF rest, s
    <3> QED BY <1>7, <3>1, Zenon DEF PossibleSupport
  <2> HIDE DEF rest, s
  <2>3. ASSUME NEW d \in Contents
        PROVE  /\ FallsShort(s(c) + rest) => FallsShort(s(d) + rest)
               /\ ~(FallsShort(s(c) + rest) /\ ReachesConsensus(s(c)))
    <3>1. s(d) + rest \in Nat /\ s(c) + rest \in Nat /\ s(d) + rest <= s(c) + rest
          /\ s(c) \in Nat /\ s(c) <= s(c) + rest
      BY <1>2, <1>3, <1>4, <2>1
    <3> QED BY <3>1, ConsensusMono, Zenon
  <2> QED BY <1>2, <1>5, <2>2, <2>3, Zenon
<1> HIDE DEF s
<1> QED
  BY <1>7, <1>8, <1>9, <1>10, Zenon

\* The verdict of a prophecy is the one its claims and the stakes of the moment
\* call for (ProcessClaim, processCompletion, FindHighestClaim).
THEOREM VerdictSound == OracleSpec => VerdictMatchesClaims
<1> DEFINE Verdict(id) ==
             LET p == prophecies'[id]
             IN  p # prophecies[id] =>
                   /\ p.status = "SUCCESS" <=> \E c \in Contents : ReachesConsensus(Support(p, c))
                   /\ p.status = "SUCCESS" => ReachesConsensus(Support(p, p.finalClaim))
                   /\ Claimers(p) \subseteq whitelist =>
                        (p.status = "FAILED" <=> \A c \in Contents : FallsShort(PossibleSupport(p, c)))
<1>1. OracleInv /\ [OracleNext]_oracleVars => [\A id \in Ids : Verdict(id)]_oracleVars
  <2> SUFFICES ASSUME OracleInv, OracleNext, NEW id \in Ids, prophecies'[id] # prophecies[id]
               PROVE  Verdict(id)
    BY Zenon
  <2>1. PICK v \in Validators, other \in Ids, c \in Contents : ProcessClaim(v, other, c)
    BY Zenon DEF OracleNext, ProcessUpdateWhiteListValidator, StakingUpdate
  <2> DEFINE q == AddClaim(prophecies[other], v, c)
  <2>2. PICK p \in ProcessCompletion(q) : prophecies' = [prophecies EXCEPT ![other] = p]
    BY <2>1, Zenon DEF ProcessClaim
  <2>3. prophecies \in [Ids -> Prophecy] /\ TypeOK
    BY Zenon DEF OracleInv, TypeOK
  <2>4. id = other /\ prophecies'[id] = p
    BY <2>2, <2>3, Zenon
  <2>5. prophecies[other].status = "PENDING" /\ prophecies[other].validatorClaims[v] = NoClaim
    BY <2>1, Zenon DEF ProcessClaim, MayClaim
  <2>6. q \in Prophecy /\ MapsAgree(q.claimValidators, q.validatorClaims)
    BY <2>3, <2>5, AddClaimKeepsAgreement, Zenon DEF OracleInv, ClaimsCountedOnce
  <2>7. q.status = "PENDING"
    BY <2>3, <2>5, Zenon DEF AddClaim, Prophecy
  <2> HIDE DEF q
  <2> QED BY <2>2, <2>3, <2>4, <2>6, <2>7, CompletionVerdict, Zenon
<1>2. OracleSpec => []OracleInv
  BY InitOracleInv, StepOracleInv, PTL DEF OracleSpec
<1> QED
  BY <1>1, <1>2, PTL DEF OracleSpec, VerdictMatchesClaims

-----------------------------------------------------------------------------
(* The messages of the bridge.                                             *)

Event ==
    [type : {"LOCK", "BURN"}, sender : Accounts, sequence : Nat, receiver : EthAddresses,
     symbol : Denoms, amount : Amounts]

\* What the induction needs: the types of the events, and that a denomination
\* that was burned is a peggy token still.
BurnInv ==
    /\ sequence \in [Accounts -> Nat]
    /\ events \in Seq(Event)
    /\ \A i \in 1..Len(events) : events[i].type = "BURN" => events[i].symbol \in peggyTokens
    /\ NoLockAfterBurn

\* A step that emits nothing and takes nothing off the peggy tokens.
LEMMA SilentKeeps ==
    ASSUME BurnInv, events' = events, peggyTokens \subseteq peggyTokens',
           sequence' \in [Accounts -> Nat]
    PROVE  BurnInv'
BY Zenon DEF BurnInv, NoLockAfterBurn

\* An event of a denomination that is emitted as a LOCK only when it is no peggy
\* token, and as a BURN only when it is one.
LEMMA EmitKeeps ==
    ASSUME BurnInv, NEW type \in {"LOCK", "BURN"}, NEW sender \in Accounts,
           NEW receiver \in EthAddresses, NEW symbol \in Denoms, NEW amount \in Amounts,
           Emit(type, sender, receiver, symbol, amount),
           type = "BURN" <=> symbol \in peggyTokens,
           UNCHANGED <<sequence, peggyTokens>>
    PROVE  BurnInv'
<1> DEFINE e == [type |-> type, sender |-> sender, sequence |-> sequence[sender],
                 receiver |-> receiver, symbol |-> symbol, amount |-> amount]
           n == Len(events)
<1>1. e \in Event /\ e.type = type /\ e.symbol = symbol
  BY Zenon DEF BurnInv, Event
<1>2. events' = Append(events, e)
  BY Zenon DEF Emit
<1> HIDE DEF e
<1>3. /\ events' \in Seq(Event) /\ n \in Nat /\ Len(events') = n + 1
      /\ events'[n + 1] = e
      /\ \A i \in 1..n : events'[i] = events[i]
  BY <1>1, <1>2 DEF BurnInv
<1> HIDE DEF n
<1>4. \A i \in 1..n : events[i].type = "BURN" => events[i].symbol \in peggyTokens
  BY Zenon DEF BurnInv, n
<1>5. \A i \in 1..Len(events') : events'[i].type = "BURN" => events'[i].symbol \in peggyTokens
  <2> TAKE i \in 1..Len(events')
  <2>1. CASE i = n + 1
    BY <1>1, <1>3, <2>1, Zenon
  <2>2. CASE i # n + 1
    <3>1. i \in 1..n
      BY <1>3, <2>2
    <3> QED
      BY <1>3, <1>4, <3>1, Zenon
  <2> QED
    BY <2>1, <2>2, Zenon
<1>6. NoLockAfterBurn'
  <2> SUFFICES ASSUME NEW i \in 1..Len(events'), NEW j \in 1..Len(events'),
                      i < j, events'[i].symbol = events'[j].symbol, events'[i].type = "BURN"
               PROVE  events'[j].type = "BURN"
    BY Zenon DEF NoLockAfterBurn
  <2>1. i \in 1..n
    BY <1>3
  <2>2. CASE j = n + 1
    <3>1. events[i].symbol \in peggyTokens /\ events[i].symbol = symbol
      BY <1>1, <1>3, <1>4, <2>1, <2>2, Zenon
    <3> QED
      BY <1>1, <1>3, <2>2, <3>1, Zenon
  <2>3. CASE j # n + 1
    <3>1. j \in 1..n
      BY <1>3, <2>3
    <3> QED
      BY <1>3, <2>1, <3>1, Zenon DEF BurnInv, NoLockAfterBurn, n
  <2> QED
    BY <2>2, <2>3, Zenon
<1> QED
  BY <1>3, <1>5, <1>6, Zenon DEF BurnInv

\* No message, claim or restart breaks the invariant: peggy tokens are only added,
\* by claims of type LOCK and by the genesis file.
LEMMA BurnStep == BurnInv /\ [Next]_vars => BurnInv'
<1> SUFFICES ASSUME BurnInv, [Next]_vars PROVE BurnInv'
  BY Zenon
<1>0. sequence \in [Accounts -> Nat]
  BY Zenon DEF BurnInv
<1>1. CASE UNCHANGED vars
  BY <1>0, <1>1, SilentKeeps, Zenon DEF vars, txVars
<1>2. ASSUME NEW a \in Accounts, BeginTx(a) PROVE BurnInv'
  <2>1. sequence' \in [Accounts -> Nat]
    BY <1>0, <1>2 DEF BeginTx
  <2> QED
    BY <1>2, <2>1, SilentKeeps, Zenon DEF BeginTx
<1>3. ASSUME NEW a \in Accounts, NEW to \in EthAddresses, NEW d \in Denoms, NEW n \in Amounts,
             NEW fee \in Fees, Lock(a, to, d, n, fee)
      PROVE  BurnInv'
  <2>1. /\ d \notin peggyTokens /\ Emit("LOCK", a, to, d, n)
        /\ UNCHANGED <<sequence, peggyTokens>>
    BY <1>3, Zenon DEF Lock, txVars
  <2> QED
    BY <2>1, EmitKeeps, Zenon
<1>4. ASSUME NEW a \in Accounts, NEW to \in EthAddresses, NEW d \in Denoms, NEW n \in Amounts,
             NEW fee \in Fees, Burn(a, to, d, n, fee)
      PROVE  BurnInv'
  <2>1. /\ d \in peggyTokens /\ Emit("BURN", a, to, d, n)
        /\ UNCHANGED <<sequence, peggyTokens>>
    BY <1>4, Zenon DEF Burn, txVars
  <2> QED
    BY <2>1, EmitKeeps, Zenon
<1>5. ASSUME NEW v, NEW id, NEW c, CreateEthBridgeClaim(v, id, c) PROVE BurnInv'
  <2>1. peggyTokens \subseteq peggyTokens'
    BY <1>5, Zenon DEF CreateEthBridgeClaim, ProcessSuccessfulClaim
  <2> QED
    BY <1>0, <1>5, <2>1, SilentKeeps, Zenon DEF CreateEthBridgeClaim
<1>6. CASE Administration
  <2>1. UNCHANGED <<sequence, peggyTokens, events>>
    BY <1>6, Zenon DEF Administration, SetPause, SetBlacklist, UpdateCethReceiverAccount, RescueCeth,
       ExportImportGenesis, txVars
  <2> QED
    BY <1>0, <2>1, SilentKeeps, Zenon
<1>7. CASE ValidatorChanges
  <2>1. UNCHANGED <<sequence, peggyTokens, events>>
    BY <1>7, Zenon DEF ValidatorChanges, UpdateWhiteListValidator, ValidatorUpdate, txVars
  <2> QED
    BY <1>0, <2>1, SilentKeeps, Zenon
<1> QED
  BY <1>1, <1>2, <1>3, <1>4, <1>5, <1>6, <1>7, Zenon DEF Next, Exports, Claims

\* A denomination that has left the chain by Burn never leaves it by Lock
\* afterwards, whatever is claimed, administered or restarted in between: it does
\* not get a second representation on Ethereum (msgServer.Lock, msgServer.Burn,
\* AddPeggyToken, ExportGenesis).
THEOREM BurnedIsNeverLocked == Spec => []NoLockAfterBurn
<1>1. Init => BurnInv
  BY DEF Init, BurnInv, NoLockAfterBurn
<1>2. BurnInv => NoLockAfterBurn
  BY Zenon DEF BurnInv
<1> QED
  BY <1>1, <1>2, BurnStep, PTL DEF Spec

-----------------------------------------------------------------------------
(* The oracle inside the bridge.                                           *)

\* The bridge uses the oracle as it is meant to be used: every behaviour of the
\* bridge is one of the oracle, so that its theorems hold inside the bridge.
THEOREM BridgeRunsOracle == Spec => OracleSpec
<1>1. Init => OracleInit
  BY Zenon DEF Init
<1>2. [Next]_vars => [OracleNext]_oracleVars
  <2> SUFFICES ASSUME [Next]_vars, ~(UNCHANGED oracleVars) PROVE OracleNext
    BY Zenon
  <2>0. ~(UNCHANGED oracleVars)
    BY Zenon DEF oracleVars, oracleVars
  <2>1. ~Exports /\ ~Administration /\ ~(UNCHANGED vars)
    BY <2>0, SMTT(60) DEF Exports, BeginTx, Lock, Burn, Administration, SetPause, SetBlacklist,
       UpdateCethReceiverAccount, RescueCeth, ExportImportGenesis, vars
  <2>2. CASE Claims
    BY <2>2, Zenon DEF Claims, CreateEthBridgeClaim, OracleNext
  <2>3. CASE ValidatorChanges
    BY <2>3, Zenon DEF ValidatorChanges, UpdateWhiteListValidator, ValidatorUpdate, OracleNext
  <2> QED
    BY <2>1, <2>2, <2>3, Zenon DEF Next
<1> QED
  BY <1>1, <1>2, PTL DEF Spec, OracleSpec

-----------------------------------------------------------------------------
(* The books of the bank.                                                  *)

Purses == [Denoms -> Nat]

Banks == [Holders -> Purses]

\* One holder's balance of a coin changes: so does the supply.
LEMMA SupplyChange ==
    ASSUME NEW b \in Banks, NEW n \in Banks, NEW h \in Holders, NEW d \in Denoms,
           \A k \in Holders \ {h} : n[k][d] = b[k][d]
    PROVE  /\ SupplyOf(b)[d] \in Nat /\ b[h][d] <= SupplyOf(b)[d]
           /\ SupplyOf(n)[d] = SupplyOf(b)[d] - b[h][d] + n[h][d]
<1> DEFINE f == [k \in Holders |-> b[k][d]]
           g == [k \in Holders |-> n[k][d]]
<1>1. IsFiniteSet(Holders)
  BY BridgeAssumption, FS_AddElement, Zenon DEF Holders
<1>2. /\ \A k \in Holders : f[k] \in Nat /\ f[k] \in Int /\ f[k] = b[k][d] /\ g[k] = n[k][d] /\ g[k] \in Int
      /\ \A k \in Holders \ {h} : g[k] = f[k]
  BY DEF Banks, Purses
<1>3. SupplyOf(b)[d] = SumFunctionOnSet(f, Holders) /\ SupplyOf(n)[d] = SumFunctionOnSet(g, Holders)
  <2>1. SupplyOf(b)[d] = SumFunction(f) /\ SupplyOf(n)[d] = SumFunction(g)
    BY Zenon DEF SupplyOf
  <2>2. DOMAIN f = Holders /\ DOMAIN g = Holders
    BY Zenon
  <2> HIDE DEF f, g
  <2> QED BY <2>1, <2>2, Zenon DEF SumFunction
<1> HIDE DEF f, g
<1>4. SumFunctionOnSet(g, Holders) = SumFunctionOnSet(f, Holders) - f[h] + g[h]
  BY <1>1, <1>2, SumUpdate
<1>5. SumFunctionOnSet(f, Holders) \in Nat
  BY <1>1, <1>2, SumNat, Zenon
<1>6. f[h] <= SumFunctionOnSet(f, Holders)
  <2>1. SumFunctionOnSet(f, Holders) = f[h] + SumFunctionOnSet(f, Holders \ {h})
    BY <1>1, <1>2, SumRemove, SMTT(60)
  <2>2. IsFiniteSet(Holders \ {h}) /\ \A k \in Holders \ {h} : f[k] \in Nat
    BY <1>1, <1>2, FS_RemoveElement, Zenon
  <2>3. SumFunctionOnSet(f, Holders \ {h}) \in Nat
    BY <2>2, SumNat, Zenon
  <2> QED BY <1>2, <2>1, <2>3, SMTT(60)
<1> QED
  BY <1>2, <1>3, <1>4, <1>5, <1>6, Zenon

\* The coins of a message.
LEMMA CoinsOk ==
    /\ \A d \in Denoms, n \in Nat : /\ Coin(d, n) \in Purses
                                    /\ \A e \in Denoms : Coin(d, n)[e] = IF e = d THEN n ELSE 0
    /\ \A p, q \in Purses : /\ Plus(p, q) \in Purses
                            /\ \A e \in Denoms : Plus(p, q)[e] = p[e] + q[e]
BY DEF Coin, Plus, Purses

\* n is the bank b after coins were added to a holder, after they were taken from a
\* holder who has them, and after they were sent.
Adds(n, b, h, coins) ==
    /\ n \in Banks
    /\ \A k \in Holders, d \in Denoms : n[k][d] = b[k][d] + (IF k = h THEN coins[d] ELSE 0)
    /\ \A d \in Denoms : SupplyOf(n)[d] = SupplyOf(b)[d] + coins[d]

Takes(n, b, h, coins) ==
    /\ n \in Banks
    /\ \A k \in Holders, d \in Denoms : n[k][d] = b[k][d] - (IF k = h THEN coins[d] ELSE 0)
    /\ \A d \in Denoms : SupplyOf(n)[d] = SupplyOf(b)[d] - coins[d] /\ coins[d] <= SupplyOf(b)[d]

Sends(n, b, from, to, coins) ==
    /\ n \in Banks
    /\ \A k \in Holders, d \in Denoms :
          n[k][d] = b[k][d] - (IF k = from THEN coins[d] ELSE 0) + (IF k = to THEN coins[d] ELSE 0)
    /\ \A d \in Denoms : SupplyOf(n)[d] = SupplyOf(b)[d]

\* AddCoins adds to the supply what it adds to a holder.
LEMMA AddCoinsOk ==
    ASSUME NEW b \in Banks, NEW h \in Holders, NEW coins \in Purses
    PROVE  Adds(AddCoins(b, h, coins), b, h, coins)
<1>1. PICK n : n = AddCoins(b, h, coins)
  BY Zenon
<1>2. /\ n \in Banks
      /\ \A k \in Holders, d \in Denoms : n[k][d] = b[k][d] + (IF k = h THEN coins[d] ELSE 0)
      /\ \A k \in Holders, d \in Denoms : b[k][d] \in Nat /\ coins[d] \in Nat
  BY <1>1 DEF AddCoins, Plus, Banks, Purses
<1>3. ASSUME NEW d \in Denoms PROVE SupplyOf(n)[d] = SupplyOf(b)[d] + coins[d]
  <2>1. \A k \in Holders \ {h} : n[k][d] = b[k][d]
    BY <1>2
  <2>2. SupplyOf(b)[d] \in Nat /\ SupplyOf(n)[d] = SupplyOf(b)[d] - b[h][d] + n[h][d]
    BY <1>2, <2>1, SupplyChange, Zenon
  <2> QED BY <1>2, <2>2, SMTT(60)
<1>4. Adds(n, b, h, coins)
  BY <1>2, <1>3, Zenon DEF Adds
<1> QED
  BY <1>1, <1>4, Zenon

\* SubCoins takes from the supply what it takes from a holder who has it.
LEMMA SubCoinsOk ==
    ASSUME NEW b \in Banks, NEW h \in Holders, NEW coins \in Purses, Covers(b, h, coins)
    PROVE  Takes(SubCoins(b, h, coins), b, h, coins)
<1>1. PICK n : n = SubCoins(b, h, coins)
  BY Zenon
<1>2. /\ n \in Banks
      /\ \A k \in Holders, d \in Denoms : n[k][d] = b[k][d] - (IF k = h THEN coins[d] ELSE 0)
      /\ \A k \in Holders, d \in Denoms : b[k][d] \in Nat /\ coins[d] \in Nat
      /\ \A d \in Denoms : b[h][d] >= coins[d]
  BY <1>1 DEF SubCoins, Minus, Banks, Purses, Covers
<1>3. ASSUME NEW d \in Denoms PROVE SupplyOf(n)[d] = SupplyOf(b)[d] - coins[d] /\ coins[d] <= SupplyOf(b)[d]
  <2>1. \A k \in Holders \ {h} : n[k][d] = b[k][d]
    BY <1>2, SMTT(60)
  <2>2. /\ SupplyOf(b)[d] \in Nat /\ SupplyOf(n)[d] = SupplyOf(b)[d] - b[h][d] + n[h][d]
        /\ b[h][d] <= SupplyOf(b)[d]
    BY <1>2, <2>1, SupplyChange, Zenon
  <2> QED BY <1>2, <2>2, SMTT(60)
<1>4. Takes(n, b, h, coins)
  BY <1>2, <1>3, Zenon DEF Takes
<1> QED
  BY <1>1, <1>4, Zenon

\* A transfer leaves the supply of every coin as it is, also to oneself.
LEMMA SendCoinsOk ==
    ASSUME NEW b \in Banks, NEW from \in Holders, NEW to \in Holders, NEW coins \in Purses,
           Covers(b, from, coins)
    PROVE  Sends(SendCoins(b, from, to, coins), b, from, to, coins)
<1>1. PICK m : m = SubCoins(b, from, coins)
  BY Zenon
<1>2. Takes(m, b, from, coins)
  BY <1>1, SubCoinsOk, Zenon
<1>3. PICK n : n = AddCoins(m, to, coins)
  BY Zenon
<1>4. m \in Banks
  BY <1>2, Zenon DEF Takes
<1>5. Adds(n, m, to, coins)
  BY <1>3, <1>4, AddCoinsOk, Zenon
<1>6. n = SendCoins(b, from, to, coins)
  BY <1>1, <1>3, Zenon DEF SendCoins
<1>7. ASSUME NEW d \in Denoms PROVE SupplyOf(n)[d] = SupplyOf(b)[d]
  <2>1. coins[d] \in Nat /\ SupplyOf(b)[d] \in Nat
    BY SupplyChange, Zenon DEF Purses
  <2>2. SupplyOf(m)[d] = SupplyOf(b)[d] - coins[d]
    BY <1>2, Zenon DEF Takes
  <2>3. SupplyOf(n)[d] = SupplyOf(m)[d] + coins[d]
    BY <1>5, Zenon DEF Adds
  <2> QED BY <2>1, <2>2, <2>3
<1>8. ASSUME NEW k \in Holders, NEW d \in Denoms
      PROVE  n[k][d] = b[k][d] - (IF k = from THEN coins[d] ELSE 0) + (IF k = to THEN coins[d] ELSE 0)
  <2>1. m[k][d] = b[k][d] - (IF k = from THEN coins[d] ELSE 0)
    BY <1>2, Zenon DEF Takes
  <2>2. n[k][d] = m[k][d] + (IF k = to THEN coins[d] ELSE 0)
    BY <1>5, Zenon DEF Adds
  <2> QED BY <2>1, <2>2, Zenon
<1>9. Sends(n, b, from, to, coins)
  BY <1>5, <1>7, <1>8, Zenon DEF Sends, Adds
<1> QED
  BY <1>6, <1>9, Zenon

\* An export destroys the coins it announces; the module account keeps the fee if it
\* is the one to have it, and no other coin.
LEMMA ExportOk ==
    ASSUME balances \in Banks, cethReceiver \in Holders \cup {NoAccount},
           NEW sender \in Accounts, NEW symbol \in Denoms, NEW amount \in Amounts, NEW fee \in Fees,
           Export(sender, symbol, amount, fee)
    PROVE  /\ balances' \in Banks
           /\ amount <= SupplyOf(balances)[symbol]
           /\ \A d \in Denoms : SupplyOf(balances')[d] = SupplyOf(balances)[d] - (IF d = symbol THEN amount ELSE 0)
           /\ \A d \in Denoms :
                 balances'[ModuleAccount][d] = balances[ModuleAccount][d]
                   + (IF d = Ceth /\ cethReceiver \in {NoAccount, ModuleAccount} THEN fee ELSE 0)
<1> DEFINE direct == cethReceiver # NoAccount
           afterFee == IF direct THEN SendCoins(balances, sender, cethReceiver, Coin(Ceth, fee)) ELSE balances
           coins == IF direct THEN Coin(symbol, amount) ELSE Plus(Coin(symbol, amount), Coin(Ceth, fee))
           paid == Coin(symbol, amount)
<1>1. /\ direct => Covers(balances, sender, Coin(Ceth, fee))
      /\ Covers(afterFee, sender, coins)
      /\ balances' = SubCoins(SendCoins(afterFee, sender, ModuleAccount, coins), ModuleAccount, paid)
  BY Zenon DEF Export
<1>2. /\ amount \in Nat /\ fee \in Nat /\ Ceth \in Denoms
      /\ sender \in Holders /\ ModuleAccount \in Holders /\ sender # ModuleAccount /\ NoAccount # ModuleAccount
  BY BridgeAssumption, Zenon DEF Holders
<1>3. /\ Coin(Ceth, fee) \in Purses /\ paid \in Purses /\ coins \in Purses
      /\ \A d \in Denoms : /\ Coin(Ceth, fee)[d] = IF d = Ceth THEN fee ELSE 0
                           /\ paid[d] = IF d = symbol THEN amount ELSE 0
                           /\ coins[d] = paid[d] + (IF d = Ceth /\ ~direct THEN fee ELSE 0)
  BY <1>2, CoinsOk
<1>4. /\ afterFee \in Banks
      /\ \A d \in Denoms : /\ SupplyOf(afterFee)[d] = SupplyOf(balances)[d]
                           /\ afterFee[ModuleAccount][d] = balances[ModuleAccount][d]
                                + (IF d = Ceth /\ cethReceiver = ModuleAccount THEN fee ELSE 0)
  <2>1. CASE direct
    <3>1. cethReceiver \in Holders
      BY <2>1, Zenon
    <3>2. \A d \in Denoms : balances[ModuleAccount][d] \in Nat
      BY <1>2, Zenon DEF Banks, Purses
    <3>3. PICK p : p = Coin(Ceth, fee)
      BY Zenon
    <3>4. PICK n : n = SendCoins(balances, sender, cethReceiver, p)
      BY Zenon
    <3>5. /\ p \in Purses /\ Covers(balances, sender, p)
          /\ \A d \in Denoms : p[d] = IF d = Ceth THEN fee ELSE 0
      BY <1>1, <1>3, <2>1, <3>3, Zenon
    <3>6. afterFee = n
      BY <2>1, <3>3, <3>4, Zenon
    <3> HIDE DEF afterFee, direct, coins, paid
    <3>7. Sends(n, balances, sender, cethReceiver, p)
      BY <1>2, <3>1, <3>4, <3>5, SendCoinsOk, Zenon
    <3>8. ASSUME NEW d \in Denoms
          PROVE  n[ModuleAccount][d] = balances[ModuleAccount][d]
                   + (IF d = Ceth /\ cethReceiver = ModuleAccount THEN fee ELSE 0)
      <4>1. n[ModuleAccount][d]
              = balances[ModuleAccount][d] - 0 + (IF ModuleAccount = cethReceiver THEN p[d] ELSE 0)
        BY <1>2, <3>7, Zenon DEF Sends
      <4>2. balances[ModuleAccount][d] \in Nat /\ p[d] = IF d = Ceth THEN fee ELSE 0
        BY <3>2, <3>5, Zenon
      <4> QED BY <1>2, <4>1, <4>2
    <3> QED BY <3>6, <3>7, <3>8, Zenon DEF Sends
  <2>2. CASE ~direct
    <3>1. \A d \in Denoms : balances[ModuleAccount][d] \in Nat
      BY <1>2, Zenon DEF Banks, Purses
    <3> QED BY <1>2, <2>2, <3>1, SMTT(60)
  <2> QED BY <2>1, <2>2, Zenon
<1> HIDE DEF afterFee, coins, paid
<1>5. PICK m : m = SendCoins(afterFee, sender, ModuleAccount, coins)
  BY Zenon
<1>6. Sends(m, afterFee, sender, ModuleAccount, coins)
  BY <1>1, <1>2, <1>3, <1>4, <1>5, SendCoinsOk, Zenon
<1>7. \A d \in Denoms : /\ afterFee[ModuleAccount][d] \in Nat /\ coins[d] \in Nat /\ paid[d] \in Nat
                        /\ paid[d] <= coins[d] /\ balances[ModuleAccount][d] \in Nat
  BY <1>2, <1>3, <1>4 DEF Banks, Purses
<1>8. ASSUME NEW d \in Denoms
      PROVE  m[ModuleAccount][d] = afterFee[ModuleAccount][d] + coins[d]
  <2>1. m[ModuleAccount][d] = afterFee[ModuleAccount][d] - 0 + coins[d]
    BY <1>2, <1>6, Zenon DEF Sends
  <2>2. afterFee[ModuleAccount][d] \in Nat /\ coins[d] \in Nat
    BY <1>7, Zenon
  <2> QED BY <2>1, <2>2, SMTT(60)
<1>9. Covers(m, ModuleAccount, paid)
  <2> SUFFICES ASSUME NEW d \in Denoms PROVE m[ModuleAccount][d] >= paid[d]
    BY Zenon DEF Covers
  <2> QED BY <1>7, <1>8
<1>10. balances' = SubCoins(m, ModuleAccount, paid)
  BY <1>1, <1>5, Zenon
<1>11. Takes(balances', m, ModuleAccount, paid)
  BY <1>2, <1>3, <1>6, <1>9, <1>10, SubCoinsOk, Zenon DEF Sends
<1>12. ASSUME NEW d \in Denoms
       PROVE  balances'[ModuleAccount][d] = balances[ModuleAccount][d]
                + (IF d = Ceth /\ cethReceiver \in {NoAccount, ModuleAccount} THEN fee ELSE 0)
  <2>1. balances'[ModuleAccount][d] = m[ModuleAccount][d] - paid[d]
    BY <1>2, <1>11, Zenon DEF Takes
  <2>2. coins[d] = paid[d] + (IF d = Ceth /\ ~direct THEN fee ELSE 0)
    BY <1>3, Zenon
  <2>3. afterFee[ModuleAccount][d] = balances[ModuleAccount][d]
          + (IF d = Ceth /\ cethReceiver = ModuleAccount THEN fee ELSE 0)
    BY <1>4, Zenon
  <2>4. paid[d] \in Nat /\ balances[ModuleAccount][d] \in Nat
    BY <1>7, Zenon
  <2>5. m[ModuleAccount][d] = afterFee[ModuleAccount][d] + coins[d]
    BY <1>8, Zenon
  <2> QED BY <1>2, <2>1, <2>2, <2>3, <2>4, <2>5, SMTT(60)
<1>13. ASSUME NEW d \in Denoms
       PROVE  /\ SupplyOf(balances')[d] = SupplyOf(balances)[d] - (IF d = symbol THEN amount ELSE 0)
              /\ d = symbol => amount <= SupplyOf(balances)[d]
  <2>1. SupplyOf(balances')[d] = SupplyOf(m)[d] - paid[d] /\ paid[d] <= SupplyOf(m)[d]
    BY <1>11, Zenon DEF Takes
  <2>2. SupplyOf(m)[d] = SupplyOf(afterFee)[d] /\ SupplyOf(afterFee)[d] = SupplyOf(balances)[d]
    BY <1>4, <1>6, Zenon DEF Sends
  <2>3. paid[d] = IF d = symbol THEN amount ELSE 0
    BY <1>3, Zenon
  <2> QED BY <2>1, <2>2, <2>3, Zenon
<1> QED
  BY <1>11, <1>12, <1>13, Zenon DEF Takes

\* What a claim does to the prophecy it is about.
LEMMA ClaimOutcome ==
    ASSUME OracleInv, NEW v \in Validators, NEW id \in Ids, NEW c \in Contents, ProcessClaim(v, id, c)
    PROVE  /\ prophecies[id].status = "PENDING"
           /\ prophecies'[id].status = "SUCCESS" => prophecies'[id].finalClaim \in Contents
           /\ \A k \in Ids \ {id} : prophecies'[k] = prophecies[k]
<1>1. /\ prophecies \in [Ids -> Prophecy]
      /\ prophecies[id].status = "PENDING" /\ prophecies[id].validatorClaims[v] = NoClaim
  BY Zenon DEF OracleInv, TypeOK, ProcessClaim, MayClaim
<1> DEFINE q == AddClaim(prophecies[id], v, c)
<1>2. PICK p \in ProcessCompletion(q) : prophecies' = [prophecies EXCEPT ![id] = p]
  BY Zenon DEF ProcessClaim
<1>3. q \in Prophecy /\ q.status = "PENDING"
  <2>1. q \in Prophecy
    BY <1>1, AddClaimKeepsAgreement, Zenon DEF OracleInv, ClaimsCountedOnce
  <2>2. q.status = "PENDING"
    BY <1>1, Zenon DEF AddClaim, Prophecy
  <2> QED BY <2>1, <2>2, Zenon
<1> HIDE DEF q
<1>4. PICK d \in HighestClaims(q) :
         \/ p = [q EXCEPT !.status = "SUCCESS", !.finalClaim = d]
         \/ p = [q EXCEPT !.status = "FAILED"]
         \/ p = q
  BY <1>2, Zenon DEF ProcessCompletion
<1>5. d \in Contents
  BY <1>4, Zenon DEF HighestClaims, ClaimedContents
<1>6. p.status = "SUCCESS" => p.finalClaim \in Contents
  BY <1>3, <1>4, <1>5, Zenon DEF Prophecy
<1> QED
  BY <1>1, <1>2, <1>6, Zenon

\* The coins of a content that succeeds are added to the supply, and none of them to
\* the module account.
LEMMA MintOk ==
    ASSUME balances \in Banks, NEW c \in Contents, ProcessSuccessfulClaim(c)
    PROVE  /\ balances' \in Banks
           /\ ClaimDenom(c) \in Denoms /\ c.amount \in Nat
           /\ \A d \in Denoms : /\ SupplyOf(balances')[d]
                                     = SupplyOf(balances)[d] + (IF d = ClaimDenom(c) THEN c.amount ELSE 0)
                                /\ balances'[ModuleAccount][d] = balances[ModuleAccount][d]
<1>1. IsContent(c) /\ c.type \in {"LOCK", "BURN"}
  BY BridgeAssumption, Zenon DEF ProcessSuccessfulClaim
<1>2. /\ ClaimDenom(c) \in Denoms /\ c.amount \in Nat /\ c.receiver \in Holders
      /\ c.receiver # ModuleAccount /\ ModuleAccount \in Holders
  BY <1>1, BridgeAssumption, Zenon DEF IsContent, ClaimDenom, Holders
<1>3. PICK coins : coins = Coin(ClaimDenom(c), c.amount)
  BY Zenon
<1>4. coins \in Purses /\ \A d \in Denoms : coins[d] = IF d = ClaimDenom(c) THEN c.amount ELSE 0
  BY <1>2, <1>3, CoinsOk
<1>5. balances' = AddCoins(balances, c.receiver, coins)
  BY <1>3, Zenon DEF ProcessSuccessfulClaim
<1>6. Adds(balances', balances, c.receiver, coins)
  BY <1>2, <1>4, <1>5, AddCoinsOk, Zenon
<1>7. ASSUME NEW d \in Denoms
      PROVE  /\ SupplyOf(balances')[d] = SupplyOf(balances)[d] + (IF d = ClaimDenom(c) THEN c.amount ELSE 0)
             /\ balances'[ModuleAccount][d] = balances[ModuleAccount][d]
  <2>1. balances[ModuleAccount][d] \in Nat
    BY <1>2, Zenon DEF Banks, Purses
  <2>2. balances'[ModuleAccount][d] = balances[ModuleAccount][d] + 0
    BY <1>2, <1>6, Zenon DEF Adds
  <2>3. SupplyOf(balances')[d] = SupplyOf(balances)[d] + (IF d = ClaimDenom(c) THEN c.amount ELSE 0)
    BY <1>4, <1>6, Zenon DEF Adds
  <2> QED BY <2>1, <2>2, <2>3
<1> QED
  BY <1>2, <1>6, <1>7, Zenon DEF Adds

\* A rescue moves ceth out of the module account and leaves the supply as it is.
LEMMA RescueOk ==
    ASSUME balances \in Banks, NEW a \in Accounts, NEW to \in Accounts, NEW n \in Amounts, RescueCeth(a, to, n)
    PROVE  /\ balances' \in Banks
           /\ \A d \in Denoms : SupplyOf(balances')[d] = SupplyOf(balances)[d]
           /\ \A d \in Denoms \ {Ceth} : balances'[ModuleAccount][d] = balances[ModuleAccount][d]
<1>1. /\ n \in Nat /\ Ceth \in Denoms /\ to \in Holders /\ ModuleAccount \in Holders /\ to # ModuleAccount
  BY BridgeAssumption, Zenon DEF Holders
<1>2. PICK coins : coins = Coin(Ceth, n)
  BY Zenon
<1>3. coins \in Purses /\ \A d \in Denoms : coins[d] = IF d = Ceth THEN n ELSE 0
  BY <1>1, <1>2, CoinsOk
<1>4. Covers(balances, ModuleAccount, coins) /\ balances' = SendCoins(balances, ModuleAccount, to, coins)
  BY <1>2, Zenon DEF RescueCeth
<1>5. Sends(balances', balances, ModuleAccount, to, coins)
  BY <1>1, <1>3, <1>4, SendCoinsOk, Zenon
<1>6. ASSUME NEW d \in Denoms \ {Ceth} PROVE balances'[ModuleAccount][d] = balances[ModuleAccount][d]
  <2>1. coins[d] = 0 /\ balances[ModuleAccount][d] \in Nat
    BY <1>1, <1>3, Zenon DEF Banks, Purses
  <2>2. balances'[ModuleAccount][d] = balances[ModuleAccount][d] - coins[d] + 0
    BY <1>1, <1>5, Zenon DEF Sends
  <2> QED BY <2>1, <2>2, SMTT(60)
<1> QED
  BY <1>5, <1>6, Zenon DEF Sends

\* The invariant of the books: no account is overdrawn, and the account fees go to
\* is one that exists.
BooksInv ==
    /\ OracleInv
    /\ balances \in Banks
    /\ cethReceiver \in Holders \cup {NoAccount}
    /\ events \in Seq(Event)

\* How a step changes the books: a prophecy is paid, coins are exported, ceth is
\* rescued, or nothing changes.
Pays(id, c) ==
    /\ prophecies[id].status = "PENDING" /\ prophecies'[id].status = "SUCCESS"
    /\ prophecies'[id].finalClaim = c
    /\ \A k \in Ids \ {id} : prophecies'[k] = prophecies[k]
    /\ ProcessSuccessfulClaim(c)
    /\ UNCHANGED <<events, cethReceiver>>

ExportsCoins(sender, to, d, n, fee) ==
    /\ Export(sender, d, n, fee)
    /\ \E type \in {"LOCK", "BURN"} : Emit(type, sender, to, d, n)
    /\ UNCHANGED <<prophecies, cethReceiver, sequence>>

KeepsBooks ==
    /\ UNCHANGED <<balances, events>>
    /\ cethReceiver' \in Holders \cup {NoAccount}
    /\ \A id \in Ids : \/ prophecies'[id] = prophecies[id]
                       \/ prophecies[id].status = "PENDING" /\ prophecies'[id].status # "SUCCESS"

\* The books are inductive: every message, claim and restart keeps them.
LEMMA BooksStep ==
    ASSUME BooksInv, [Next]_vars
    PROVE  \/ \E id \in Ids, c \in Contents : Pays(id, c)
           \/ \E a \in Accounts, to \in EthAddresses, d \in Denoms, n \in Amounts, fee \in Fees :
                 ExportsCoins(a, to, d, n, fee)
           \/ \E a, to \in Accounts, n \in Amounts : RescueCeth(a, to, n)
           \/ KeepsBooks
<1> DEFINE Goal == \/ \E id \in Ids, c \in Contents : Pays(id, c)
                   \/ \E a \in Accounts, to \in EthAddresses, d \in Denoms, n \in Amounts, fee \in Fees :
                         ExportsCoins(a, to, d, n, fee)
                   \/ \E a, to \in Accounts, n \in Amounts : RescueCeth(a, to, n)
                   \/ KeepsBooks
<1>0. ASSUME UNCHANGED <<prophecies, balances, events>>, cethReceiver' \in Holders \cup {NoAccount} PROVE Goal
  BY <1>0, Zenon DEF KeepsBooks
<1>1. cethReceiver \in Holders \cup {NoAccount}
  BY Zenon DEF BooksInv
<1>2. ASSUME NEW v \in Validators, NEW id \in Ids, NEW c \in Contents, CreateEthBridgeClaim(v, id, c) PROVE Goal
  <2>1. ProcessClaim(v, id, c) /\ UNCHANGED <<events, cethReceiver>>
    BY <1>2, Zenon DEF CreateEthBridgeClaim, adminVars
  <2>2. /\ prophecies[id].status = "PENDING"
        /\ prophecies'[id].status = "SUCCESS" => prophecies'[id].finalClaim \in Contents
        /\ \A k \in Ids \ {id} : prophecies'[k] = prophecies[k]
    BY <2>1, ClaimOutcome, Zenon DEF BooksInv
  <2>3. CASE prophecies'[id].status = "SUCCESS"
    <3>1. ProcessSuccessfulClaim(prophecies'[id].finalClaim)
      BY <1>2, <2>3, Zenon DEF CreateEthBridgeClaim
    <3>2. PICK f \in Contents : f = prophecies'[id].finalClaim
      BY <2>2, <2>3, Zenon
    <3>3. Pays(id, f)
      BY <2>1, <2>2, <2>3, <3>1, <3>2, Zenon DEF Pays
    <3> QED BY <3>3, Zenon
  <2>4. CASE prophecies'[id].status # "SUCCESS"
    <3>1. UNCHANGED balances
      BY <1>2, <2>4, Zenon DEF CreateEthBridgeClaim
    <3>2. KeepsBooks
      BY <1>1, <2>1, <2>2, <2>4, <3>1, Zenon DEF KeepsBooks
    <3> QED BY <3>2, Zenon
  <2> QED BY <2>3, <2>4, Zenon
<1>3. ASSUME NEW a \in Accounts, NEW to \in EthAddresses, NEW d \in Denoms, NEW n \in Amounts, NEW fee \in Fees,
             Lock(a, to, d, n, fee) \/ Burn(a, to, d, n, fee)
      PROVE  Goal
  <2>1. ExportsCoins(a, to, d, n, fee)
    BY <1>3, Zenon DEF ExportsCoins, Lock, Burn, ProcessLock, ProcessBurn, oracleVars, adminVars, txVars
  <2> QED BY <2>1, Zenon
<1>4. ASSUME Administration PROVE Goal
  <2>1. ASSUME NEW a \in Accounts, NEW account \in Holders, UpdateCethReceiverAccount(a, account) PROVE Goal
    <3>1. UNCHANGED <<prophecies, balances, events>> /\ cethReceiver' \in Holders \cup {NoAccount}
      BY <2>1, Zenon DEF UpdateCethReceiverAccount, oracleVars
    <3> QED BY <1>0, <3>1, Zenon
  <2>2. ASSUME UNCHANGED <<prophecies, balances, events, cethReceiver>> PROVE Goal
    BY <1>0, <1>1, <2>2, Zenon
  <2>3. ASSUME NEW a, NEW b, SetPause(a, b) \/ SetBlacklist(a, b) \/ ExportImportGenesis PROVE Goal
    <3>1. UNCHANGED <<prophecies, balances, events, cethReceiver>>
      BY <2>3, Zenon DEF SetPause, SetBlacklist, ExportImportGenesis, oracleVars
    <3> QED BY <2>2, <3>1, Zenon
  <2> QED
    <3> HIDE DEF Goal
    <3>1. (\E a, to \in Accounts, n \in Amounts : RescueCeth(a, to, n)) => Goal
      BY Zenon DEF Goal
    <3>2. (\E a \in Accounts, account \in Holders : UpdateCethReceiverAccount(a, account)) => Goal
      BY <2>1, Zenon
    <3>3. (\E a \in Accounts, b \in BOOLEAN : SetPause(a, b)) => Goal
      BY <2>3, Zenon
    <3>4. (\E a \in Accounts, addresses \in SUBSET EthAddresses : SetBlacklist(a, addresses)) => Goal
      BY <2>3, Zenon
    <3>5. ExportImportGenesis => Goal
      BY <2>3, Zenon
    <3> QED BY <1>4, <3>1, <3>2, <3>3, <3>4, <3>5, Zenon DEF Administration
<1>5. ASSUME (\E a \in Accounts \ BlockedAccounts : BeginTx(a)) \/ ValidatorChanges \/ UNCHANGED vars PROVE Goal
  <2>1. UNCHANGED <<prophecies, balances, events, cethReceiver>>
    BY <1>5, Zenon DEF BeginTx, ValidatorChanges, UpdateWhiteListValidator, ValidatorUpdate, vars,
       ProcessUpdateWhiteListValidator, StakingUpdate, oracleVars, adminVars
  <2> QED BY <1>0, <1>1, <2>1, Zenon
<1> HIDE DEF Goal
<1>6. Goal
  <2>1. Claims => Goal
    BY <1>2, Zenon DEF Claims
  <2>2. Exports => Goal
    BY <1>3, <1>5, Zenon DEF Exports
  <2> QED
    BY <1>4, <1>5, <2>1, <2>2, Zenon DEF Next
<1> QED
  BY <1>6, Zenon DEF Goal

\* No step overdraws an account: the invariant of the books is kept.
LEMMA BooksInvariant == Spec => []BooksInv
<1>1. Init => BooksInv
  <2> SUFFICES ASSUME Init PROVE BooksInv
    BY Zenon
  <2>1. OracleInv
    BY InitOracleInv, Zenon DEF Init
  <2> QED BY <2>1, BridgeAssumption DEF Init, BooksInv, Banks, Purses
<1>2. OracleInv' /\ BurnInv' /\ BooksInv /\ [Next]_vars => BooksInv'
  <2> SUFFICES ASSUME OracleInv', BurnInv', BooksInv, [Next]_vars PROVE BooksInv'
    BY Zenon
  <2> DEFINE Kept == balances' \in Banks /\ cethReceiver' \in Holders \cup {NoAccount}
  <2>0. balances \in Banks /\ cethReceiver \in Holders \cup {NoAccount}
    BY Zenon DEF BooksInv
  <2>1. ASSUME NEW id \in Ids, NEW c \in Contents, Pays(id, c) PROVE Kept
    BY <2>0, <2>1, MintOk, Zenon DEF Pays
  <2>2. ASSUME NEW a \in Accounts, NEW to \in EthAddresses, NEW d \in Denoms, NEW n \in Amounts, NEW fee \in Fees,
               ExportsCoins(a, to, d, n, fee)
        PROVE  Kept
    BY <2>0, <2>2, ExportOk, Zenon DEF ExportsCoins
  <2>3. ASSUME NEW a \in Accounts, NEW to \in Accounts, NEW n \in Amounts, RescueCeth(a, to, n) PROVE Kept
    BY <2>0, <2>3, RescueOk, Zenon DEF RescueCeth, adminVars
  <2>4. ASSUME KeepsBooks PROVE Kept
    BY <2>0, <2>4, Zenon DEF KeepsBooks
  <2> HIDE DEF Kept
  <2>5. Kept
    BY <2>1, <2>2, <2>3, <2>4, BooksStep, Zenon
  <2> QED BY <2>5, Zenon DEF Kept, BooksInv, BurnInv
<1>3. Spec => []OracleInv
  <2>1. OracleSpec => []OracleInv
    BY InitOracleInv, StepOracleInv, PTL DEF OracleSpec
  <2> QED BY <2>1, BridgeRunsOracle, PTL
<1>4. Spec => []BurnInv
  <2>1. Init => BurnInv
    BY DEF Init, BurnInv, NoLockAfterBurn
  <2> QED BY <2>1, BurnStep, PTL DEF Spec
<1> QED
  BY <1>1, <1>2, <1>3, <1>4, PTL DEF Spec

\* Fees stay in the module account until they are rescued, and nothing else does,
\* whatever the order of exports, claims and administration (ProcessLock,
\* ProcessBurn, RescueCeth).
THEOREM FeesAreKept == Spec => FeesKept
<1> DEFINE Fee ==
             /\ events' # events /\ cethReceiver = NoAccount
                  => balances'[ModuleAccount][Ceth] - balances[ModuleAccount][Ceth] \in Fees
             /\ balances'[ModuleAccount][Ceth] < balances[ModuleAccount][Ceth]
                  => \E to \in Accounts, n \in Amounts : RescueCeth(AdminAccount, to, n)
             /\ \A d \in Denoms \ {Ceth} : balances'[ModuleAccount][d] = balances[ModuleAccount][d]
<1>1. BooksInv /\ [Next]_vars => [Fee]_vars
  <2> SUFFICES ASSUME BooksInv, [Next]_vars PROVE Fee
    BY Zenon
  <2>0. balances \in Banks /\ cethReceiver \in Holders \cup {NoAccount}
    BY Zenon DEF BooksInv
  <2>1. Ceth \in Denoms /\ \A d \in Denoms : balances[ModuleAccount][d] \in Nat
    BY <2>0, BridgeAssumption DEF Banks, Purses, Holders
  <2>2. ASSUME UNCHANGED events, \A d \in Denoms : balances'[ModuleAccount][d] = balances[ModuleAccount][d]
        PROVE  Fee
    BY <2>1, <2>2, SMTT(60)
  <2>3. ASSUME NEW id \in Ids, NEW c \in Contents, Pays(id, c) PROVE Fee
    <3>1. \A d \in Denoms : balances'[ModuleAccount][d] = balances[ModuleAccount][d]
      BY <2>0, <2>3, MintOk, Zenon DEF Pays
    <3> QED BY <2>2, <2>3, <3>1, Zenon DEF Pays
  <2>4. ASSUME NEW a \in Accounts, NEW to \in EthAddresses, NEW d \in Denoms, NEW n \in Amounts, NEW fee \in Fees,
               ExportsCoins(a, to, d, n, fee)
        PROVE  Fee
    <3>1. \A e \in Denoms :
             balances'[ModuleAccount][e] = balances[ModuleAccount][e]
                   + (IF e = Ceth /\ cethReceiver \in {NoAccount, ModuleAccount} THEN fee ELSE 0)
      BY <2>0, <2>4, ExportOk, ZenonT(60) DEF ExportsCoins
    <3>2. fee \in Nat /\ balances[ModuleAccount][Ceth] \in Nat
      BY <2>1, BridgeAssumption, Zenon
    <3>3. balances'[ModuleAccount][Ceth] = balances[ModuleAccount][Ceth]
            + (IF cethReceiver \in {NoAccount, ModuleAccount} THEN fee ELSE 0)
      BY <2>1, <3>1, Zenon
    <3>4. ASSUME NEW e \in Denoms \ {Ceth} PROVE balances'[ModuleAccount][e] = balances[ModuleAccount][e]
      <4>1. balances'[ModuleAccount][e] = balances[ModuleAccount][e] + 0
        BY <3>1, Zenon
      <4> QED BY <2>1, <4>1, SMTT(60)
    <3> QED BY <3>2, <3>3, <3>4
  <2>5. ASSUME NEW a \in Accounts, NEW to \in Accounts, NEW n \in Amounts, RescueCeth(a, to, n) PROVE Fee
    <3>1. \A d \in Denoms \ {Ceth} : balances'[ModuleAccount][d] = balances[ModuleAccount][d]
      BY <2>0, <2>5, RescueOk, Zenon
    <3>2. RescueCeth(AdminAccount, to, n) /\ events' = events
      BY <2>5, Zenon DEF RescueCeth
    <3> QED BY <3>1, <3>2, Zenon
  <2>6. ASSUME KeepsBooks PROVE Fee
    BY <2>1, <2>2, <2>6, Zenon DEF KeepsBooks
  <2> HIDE DEF Fee
  <2> QED
    BY <2>3, <2>4, <2>5, <2>6, BooksStep, Zenon
<1> QED
  BY <1>1, BooksInvariant, PTL DEF Spec, FeesKept

-----------------------------------------------------------------------------
(* The bridge implements the ledger.                                       *)

Redeemed == [id \in Ids |-> IF prophecies[id].status = "SUCCESS" THEN prophecies[id].finalClaim ELSE NoClaim]

\* Supplies that agree on every coin are equal.
LEMMA SupplyExt ==
    ASSUME NEW b, NEW f \in [Denoms -> Int], \A d \in Denoms : SupplyOf(b)[d] = f[d]
    PROVE  SupplyOf(b) = f
BY Zenon DEF SupplyOf

\* The supply of every coin is a natural number.
LEMMA SupplyNat == ASSUME NEW b \in Banks PROVE SupplyOf(b) \in [Denoms -> Nat]
<1>1. \A d \in Denoms : SupplyOf(b)[d] \in Nat
  <2> TAKE d \in Denoms
  <2>1. ModuleAccount \in Holders
    BY Zenon DEF Holders
  <2> QED BY <2>1, SupplyChange, Zenon
<1>2. SupplyOf(b) = [d \in Denoms |-> SupplyOf(b)[d]]
  BY Zenon DEF SupplyOf
<1> QED
  BY <1>1, <1>2, Zenon

\* Every step of the bridge is a step of the ledger or leaves it as it is.
LEMMA LedgerStep == BooksInv /\ [Next]_vars => [Ledger!LedgerNext]_(Ledger!ledgerVars)
<1> SUFFICES ASSUME BooksInv, [Next]_vars PROVE Ledger!LedgerNext \/ UNCHANGED Ledger!ledgerVars
  BY Zenon
<1>0. /\ balances \in Banks /\ cethReceiver \in Holders \cup {NoAccount} /\ events \in Seq(Event)
      /\ prophecies \in [Ids -> Prophecy]
  BY Zenon DEF BooksInv, OracleInv, TypeOK
<1>1. SupplyOf(balances) \in [Denoms -> Nat]
  BY <1>0, SupplyNat, Zenon
<1> DEFINE Goal == Ledger!LedgerNext \/ UNCHANGED Ledger!ledgerVars
<1>2. ASSUME UNCHANGED events, SupplyOf(balances') = SupplyOf(balances), Redeemed' = Redeemed PROVE Goal
  BY <1>2, Zenon DEF Ledger!ledgerVars, Redeemed
<1>3. ASSUME NEW id \in Ids, NEW c \in Contents, Pays(id, c) PROVE Goal
  <2>1. /\ ClaimDenom(c) \in Denoms /\ c.amount \in Nat
        /\ \A d \in Denoms : SupplyOf(balances')[d]
             = SupplyOf(balances)[d] + (IF d = ClaimDenom(c) THEN c.amount ELSE 0)
    BY <1>0, <1>3, MintOk, Zenon DEF Pays
  <2>2. SupplyOf(balances') = [SupplyOf(balances) EXCEPT ![ClaimDenom(c)] = @ + c.amount]
    <3> DEFINE f == [SupplyOf(balances) EXCEPT ![ClaimDenom(c)] = @ + c.amount]
    <3>1. f \in [Denoms -> Int] /\ \A d \in Denoms : SupplyOf(balances')[d] = f[d]
      BY <1>1, <2>1
    <3> HIDE DEF f
    <3>2. SupplyOf(balances') = f
      BY <3>1, SupplyExt, Zenon
    <3> QED BY <3>2, Zenon DEF f
  <2>3. Redeemed[id] = NoClaim /\ Redeemed' = [Redeemed EXCEPT ![id] = c] /\ events' = events
    <3>1. Redeemed[id] = NoClaim /\ Redeemed'[id] = c /\ events' = events
      BY <1>3, Zenon DEF Pays, Redeemed
    <3>2. \A k \in Ids \ {id} : Redeemed'[k] = Redeemed[k]
      BY <1>3, Zenon DEF Pays, Redeemed
    <3>3. DOMAIN Redeemed = Ids /\ DOMAIN Redeemed' = Ids /\ Redeemed' = [k \in Ids |-> Redeemed'[k]]
      BY Zenon DEF Redeemed
    <3> QED BY <3>1, <3>2, <3>3, Zenon
  <2>4. Ledger!Redeem(id, c)
    BY <2>2, <2>3, Zenon DEF Ledger!Redeem, Redeemed
  <2> QED BY <2>4, Zenon DEF Ledger!LedgerNext
<1>4. ASSUME NEW a \in Accounts, NEW to \in EthAddresses, NEW s \in Denoms, NEW n \in Amounts, NEW fee \in Fees,
             ExportsCoins(a, to, s, n, fee)
      PROVE  Goal
  <2>1. /\ n <= SupplyOf(balances)[s]
        /\ \A d \in Denoms : SupplyOf(balances')[d] = SupplyOf(balances)[d] - (IF d = s THEN n ELSE 0)
    BY <1>0, <1>4, ExportOk DEF ExportsCoins
  <2>2. n \in Nat
    BY BridgeAssumption, Zenon
  <2>3. SupplyOf(balances') = [SupplyOf(balances) EXCEPT ![s] = @ - n]
    <3> DEFINE f == [SupplyOf(balances) EXCEPT ![s] = @ - n]
    <3>1. f \in [Denoms -> Int] /\ \A d \in Denoms : SupplyOf(balances')[d] = f[d]
      BY <1>1, <2>1, <2>2
    <3> HIDE DEF f
    <3>2. SupplyOf(balances') = f
      BY <3>1, SupplyExt, Zenon
    <3> QED BY <3>2, Zenon DEF f
  <2>4. PICK e : e.symbol = s /\ e.amount = n /\ events' = Append(events, e)
    BY <1>4, Zenon DEF ExportsCoins, Emit
  <2>5. /\ Len(events') = Len(events) + 1
        /\ SubSeq(events', 1, Len(events)) = events
        /\ events'[Len(events')] = e
    BY <1>0, <2>4
  <2>6. Redeemed' = Redeemed
    BY <1>4, Zenon DEF ExportsCoins, Redeemed
  <2>7. SupplyOf(balances)[s] >= n
    BY <1>1, <2>1, <2>2, Zenon
  <2>8. Ledger!Announce
    BY <2>3, <2>4, <2>5, <2>6, <2>7, Zenon DEF Ledger!Announce, Redeemed
  <2> QED BY <2>8, Zenon DEF Ledger!LedgerNext
<1>5. ASSUME NEW a \in Accounts, NEW to \in Accounts, NEW n \in Amounts, RescueCeth(a, to, n) PROVE Goal
  <2>1. SupplyOf(balances') = SupplyOf(balances)
    <3>1. \A d \in Denoms : SupplyOf(balances')[d] = SupplyOf(balances)[d]
      BY <1>0, <1>5, RescueOk, Zenon
    <3>2. PICK f \in [Denoms -> Int] : f = SupplyOf(balances)
      BY <1>1
    <3>3. SupplyOf(balances') = f
      BY <3>1, <3>2, SupplyExt, Zenon
    <3> QED BY <3>2, <3>3, Zenon
  <2>2. events' = events /\ Redeemed' = Redeemed
    BY <1>5, Zenon DEF RescueCeth, oracleVars, Redeemed
  <2> QED BY <1>2, <2>1, <2>2, Zenon
<1>6. ASSUME KeepsBooks PROVE Goal
  <2>1. events' = events /\ SupplyOf(balances') = SupplyOf(balances)
    BY <1>6, Zenon DEF KeepsBooks
  <2>2. \A id \in Ids : Redeemed'[id] = Redeemed[id]
    BY <1>6, Zenon DEF KeepsBooks, Redeemed
  <2>3. Redeemed' = Redeemed
    BY <2>2, Zenon DEF Redeemed
  <2> QED BY <1>2, <2>1, <2>3, Zenon
<1> HIDE DEF Goal
<1>7. Goal
  BY <1>3, <1>4, <1>5, <1>6, BooksStep, Zenon
<1> QED
  BY <1>7, Zenon DEF Goal

\* The bridge implements the ledger, for every set of accounts, coins, validators and
\* claims (CreateEthBridgeClaim, msgServer.Lock, msgServer.Burn and the rest).
THEOREM BridgeImplementsLedger == Spec => ImplementsLedger
<1>1. Init => Ledger!LedgerInit
  BY DEF Init, OracleInit, NewProphecy, Ledger!LedgerInit
<1> QED
  BY <1>1, LedgerStep, BooksInvariant, PTL DEF Spec, ImplementsLedger, Ledger!LedgerSpec

=============================================================================
