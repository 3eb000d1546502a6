---------------------------- MODULE Dispensation ----------------------------
(***************************************************************************)
(* x/dispensation.  A distributor deposits coins for a list of recipients; *)
(* the authorised runner of the distribution later pays them, a limited    *)
(* number of records per message.  Users file claims, which a payment of   *)
(* that type removes.                                                      *)
(*                                                                         *)
(* Records are stored under status, name, type and recipient: the runner   *)
(* is no part of the key, although it is part of a distribution's.  Coins  *)
(* are amounts of one denomination.  The BeginBlocker changes nothing: it  *)
(* is to mint coins for the ecosystem pool, whose constant address has the *)
(* checksum of another prefix than the chain's, and it returns when the    *)
(* address does not decode, before anything is minted.  A restart from an  *)
(* exported genesis keeps records, distributions and claims, hence all of  *)
(* the state here.                                                         *)
(***************************************************************************)
EXTENDS Integers, Sequences, FiniteSets, Functions

CONSTANTS
    Distributors, Runners,
    Recipients,           \* integers, in the order of the store's keys
    Blocked,              \* recipients the bank refuses to pay
    Types, ClaimTypes,    \* ClaimTypes: the types that support a claim
    Outputs,              \* output lists: sequences of [recipient, coins]
    Funds,                \* what a distributor owns at first
    MaxRecordsPerBlock,
    MaxHeight,            \* bound: distributions are created before it, later blocks are not told apart
    MaxDistributions      \* bound

ASSUME DropAssumption ==
    /\ IsFiniteSet(Recipients)
    /\ Outputs \subseteq Seq([recipient : Recipients, coins : Nat])
    /\ Funds \in Nat

VARIABLES
    height,
    distributions,        \* <<name, type, runner>> of every distribution
    pending, completed, failed,  \* records by key: [coins, runner]
    claims,               \* <<user, type>>
    module, balance,      \* the module account; what the distributors own
    dropped, paid, refused  \* history: coins by recipient

recordVars == <<pending, completed, failed>>
fundVars == <<module, balance, dropped, paid, refused>>
vars == <<height, distributions, recordVars, claims, fundVars>>

Names == (1..(MaxHeight - 1)) \X Distributors
Keys == Names \X Types \X Recipients

-----------------------------------------------------------------------------
(* Messages.                                                               *)

Coins(records) == [k \in DOMAIN records |-> records[k].coins]

\* Records written to the store replace those of the same key.
Over(written, records) ==
    [k \in DOMAIN written \cup DOMAIN records |->
        IF k \in DOMAIN written THEN written[k] ELSE records[k]]

DropsTo(output, r) ==
    SumFunctionOnSet(Coins(output), {i \in DOMAIN output : output[i].recipient = r})

\* A record of no coins is refused, unless what is pending makes it positive.
Valid(output, name, type) ==
    \A i \in DOMAIN output :
        \/ <<name, type, output[i].recipient>> \in DOMAIN pending
        \/ \E j \in 1..i : output[j].recipient = output[i].recipient /\ output[j].coins > 0

\* Mutant: a second output of a recipient replaces the pending record.
CreateDropsAnew(output, name, type, runner) ==
    LET keys == {<<name, type, output[i].recipient>> : i \in DOMAIN output}
    IN  pending' = Over([k \in keys |-> [coins |-> DropsTo(output, k[3]), runner |-> runner]],
                        pending)

\* The coins of a pending record are added to; the record names the new runner.
CreateDrops(output, name, type, runner) ==
    LET keys == {<<name, type, output[i].recipient>> : i \in DOMAIN output}
        old(k) == IF k \in DOMAIN pending THEN pending[k].coins ELSE 0
    IN  pending' = Over([k \in keys |-> [coins |-> DropsTo(output, k[3]) + old(k), runner |-> runner]],
                        pending)

CreateDistribution(distributor, type, output, runner) ==
    LET name  == <<height, distributor>>
        total == SumFunction(Coins(output))
    IN  /\ <<name, type, runner>> \notin distributions
        /\ Cardinality(distributions) < MaxDistributions /\ height < MaxHeight
        /\ balance[distributor] >= total
        /\ Valid(output, name, type)
        /\ distributions' = distributions \cup {<<name, type, runner>>}
        /\ balance' = [balance EXCEPT ![distributor] = @ - total]
        /\ module' = module + total
        /\ CreateDrops(output, name, type, runner)
        /\ dropped' = [r \in Recipients |-> dropped[r] + DropsTo(output, r)]
        /\ UNCHANGED <<height, completed, failed, claims, paid, refused>>

CreateUserClaim(user, type) ==
    /\ <<user, type>> \notin claims
    /\ claims' = claims \cup {<<user, type>>}
    /\ UNCHANGED <<height, distributions, recordVars, fundVars>>

\* The first records, in the order of the store, that a runner may pay.
GetLimitedRecordsForRunner(name, type, runner, count) ==
    LET matching == {k \in DOMAIN pending : /\ k[1] = name /\ k[2] = type
                                            /\ pending[k].runner = runner}
    IN  {k \in matching : Cardinality({l \in matching : l[3] < k[3]}) < count}

\* Mutant: a record that cannot be paid stays pending.
DistributeDropsStuck(run) ==
    LET good == {k \in run : k[3] \notin Blocked}
        part(keys) == [k \in keys |-> pending[k]]
        sum(keys) == SumFunctionOnSet(Coins(pending), keys)
    IN  /\ pending' = Restrict(pending, DOMAIN pending \ good)
        /\ completed' = Over(part(good), completed)
        /\ module' = module - sum(good)
        /\ paid' = [r \in Recipients |-> paid[r] + sum({k \in good : k[3] = r})]
        /\ claims' = claims \ {<<k[3], k[2]>> : k \in {g \in good : g[2] \in ClaimTypes}}
        /\ UNCHANGED <<failed, refused>>

\* Records the bank pays become completed and remove a claim of their type, the
\* others become failed.  A record of the same key and status is overwritten.
DistributeDrops(run) ==
    LET good == {k \in run : k[3] \notin Blocked}
        bad  == run \ good
        part(keys) == [k \in keys |-> pending[k]]
        sum(keys)  == SumFunctionOnSet(Coins(pending), keys)
    IN  /\ sum(good) <= module
        /\ pending' = Restrict(pending, DOMAIN pending \ run)
        /\ completed' = Over(part(good), completed)
        /\ failed' = Over(part(bad), failed)
        /\ module' = module - sum(good)
        /\ paid' = [r \in Recipients |-> paid[r] + sum({k \in good : k[3] = r})]
        /\ refused' = [r \in Recipients |-> refused[r] + sum({k \in bad : k[3] = r})]
        /\ claims' = claims \ {<<k[3], k[2]>> : k \in {g \in good : g[2] \in ClaimTypes}}

RunDistribution(name, type, runner, count) ==
    LET run == GetLimitedRecordsForRunner(name, type, runner, count)
    IN  /\ run # {}
        /\ DistributeDrops(run)
        /\ UNCHANGED <<height, distributions, balance, dropped>>

-----------------------------------------------------------------------------
(* Blocks.                                                                 *)

\* The BeginBlocker returns before it mints.
BeginBlock ==
    /\ height' = IF height < MaxHeight THEN height + 1 ELSE height
    /\ UNCHANGED <<distributions, recordVars, claims, fundVars>>

Init ==
    /\ height = 1
    /\ distributions = {}
    /\ pending = << >> /\ completed = << >> /\ failed = << >>
    /\ claims = {}
    /\ module = 0
    /\ balance = [d \in Distributors |-> Funds]
    /\ dropped = [r \in Recipients |-> 0]
    /\ paid = [r \in Recipients |-> 0]
    /\ refused = [r \in Recipients |-> 0]

Run(name, type, runner) ==
    \E count \in 1..MaxRecordsPerBlock : RunDistribution(name, type, runner, count)

Next ==
    \/ \E d \in Distributors, t \in Types, o \in Outputs, r \in Runners : CreateDistribution(d, t, o, r)
    \/ \E u \in Recipients, t \in ClaimTypes : CreateUserClaim(u, t)
    \/ \E n \in Names, t \in Types, r \in Runners : Run(n, t, r)
    \/ BeginBlock

Spec == Init /\ [][Next]_vars

\* Blocks are produced, and an authorised runner repeats the run message while
\* records are left, as Steps-AuthorizedRunner.md tells it to.
FairSpec ==
    /\ Spec
    /\ WF_vars(BeginBlock)
    /\ \A n \in Names, t \in Types, r \in Runners : WF_vars(Run(n, t, r))

-----------------------------------------------------------------------------
(* Properties.                                                             *)

Held(records, r) ==
    SumFunctionOnSet(Coins(records), {k \in DOMAIN records : k[3] = r})

\* Everything dropped for a recipient was paid, is pending or was refused by
\* the bank, exactly once, whichever runners ran which distributions and
\* although records of one name share a key; the module account holds what was
\* not paid.
DropsAccountedFor ==
    /\ \A r \in Recipients : dropped[r] = paid[r] + Held(pending, r) + refused[r]
    /\ module = SumFunction([r \in Recipients |-> dropped[r] - paid[r]])

\* Every pending record is settled in the end: a recipient the bank refuses
\* does not hold up the records behind it.
RecordsSettle == \A k \in Keys : k \in DOMAIN pending ~> k \notin DOMAIN pending
=============================================================================
