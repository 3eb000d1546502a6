----------------------------- MODULE EthereumSub -----------------------------
(***************************************************************************)
(* The relayer's Ethereum listener (cmd/ebrelayer, EthereumSub), one per   *)
(* validator, composed with the oracle of the chain.  On a new header it   *)
(* reads the bridge's events of the blocks from its checkpoint up to       *)
(* Trailing blocks behind the header, sends their claims in one            *)
(* transaction, sleeps, and saves the checkpoint.  The relayer may be      *)
(* killed at any point and keeps only what is in its database.             *)
(*                                                                         *)
(* The other validators claim an event at any time after it happened.      *)
(* Honest relayers read one event alike, so a prophecy has one content.    *)
(* Whitelist and stakes are fixed here (module Oracle changes them).       *)
(***************************************************************************)
EXTENDS Integers, Sequences, FiniteSets, FiniteSetsExt

CONSTANTS
    Validators, Ids, Content, NoClaim, Accounts, AdminAccount, ConsensusNum,
    ConsensusDen, MaxPower, GenesisWhitelist, GenesisPower,
    Relayers,      \* the validators whose relayers are modelled
    Claiming,      \* other validators, that claim every event in the end
    BlockOf,       \* [Ids -> 1..MaxBlock]: the Ethereum block of each event
    Unparsable,    \* events no claim can be made of
    Unpayable,     \* events whose coins the chain cannot pay out
    MaxBlock,      \* bound: Ethereum blocks
    Trailing,      \* trailingBlocks
    MaxReorg,      \* bound: depth of a reorganisation of Ethereum
    MaxRestarts,   \* bound: restarts of one relayer's process
    Faulty         \* whether transactions may be refused, dropped or late

ASSUME RelayAssumption ==
    /\ Relayers \subseteq Validators
    /\ Claiming \subseteq Validators \ Relayers
    /\ BlockOf \in [Ids -> 1..MaxBlock]
    /\ Unparsable \subseteq Ids
    /\ Unpayable \subseteq Ids
    /\ MaxBlock \in Nat
    /\ Trailing \in Nat
    /\ MaxReorg \in 0..Trailing
    /\ MaxRestarts \in Nat
    /\ Faulty \in BOOLEAN

VARIABLES
    prophecies, whitelist, bonded, power,   \* the oracle and staking
    head,                \* the newest Ethereum block
    phase,               \* of the listener: connecting, listening, saving, stopped
    lastProcessedBlock,  \* in memory; 0 if there is no checkpoint
    checkpoint,          \* in the database; 0 if absent
    endingBlock,         \* the last block of the range being processed
    inFlight,            \* claims broadcast and not yet in a block
    restarts,
    attempted,           \* history: events the listener has sent
    first                \* history: the block the first checkpoint began with

oracleVars == <<prophecies, whitelist, bonded, power>>
subVars == <<phase, lastProcessedBlock, checkpoint, endingBlock, restarts, first>>
vars == <<oracleVars, head, subVars, inFlight, attempted>>

O == INSTANCE Oracle WITH Contents <- {Content}

-----------------------------------------------------------------------------
(* Towards the chain.                                                      *)

\* BroadcastTx signs with the sequence of the last block, so the node refuses a
\* transaction while another one of the same relayer is on its way.  It answers
\* before the transaction is in a block, and its answer is only logged.
RelayToCosmos(v, claims, lost) ==
    inFlight' = [inFlight EXCEPT ![v] = IF @ = {} /\ ~lost THEN claims ELSE @]

Claimed(v, claims) ==
    [e \in Ids |->
        IF e \in claims
        THEN CHOOSE p \in O!ProcessCompletion(O!AddClaim(prophecies[e], v, Content)) : TRUE
        ELSE prophecies[e]]

\* The transaction fails as a whole if one of its messages does.
Accepted(v, claims) ==
    /\ \A e \in claims : O!MayClaim(v, e)
    /\ \A e \in claims \cap Unpayable : Claimed(v, claims)[e].status # "SUCCESS"

DeliverTx(v) ==
    /\ inFlight[v] # {}
    /\ inFlight' = [inFlight EXCEPT ![v] = {}]
    /\ prophecies' = IF Accepted(v, inFlight[v]) THEN Claimed(v, inFlight[v]) ELSE prophecies
    /\ UNCHANGED <<whitelist, bonded, power, head, subVars, attempted>>

\* A claim of another validator, whose relayer has read the event.
OtherClaim(v, e) ==
    /\ BlockOf[e] <= head
    /\ Accepted(v, {e})
    /\ prophecies' = Claimed(v, {e})
    /\ UNCHANGED <<whitelist, bonded, power, head, subVars, inFlight, attempted>>

DropTx(v) ==
    /\ Faulty
    /\ inFlight[v] # {}
    /\ inFlight' = [inFlight EXCEPT ![v] = {}]
    /\ UNCHANGED <<oracleVars, head, subVars, attempted>>

-----------------------------------------------------------------------------
(* The listener.                                                           *)

\* Connecting, reading the network id and the registry may fail and are tried
\* again from the beginning.
Start(v) ==
    /\ phase[v] = "connecting"
    /\ phase' = [phase EXCEPT ![v] = "listening"]
    /\ lastProcessedBlock' = [lastProcessedBlock EXCEPT ![v] = checkpoint[v]]
    /\ UNCHANGED <<oracleVars, head, checkpoint, endingBlock, restarts, first, inFlight, attempted>>

\* When the subscription itself fails Start returns for good.
SubscribeNewHeadFails(v) ==
    /\ phase[v] = "connecting"
    /\ phase' = [phase EXCEPT ![v] = "stopped"]
    /\ UNCHANGED <<oracleVars, head, lastProcessedBlock, checkpoint, endingBlock, restarts, first,
                   inFlight, attempted>>

SubscriptionError(v) ==
    /\ phase[v] = "listening"
    /\ phase' = [phase EXCEPT ![v] = "connecting"]
    /\ lastProcessedBlock' = [lastProcessedBlock EXCEPT ![v] = 0]
    /\ UNCHANGED <<oracleVars, head, checkpoint, endingBlock, restarts, first, inFlight, attempted>>

FromBlock(v, n) == IF lastProcessedBlock[v] = 0 THEN n - Trailing ELSE lastProcessedBlock[v]

\* The events of a range; none if the range is empty, which it is when the
\* header comes from a reorganisation and its number is behind the last one.
EventsIn(from, to) == {e \in Ids : BlockOf[e] \in from..to} \ Unparsable

NewHead(v, n, lost) ==
    /\ phase[v] = "listening"
    /\ n - Trailing >= 0
    /\ LET claims == EventsIn(FromBlock(v, n), n - Trailing)
       IN  /\ RelayToCosmos(v, claims, lost)
           /\ attempted' = [attempted EXCEPT ![v] = @ \cup claims]
    /\ lastProcessedBlock' = [lastProcessedBlock EXCEPT ![v] = FromBlock(v, n)]
    /\ endingBlock' = [endingBlock EXCEPT ![v] = n - Trailing]
    /\ phase' = [phase EXCEPT ![v] = "saving"]
    /\ UNCHANGED <<oracleVars, head, checkpoint, restarts, first>>

\* Mutant: the failed range is skipped.
FilterLogsFailsSkipping(v, n) ==
    /\ phase[v] = "listening"
    /\ n - Trailing >= 0
    /\ lastProcessedBlock' = [lastProcessedBlock EXCEPT ![v] = n - Trailing + 1]
    /\ UNCHANGED <<oracleVars, head, phase, checkpoint, endingBlock, restarts, first, inFlight, attempted>>

\* FilterLogs fails: the blocks are read with the next header.
FilterLogsFails(v, n) ==
    /\ phase[v] = "listening"
    /\ n - Trailing >= 0
    /\ lastProcessedBlock' = [lastProcessedBlock EXCEPT ![v] = FromBlock(v, n)]
    /\ UNCHANGED <<oracleVars, head, phase, checkpoint, endingBlock, restarts, first, inFlight, attempted>>

\* Mutant: the block processed last is saved, not the one after it.
SaveCheckpointSame(v) ==
    /\ phase[v] = "saving"
    /\ ~Faulty => inFlight[v] = {}
    /\ checkpoint' = [checkpoint EXCEPT ![v] = endingBlock[v]]
    /\ first' = [first EXCEPT ![v] = IF checkpoint[v] = 0 THEN lastProcessedBlock[v] ELSE @]
    /\ lastProcessedBlock' = [lastProcessedBlock EXCEPT ![v] = endingBlock[v] + 1]
    /\ endingBlock' = [endingBlock EXCEPT ![v] = 0]
    /\ phase' = [phase EXCEPT ![v] = "listening"]
    /\ UNCHANGED <<oracleVars, head, restarts, inFlight, attempted>>

\* After the pause of transactionInterval, which a block normally fits in.
SaveCheckpoint(v) ==
    /\ phase[v] = "saving"
    /\ ~Faulty => inFlight[v] = {}
    /\ checkpoint' = [checkpoint EXCEPT ![v] = endingBlock[v] + 1]
    /\ first' = [first EXCEPT ![v] = IF checkpoint[v] = 0 THEN lastProcessedBlock[v] ELSE @]
    /\ lastProcessedBlock' = [lastProcessedBlock EXCEPT ![v] = endingBlock[v] + 1]
    /\ endingBlock' = [endingBlock EXCEPT ![v] = 0]
    /\ phase' = [phase EXCEPT ![v] = "listening"]
    /\ UNCHANGED <<oracleVars, head, restarts, inFlight, attempted>>

\* The process is killed, or ends with log.Fatal, and is started again; what was
\* in memory is gone.
Restart(v) ==
    /\ restarts[v] < MaxRestarts
    /\ restarts' = [restarts EXCEPT ![v] = @ + 1]
    /\ phase' = [phase EXCEPT ![v] = "connecting"]
    /\ lastProcessedBlock' = [lastProcessedBlock EXCEPT ![v] = 0]
    /\ endingBlock' = [endingBlock EXCEPT ![v] = 0]
    /\ UNCHANGED <<oracleVars, head, checkpoint, first, inFlight, attempted>>

\* Mutant: events the listener has sent are passed over.
ReplayUnsent(v, e, lost) ==
    /\ e \in EventsIn(1, head)
    /\ RelayToCosmos(v, {e} \ attempted[v], lost)
    /\ UNCHANGED <<oracleVars, head, subVars, attempted>>

\* The operator runs replayEthereum.  It sends every event of the range in a
\* transaction of its own, also the events claimed before: the command looks
\* for claims of an empty validator address and finds none.
Replay(v, e, lost) ==
    /\ e \in EventsIn(1, head)
    /\ RelayToCosmos(v, {e}, lost)
    /\ UNCHANGED <<oracleVars, head, subVars, attempted>>

-----------------------------------------------------------------------------

MineBlock ==
    /\ head < MaxBlock
    /\ head' = head + 1
    /\ UNCHANGED <<oracleVars, subVars, inFlight, attempted>>

Init ==
    /\ O!OracleInit
    /\ head = 0
    /\ phase = [v \in Relayers |-> "connecting"]
    /\ lastProcessedBlock = [v \in Relayers |-> 0]
    /\ checkpoint = [v \in Relayers |-> 0]
    /\ endingBlock = [v \in Relayers |-> 0]
    /\ inFlight = [v \in Relayers |-> {}]
    /\ restarts = [v \in Relayers |-> 0]
    /\ attempted = [v \in Relayers |-> {}]
    /\ first = [v \in Relayers |-> 0]

Losses == IF Faulty THEN BOOLEAN ELSE {FALSE}

\* Headers announced now: the newest ones, again after a reorganisation.
Heads == {n \in 1..head : n >= head - MaxReorg}

Listener(v) ==
    \/ Start(v)
    \/ SubscribeNewHeadFails(v)
    \/ SubscriptionError(v)
    \/ \E n \in Heads, lost \in Losses : NewHead(v, n, lost)
    \/ \E n \in Heads : FilterLogsFails(v, n)
    \/ SaveCheckpoint(v)
    \/ Restart(v)

Next ==
    \/ MineBlock
    \/ \E v \in Relayers :
          \/ Listener(v)
          \/ DeliverTx(v)
          \/ DropTx(v)
          \/ \E e \in Ids, lost \in Losses : Replay(v, e, lost)
    \/ \E v \in Validators \ Relayers, e \in Ids : OtherClaim(v, e)

Spec == Init /\ [][Next]_vars

\* Ethereum goes on; a listener that can act does, and gets its answer from the
\* node again and again; a transaction sent again and again is taken into a
\* block; an operator replays an event until its prophecy is finalised; and the
\* operators of Claiming see to it that their relayers claim it too.
Fairness ==
    /\ WF_vars(MineBlock)
    /\ \A v \in Relayers :
          /\ WF_vars(Start(v))
          /\ SF_vars(\E lost \in Losses : NewHead(v, head, lost))
          /\ WF_vars(SaveCheckpoint(v))
          /\ WF_vars(DeliverTx(v) \/ DropTx(v))
          /\ \A e \in Ids :
                /\ SF_vars(inFlight[v] = {e} /\ DeliverTx(v))
                /\ SF_vars(/\ inFlight[v] = {}
                           /\ prophecies[e].status = "PENDING"
                           /\ Replay(v, e, FALSE))
    /\ \A v \in Claiming : WF_vars(\E e \in Ids : OtherClaim(v, e))

FairSpec == Spec /\ Fairness

-----------------------------------------------------------------------------
(* Properties.                                                             *)

\* The listener's state and its history are well formed.
TypeOK ==
    /\ head \in 0..MaxBlock
    /\ phase \in [Relayers -> {"connecting", "listening", "saving", "stopped"}]
    /\ lastProcessedBlock \in [Relayers -> 0..MaxBlock + 1]
    /\ checkpoint \in [Relayers -> 0..MaxBlock + 1]
    /\ endingBlock \in [Relayers -> 0..MaxBlock]
    /\ inFlight \in [Relayers -> SUBSET Ids]
    /\ attempted \in [Relayers -> SUBSET Ids]
    /\ first \in [Relayers -> 0..MaxBlock]

\* No checkpoint is ahead of the work: an event in a block from the first
\* processed one up to the checkpoint has been sent, however often the listener
\* was killed between sending and saving, met a failing node, or was told of a
\* header behind its checkpoint.
CheckpointHasBeenSent ==
    \A v \in Relayers : \A e \in Ids \ Unparsable :
        first[v] <= BlockOf[e] /\ BlockOf[e] < checkpoint[v] => e \in attempted[v]

\* A listener reaches the last confirmed block again and again, unless it has
\* stopped because its subscription failed.
CatchesUp ==
    \A v \in Relayers :
        []<>(phase[v] = "stopped" \/ checkpoint[v] = MaxBlock - Trailing + 1)

\* Replaying finalises every event that can be claimed and paid, also those the
\* listeners lost: when a listener was killed before it saved, when it had
\* stopped, or when a transaction failed because another relayer had finalised
\* one of its events first.
ReplayRecovers ==
    \A e \in Ids \ (Unparsable \cup Unpayable) : <>(prophecies[e].status = "SUCCESS")

=============================================================================
