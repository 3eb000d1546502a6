------------------------------ MODULE CosmosSub ------------------------------
(***************************************************************************)
(* The relayer's Cosmos listener (cmd/ebrelayer, CosmosSub) and the        *)
(* replayCosmos command of the same validator.  Both walk through the      *)
(* blocks of the chain and send a transaction to CosmosBridge for every    *)
(* Lock and Burn message; they are separate processes which sign with one  *)
(* Ethereum account, whose node refuses a nonce it has seen before.        *)
(*                                                                         *)
(* What the contract makes of a transaction is not looked at: a receipt    *)
(* counts as success also when the call was reverted.                      *)
(***************************************************************************)
EXTENDS Integers, Sequences, FiniteSets, Functions

CONSTANTS
    Messages,      \* Lock and Burn messages of the chain
    MessagesIn,    \* [1..MaxHeight -> Seq(Messages)], every message once
    KeyOf,         \* [Messages -> sender and sequence number]
    Unparsable,    \* messages without a complete set of attributes
    MaxHeight,     \* bound: blocks of the chain
    MaxAttempts,   \* attempts to send one transaction: maxRetries
    MaxSends,      \* bound: transactions of the Ethereum account
    MaxRestarts,   \* bound: restarts of the listener
    MaxReplays     \* bound: runs of replayCosmos

ASSUME CosmosSubAssumption ==
    /\ MessagesIn \in [1..MaxHeight -> Seq(Messages)]
    /\ Messages \subseteq DOMAIN KeyOf
    /\ Unparsable \subseteq Messages
    /\ MaxHeight \in Nat \ {0} /\ MaxAttempts \in Nat \ {0} /\ MaxSends \in Nat
    /\ MaxRestarts \in Nat /\ MaxReplays \in Nat

VARIABLES
    height,        \* the newest block of the chain
    proc,          \* [Processes -> where the process is]
    lastProcessedBlock, checkpoint,   \* of the listener: in memory, in the database
    pool,          \* transactions the node holds: a function from nonces to messages
    mined,         \* messages of the account's mined transactions, by nonce
    processed,     \* keys of the claims replayCosmos found on Ethereum when it began
    restarts, replays,
    first,         \* history: the first block the checkpoint covers
    sent,          \* history: messages the node took a transaction for
    gaveUp,        \* history: messages given up without an answer from the node
    handled        \* history: calls of handleBurnLockMsg for each message

chainVars == <<height, lastProcessedBlock, checkpoint, first>>
ethVars == <<pool, mined, sent>>
countVars == <<restarts, replays>>
historyVars == <<gaveUp, handled>>
vars == <<chainVars, ethVars, countVars, historyVars, proc, processed>>

Processes == {"listener", "replay"}

\* A process that does nothing; a process at message number idx of a block, or
\* with idx 0 about to fetch it, on its way to the block last; and one that
\* sends this message or waits for the receipt.
Resting(state) == [at |-> state, block |-> 0, last |-> 0, idx |-> 0, attempt |-> 0, nonce |-> 0]

Walking(block, last, idx) ==
    [at |-> "walking", block |-> block, last |-> last, idx |-> idx, attempt |-> 0, nonce |-> 0]

Sending(p, state, attempt, nonce) ==
    [at |-> state, block |-> proc[p].block, last |-> proc[p].last, idx |-> proc[p].idx,
     attempt |-> attempt, nonce |-> nonce]

Move(p, state) == proc' = [proc EXCEPT ![p] = state]

\* The message a process has come to, if its block has one more.
AtMessage(p) == proc[p].at # "waiting" /\ proc[p].idx \in DOMAIN MessagesIn[proc[p].block]

Message(p) == MessagesIn[proc[p].block][proc[p].idx]

NextMessage(p) == Move(p, Walking(proc[p].block, proc[p].last, proc[p].idx + 1))

AfterBlock(p) == IF proc[p].block < proc[p].last THEN Walking(proc[p].block + 1, proc[p].last, 0)
                 ELSE Resting("waiting")

-----------------------------------------------------------------------------
(* The Ethereum node.                                                      *)

\* The next nonce after the transactions mined and those waiting in a row.
PendingNonceAt ==
    CHOOSE n \in Len(mined)..MaxSends :
        n \notin DOMAIN pool /\ \A k \in Len(mined)..(n - 1) : k \in DOMAIN pool

Takes(nonce) == nonce >= Len(mined) /\ nonce \notin DOMAIN pool

Pooled(nonce, m) ==
    [n \in DOMAIN pool \cup {nonce} |-> IF n = nonce THEN m ELSE pool[n]]

Mine ==
    /\ Len(mined) \in DOMAIN pool
    /\ mined' = Append(mined, pool[Len(mined)])
    /\ pool' = Restrict(pool, DOMAIN pool \ {Len(mined)})
    /\ UNCHANGED <<chainVars, countVars, historyVars, sent, proc, processed>>

Evict(nonce) ==
    /\ pool' = Restrict(pool, DOMAIN pool \ {nonce})
    /\ UNCHANGED <<chainVars, countVars, historyVars, mined, sent, proc, processed>>

-----------------------------------------------------------------------------
(* handleBurnLockMsg: one message, up to MaxAttempts transactions, all with *)
(* the nonce the node gave before the first.                               *)

MessageProcessed(m) == KeyOf[m] \in processed

Skips(p, m) == m \in Unparsable \/ (p = "replay" /\ MessageProcessed(m))

SkipMessage(p) ==
    /\ proc[p].at = "walking" /\ AtMessage(p)
    /\ Skips(p, Message(p))
    /\ NextMessage(p)
    /\ UNCHANGED <<chainVars, ethVars, countVars, historyVars, processed>>

InitRelayConfig(p) ==
    /\ proc[p].at = "walking" /\ AtMessage(p)
    /\ ~Skips(p, Message(p))
    /\ PendingNonceAt < MaxSends
    /\ Move(p, Sending(p, "sending", 0, PendingNonceAt))
    /\ handled' = [handled EXCEPT ![Message(p)] = @ + 1]
    /\ UNCHANGED <<chainVars, ethVars, countVars, gaveUp, processed>>

\* The node could not be reached five times, so the message is passed over.
InitRelayConfigFails(p) ==
    /\ proc[p].at = "walking" /\ AtMessage(p)
    /\ ~Skips(p, Message(p))
    /\ gaveUp' = gaveUp \cup {Message(p)}
    /\ NextMessage(p)
    /\ UNCHANGED <<chainVars, ethVars, countVars, handled, processed>>

\* Mutant: every attempt asks for a nonce of its own.
AttemptFailsRenewing(p) ==
    IF proc[p].attempt + 1 < MaxAttempts
    THEN /\ Move(p, Sending(p, "sending", proc[p].attempt + 1,
                            IF PendingNonceAt < MaxSends THEN PendingNonceAt ELSE proc[p].nonce))
         /\ UNCHANGED gaveUp
    ELSE NextMessage(p) /\ gaveUp' = gaveUp \cup {Message(p)}

\* An attempt came to nothing; the last one leaves the message behind.
AttemptFails(p) ==
    IF proc[p].attempt + 1 < MaxAttempts
    THEN /\ Move(p, Sending(p, "sending", proc[p].attempt + 1, proc[p].nonce))
         /\ UNCHANGED gaveUp
    ELSE NextMessage(p) /\ gaveUp' = gaveUp \cup {Message(p)}

\* NewProphecyClaim signs and sends.  The node takes the transaction or refuses
\* it, and its answer may be lost on the way.
SendClaim(p, answered) ==
    /\ proc[p].at = "sending"
    /\ LET taken == Takes(proc[p].nonce)
       IN  /\ pool' = IF taken THEN Pooled(proc[p].nonce, Message(p)) ELSE pool
           /\ sent' = IF taken THEN sent \cup {Message(p)} ELSE sent
           /\ IF taken /\ answered
              THEN Move(p, Sending(p, "receipt", proc[p].attempt, proc[p].nonce)) /\ UNCHANGED gaveUp
              ELSE AttemptFails(p)
    /\ UNCHANGED <<chainVars, countVars, handled, mined, processed>>

SendLost(p) ==
    /\ proc[p].at = "sending"
    /\ AttemptFails(p)
    /\ UNCHANGED <<chainVars, ethVars, countVars, handled, processed>>

Receipt(p) ==
    /\ proc[p].at = "receipt"
    /\ proc[p].nonce < Len(mined) /\ mined[proc[p].nonce + 1] = Message(p)
    /\ NextMessage(p)
    /\ UNCHANGED <<chainVars, ethVars, countVars, historyVars, processed>>

\* Mutant: a receipt is waited for as long as it takes.
ReceiptTimeoutNever(p) ==
    /\ proc[p].at = "receipt"
    /\ UNCHANGED vars

\* Sixty queries without a receipt: the attempt failed.
ReceiptTimeout(p) ==
    /\ proc[p].at = "receipt"
    /\ AttemptFails(p)
    /\ UNCHANGED <<chainVars, ethVars, countVars, handled, processed>>

-----------------------------------------------------------------------------
(* The two walks.                                                          *)

\* A listener without a checkpoint begins after the block it hears of first.
Start ==
    /\ proc["listener"].at = "connecting"
    /\ Move("listener", Resting("waiting"))
    /\ lastProcessedBlock' = checkpoint
    /\ UNCHANGED <<height, checkpoint, first, ethVars, countVars, historyVars, processed>>

NewBlockEvent ==
    /\ proc["listener"].at = "waiting"
    /\ LET done == IF lastProcessedBlock = 0 THEN height ELSE lastProcessedBlock
       IN  /\ lastProcessedBlock' = done
           /\ Move("listener", IF done < height THEN Walking(done + 1, height, 0)
                               ELSE Resting("waiting"))
    /\ UNCHANGED <<height, checkpoint, first, ethVars, countVars, historyVars, processed>>

BlockResults(p) ==
    /\ proc[p].at = "walking" /\ proc[p].idx = 0
    /\ NextMessage(p)
    /\ UNCHANGED <<chainVars, ethVars, countVars, historyVars, processed>>

\* The chain's node does not answer: the listener asks again, without a limit; the
\* replay leaves the block out.
BlockResultsFails(p) ==
    /\ proc[p].at = "walking" /\ proc[p].idx = 0
    /\ Move(p, IF p = "listener" THEN proc[p] ELSE AfterBlock(p))
    /\ UNCHANGED <<chainVars, ethVars, countVars, historyVars, processed>>

\* Mutant: the newest block is saved after every block of the walk.
BlockDoneEarly(p) ==
    /\ proc[p].at = "walking" /\ proc[p].idx # 0 /\ ~AtMessage(p)
    /\ Move(p, AfterBlock(p))
    /\ IF p = "listener"
       THEN /\ lastProcessedBlock' = proc[p].block
            /\ checkpoint' = proc[p].last
            /\ first' = IF checkpoint = 0 THEN proc[p].block ELSE first
       ELSE UNCHANGED <<lastProcessedBlock, checkpoint, first>>
    /\ UNCHANGED <<height, ethVars, countVars, historyVars, processed>>

\* The end of a block: the listener saves it, the replay does not.
BlockDone(p) ==
    /\ proc[p].at = "walking" /\ proc[p].idx # 0 /\ ~AtMessage(p)
    /\ Move(p, AfterBlock(p))
    /\ IF p = "listener"
       THEN /\ lastProcessedBlock' = proc[p].block
            /\ checkpoint' = proc[p].block
            /\ first' = IF checkpoint = 0 THEN proc[p].block ELSE first
       ELSE UNCHANGED <<lastProcessedBlock, checkpoint, first>>
    /\ UNCHANGED <<height, ethVars, countVars, historyVars, processed>>

\* The listener's process is killed, or panics, and is started again.
Restart ==
    /\ restarts < MaxRestarts
    /\ restarts' = restarts + 1
    /\ Move("listener", Resting("connecting"))
    /\ lastProcessedBlock' = 0
    /\ UNCHANGED <<height, checkpoint, first, ethVars, replays, historyVars, processed>>

\* replayCosmos first collects the claims its account has on Ethereum, by
\* sender and sequence number, then walks through the blocks from..to.
Replay(from, to) ==
    /\ proc["replay"].at = "waiting"
    /\ replays < MaxReplays
    /\ replays' = replays + 1
    /\ processed' = {KeyOf[mined[i]] : i \in DOMAIN mined}
    /\ Move("replay", Walking(from, to, 0))
    /\ UNCHANGED <<chainVars, ethVars, restarts, historyVars>>

NewBlock ==
    /\ height < MaxHeight
    /\ height' = height + 1
    /\ UNCHANGED <<lastProcessedBlock, checkpoint, first, ethVars, countVars, historyVars, proc, processed>>

-----------------------------------------------------------------------------

Init ==
    /\ height = 1
    /\ proc = [p \in Processes |-> Resting(IF p = "listener" THEN "connecting" ELSE "waiting")]
    /\ lastProcessedBlock = 0 /\ checkpoint = 0
    /\ pool = <<>> /\ mined = <<>>
    /\ processed = {}
    /\ restarts = 0 /\ replays = 0
    /\ first = 0
    /\ sent = {} /\ gaveUp = {}
    /\ handled = [m \in Messages |-> 0]

Handle(p) ==
    \/ SkipMessage(p)
    \/ InitRelayConfig(p)
    \/ InitRelayConfigFails(p)
    \/ \E answered \in BOOLEAN : SendClaim(p, answered)
    \/ SendLost(p)
    \/ Receipt(p)
    \/ ReceiptTimeout(p)
    \/ BlockDone(p)

Fetch(p) == BlockResults(p) \/ BlockResultsFails(p)

Next ==
    \/ NewBlock
    \/ Mine
    \/ \E nonce \in DOMAIN pool : Evict(nonce)
    \/ Start
    \/ NewBlockEvent
    \/ Restart
    \/ \E from, to \in 1..height : from <= to /\ Replay(from, to)
    \/ \E p \in Processes : Fetch(p) \/ Handle(p)

Spec == Init /\ [][Next]_vars

\* The chain goes on, its node answers in the end when it is asked for a block again
\* and again, and the processes run.
Fairness ==
    /\ WF_vars(NewBlock)
    /\ WF_vars(Start)
    /\ WF_vars(NewBlockEvent)
    /\ WF_vars(BlockResults("listener"))
    /\ WF_vars(Handle("listener"))

FairSpec == Spec /\ Fairness

-----------------------------------------------------------------------------
(* Properties.                                                             *)

\* No checkpoint is ahead of the work: every message in a block it covers was
\* taken by the node in a transaction, or given up after all attempts.
CheckpointHasBeenHandled ==
    \A b \in 1..MaxHeight :
        first # 0 /\ first <= b /\ b <= checkpoint
            => \A i \in DOMAIN MessagesIn[b] : MessagesIn[b][i] \in sent \cup gaveUp \cup Unparsable

\* Retrying does not repeat: however often answers get lost, receipts time out
\* and transactions are evicted, one call of handleBurnLockMsg puts at most one
\* transaction on Ethereum, because all its attempts carry one nonce.
OneClaimPerHandling ==
    \A m \in Messages : Cardinality({i \in DOMAIN mined : mined[i] = m}) <= handled[m]

\* The listener reaches every block: no message, lost answer, missing receipt
\* or nonce taken by a replay holds it up for ever.  Only a node of the chain that
\* never delivers a block would (the loop of CosmosSub.Start).
CatchesUp == []<>(lastProcessedBlock = MaxHeight)

=============================================================================
