--------------------------- MODULE CosmosSubProofs ---------------------------
(***************************************************************************)
(* Proofs about the Cosmos listener of the relayer, for chains of any      *)
(* length with any messages in their blocks, any number of attempts,       *)
(* restarts and replays.                                                   *)
(***************************************************************************)
EXTENDS CosmosSub, Sums, TLAPS

Done(m) == m \in sent \cup gaveUp \cup Unparsable

BlockIsDone(b) == \A i \in DOMAIN MessagesIn[b] : Done(MessagesIn[b][i])

At == {"connecting", "waiting", "walking", "sending", "receipt"}

Busy(q) == q.at \in {"walking", "sending", "receipt"}

\* The processes are records with these fields, and block numbers are numbers.
Shape ==
    /\ proc = [p \in Processes |-> proc[p]]
    /\ \A p \in Processes :
          proc[p] = [at |-> proc[p].at, block |-> proc[p].block, last |-> proc[p].last,
                     idx |-> proc[p].idx, attempt |-> proc[p].attempt, nonce |-> proc[p].nonce]
    /\ height \in 1..MaxHeight
    /\ lastProcessedBlock \in Nat /\ checkpoint \in Nat /\ first \in Nat

\* Where the listener q is: in the block after the one it finished last, with the
\* messages before its own done, and its own sent once it waits for a receipt.
WalkInv(q) ==
    /\ q.at \in At
    /\ q.at # "connecting" /\ checkpoint # 0 => lastProcessedBlock = checkpoint
    /\ Busy(q) =>
          /\ q.block = lastProcessedBlock + 1
          /\ q.last \in Nat /\ q.block <= q.last /\ q.last <= MaxHeight
          /\ q.idx \in Nat
          /\ \A i \in DOMAIN MessagesIn[q.block] : i < q.idx => Done(MessagesIn[q.block][i])
    /\ q.at = "receipt" => MessagesIn[q.block][q.idx] \in sent

\* What the induction needs.
SubInv ==
    /\ Shape
    /\ WalkInv(proc["listener"])
    /\ \A b \in 1..MaxHeight : first # 0 /\ first <= b /\ b <= checkpoint => BlockIsDone(b)

\* The blocks are sequences of messages.
LEMMA BlockContents ==
    /\ MaxHeight \in Nat \ {0}
    /\ \A b \in 1..MaxHeight : DOMAIN MessagesIn[b] = 1..Len(MessagesIn[b]) /\ Len(MessagesIn[b]) \in Nat
BY CosmosSubAssumption

\* Nothing is covered at the start; the chain has a block.
LEMMA SubInitial == Init => SubInv
<1> SUFFICES ASSUME Init PROVE SubInv
  BY Zenon
<1>1. Shape
  BY CosmosSubAssumption, BlockContents DEF Init, Shape, Resting
<1>2. WalkInv(proc["listener"])
  BY Zenon DEF Init, WalkInv, Resting, Busy, At, Processes
<1> QED
  BY <1>1, <1>2, Zenon DEF SubInv, Init

\* The listener's place after a step: what WalkInv says of it, part by part.
LEMMA WalkIntro ==
    ASSUME proc'["listener"].at \in At,
           proc'["listener"].at # "connecting" /\ checkpoint' # 0 => lastProcessedBlock' = checkpoint',
           Busy(proc'["listener"]) =>
              /\ proc'["listener"].block = lastProcessedBlock' + 1
              /\ proc'["listener"].last \in Nat
              /\ proc'["listener"].block <= proc'["listener"].last
              /\ proc'["listener"].last <= MaxHeight
              /\ proc'["listener"].idx \in Nat
              /\ \A i \in DOMAIN MessagesIn[proc'["listener"].block] :
                    i < proc'["listener"].idx
                       => MessagesIn[proc'["listener"].block][i] \in sent' \cup gaveUp' \cup Unparsable,
           proc'["listener"].at = "receipt"
              => MessagesIn[proc'["listener"].block][proc'["listener"].idx] \in sent'
    PROVE  WalkInv(proc["listener"])'
BY Zenon DEF WalkInv, Busy, Done

\* A listener that begins a walk after the block it finished last.
LEMMA FreshWalk ==
    ASSUME NEW b \in Nat, NEW last \in 1..MaxHeight, b < last,
           proc'["listener"] = Walking(b + 1, last, 0),
           lastProcessedBlock' = b, checkpoint' # 0 => b = checkpoint'
    PROVE  WalkInv(proc["listener"])'
<1> DEFINE q == proc'["listener"]
<1>1. q.at = "walking" /\ q.block = b + 1 /\ q.last = last /\ q.idx = 0
  BY DEF Walking
<1>2. b + 1 \in 1..MaxHeight /\ last \in Nat /\ b + 1 <= last /\ last <= MaxHeight
  BY BlockContents
<1>3. \A i \in DOMAIN MessagesIn[b + 1] : ~(i < 0)
  BY <1>2, BlockContents
<1> HIDE DEF q
<1>4. /\ q.block <= q.last /\ q.last <= MaxHeight
      /\ \A i \in DOMAIN MessagesIn[q.block] : ~(i < q.idx)
      /\ q.idx \in Nat /\ q.last \in Nat /\ q.at \in At
      /\ q.block = lastProcessedBlock' + 1
      /\ q.at # "receipt"
  BY <1>1, <1>2, <1>3 DEF At
<1> QED
  BY <1>4, WalkIntro, Zenon DEF q

\* A listener at rest.
LEMMA FreshRest ==
    ASSUME NEW s \in {"waiting", "connecting"}, proc'["listener"] = Resting(s),
           s # "connecting" /\ checkpoint' # 0 => lastProcessedBlock' = checkpoint'
    PROVE  WalkInv(proc["listener"])'
<1>1. proc'["listener"].at = s
  BY DEF Resting
<1>2. ~Busy(proc'["listener"]) /\ s # "receipt" /\ s \in At
  BY <1>1, Zenon DEF Busy, At
<1> QED
  BY <1>1, <1>2, WalkIntro, Zenon

\* A step that leaves the listener where it is keeps the invariant: what is done
\* stays done.
LEMMA AsideKeeps ==
    ASSUME SubInv, Shape', proc'["listener"] = proc["listener"],
           sent \subseteq sent', gaveUp \subseteq gaveUp',
           UNCHANGED <<lastProcessedBlock, checkpoint, first>>
    PROVE  SubInv'
<1>1. WalkInv(proc["listener"])'
  BY Zenon DEF SubInv, WalkInv, Busy, Done
<1> QED
  BY <1>1, Zenon DEF SubInv, BlockIsDone, Done

\* So does a step of the listener that stays within its block.
LEMMA ListenerKeeps ==
    ASSUME SubInv, Shape', WalkInv(proc["listener"])',
           sent \subseteq sent', gaveUp \subseteq gaveUp', UNCHANGED <<checkpoint, first>>
    PROVE  SubInv'
BY Zenon DEF SubInv, BlockIsDone, Done

\* Moving one process to another record leaves the other process alone.
LEMMA MoveShape ==
    ASSUME Shape, NEW p \in Processes, NEW q, Move(p, q),
           q = [at |-> q.at, block |-> q.block, last |-> q.last, idx |-> q.idx,
                attempt |-> q.attempt, nonce |-> q.nonce],
           height' \in 1..MaxHeight, lastProcessedBlock' \in Nat, checkpoint' \in Nat, first' \in Nat
    PROVE  /\ Shape'
           /\ proc'[p] = q
           /\ \A r \in Processes \ {p} : proc'[r] = proc[r]
<1>1. proc' = [r \in Processes |-> IF r = p THEN q ELSE proc[r]]
  BY Zenon DEF Shape, Move
<1>2. ASSUME NEW r \in Processes
      PROVE  proc'[r] = [at |-> proc'[r].at, block |-> proc'[r].block, last |-> proc'[r].last,
                         idx |-> proc'[r].idx, attempt |-> proc'[r].attempt, nonce |-> proc'[r].nonce]
  <2>1. CASE r = p
    BY <1>1, <2>1, Zenon
  <2>2. CASE r # p
    BY <1>1, <2>2, Zenon DEF Shape
  <2> QED
    BY <2>1, <2>2, Zenon
<1> QED
  BY <1>1, <1>2, Zenon DEF Shape

\* Going on to the next message once this one is done, or to the first of a block,
\* keeps the invariant.
LEMMA NextMessageKeeps ==
    ASSUME SubInv, NEW p \in Processes, NextMessage(p), Busy(proc[p]),
           p = "listener" /\ proc[p].idx # 0 => Message(p) \in sent' \cup gaveUp' \cup Unparsable,
           sent \subseteq sent', gaveUp \subseteq gaveUp', UNCHANGED chainVars
    PROVE  SubInv'
<1> DEFINE q == Walking(proc[p].block, proc[p].last, proc[p].idx + 1)
<1>1. /\ Shape'
      /\ proc'[p] = q
      /\ \A r \in Processes \ {p} : proc'[r] = proc[r]
  <2>1. q = [at |-> q.at, block |-> q.block, last |-> q.last, idx |-> q.idx,
             attempt |-> q.attempt, nonce |-> q.nonce]
    BY Zenon DEF Walking
  <2> HIDE DEF q
  <2>2. Move(p, q)
    BY Zenon DEF q, NextMessage
  <2> QED
    BY <2>1, <2>2, MoveShape, Zenon DEF SubInv, Shape, chainVars
<1>2. CASE p # "listener"
  BY <1>1, <1>2, AsideKeeps, Zenon DEF Processes, chainVars
<1>3. CASE p = "listener"
  <2> DEFINE l == proc["listener"]
  <2>1. /\ q.at = "walking" /\ q.block = l.block /\ q.last = l.last /\ q.idx = l.idx + 1
    BY <1>3, Zenon DEF Walking
  <2>2. /\ WalkInv(l) /\ Busy(l)
        /\ l.idx \in Nat /\ l.block \in 1..MaxHeight
    BY <1>3, BlockContents DEF SubInv, WalkInv, Shape
  <2>3. l.idx # 0 => MessagesIn[l.block][l.idx] \in sent' \cup gaveUp' \cup Unparsable
    BY <1>3, Zenon DEF Message
  <2>4. ASSUME NEW i \in DOMAIN MessagesIn[l.block], i < l.idx + 1
        PROVE  MessagesIn[l.block][i] \in sent' \cup gaveUp' \cup Unparsable
    <3>1. i \in Nat /\ i # 0
      BY <2>2, BlockContents
    <3>2. CASE i = l.idx
      BY <2>3, <3>1, <3>2, Zenon
    <3>3. CASE i < l.idx
      BY <2>2, <3>3, Zenon DEF WalkInv, Done
    <3> QED
      BY <2>2, <2>4, <3>1, <3>2, <3>3
  <2>5. proc'["listener"] = q
    BY <1>1, <1>3, Zenon
  <2> HIDE DEF q
  <2>6. WalkInv(proc["listener"])'
    <3>1. /\ l.block = lastProcessedBlock + 1
          /\ l.last \in Nat /\ l.block <= l.last /\ l.last <= MaxHeight
          /\ checkpoint # 0 => lastProcessedBlock = checkpoint
      BY <2>2, Zenon DEF WalkInv, Busy
    <3>2. lastProcessedBlock' = lastProcessedBlock /\ checkpoint' = checkpoint
      BY Zenon DEF chainVars
    <3>3. q.idx \in Nat /\ q.at \in At /\ q.at # "receipt"
      BY <2>1, <2>2 DEF At
    <3>4. \A i \in DOMAIN MessagesIn[q.block] :
             i < q.idx => MessagesIn[q.block][i] \in sent' \cup gaveUp' \cup Unparsable
      BY <2>1, <2>4, Zenon
    <3>5. q.block = lastProcessedBlock' + 1 /\ q.last \in Nat /\ q.block <= q.last /\ q.last <= MaxHeight
      BY <2>1, <3>1, <3>2, Zenon
    <3> QED
      BY <2>5, <3>1, <3>2, <3>3, <3>4, <3>5, WalkIntro, Zenon
  <2> QED
    BY <1>1, <2>6, ListenerKeeps, Zenon DEF chainVars
<1> QED
  BY <1>2, <1>3, Zenon

\* A step of a process within its message: it begins to send, tries again or waits
\* for a receipt.
LEMMA SameMessageKeeps ==
    ASSUME SubInv, NEW p \in Processes, NEW q, Move(p, q), Busy(proc[p]),
           q = [at |-> q.at, block |-> proc[p].block, last |-> proc[p].last, idx |-> proc[p].idx,
                attempt |-> q.attempt, nonce |-> q.nonce],
           q.at \in {"sending", "receipt"},
           q.at = "receipt" => Message(p) \in sent',
           sent \subseteq sent', gaveUp \subseteq gaveUp', UNCHANGED chainVars
    PROVE  SubInv'
<1>0. q = [at |-> q.at, block |-> q.block, last |-> q.last, idx |-> q.idx,
           attempt |-> q.attempt, nonce |-> q.nonce]
      /\ q.block = proc[p].block /\ q.last = proc[p].last /\ q.idx = proc[p].idx
  OBVIOUS
<1>1. /\ Shape'
      /\ proc'[p] = q
      /\ \A r \in Processes \ {p} : proc'[r] = proc[r]
  BY <1>0, MoveShape, Zenon DEF SubInv, Shape, chainVars
<1>2. CASE p # "listener"
  BY <1>1, <1>2, AsideKeeps, Zenon DEF Processes, chainVars
<1>3. CASE p = "listener"
  <2>1. WalkInv(proc["listener"])'
    <3> DEFINE l == proc["listener"]
    <3>1. WalkInv(l) /\ Busy(l)
      BY <1>3, Zenon DEF SubInv
    <3>2. /\ l.block = lastProcessedBlock + 1
          /\ l.last \in Nat /\ l.block <= l.last /\ l.last <= MaxHeight
          /\ l.idx \in Nat
          /\ checkpoint # 0 => lastProcessedBlock = checkpoint
      BY <3>1, Zenon DEF WalkInv, Busy
    <3>3. \A i \in DOMAIN MessagesIn[l.block] :
             i < l.idx => MessagesIn[l.block][i] \in sent' \cup gaveUp' \cup Unparsable
      BY <3>1, Zenon DEF WalkInv, Done
    <3>4. q.at = "receipt" => MessagesIn[l.block][l.idx] \in sent'
      BY <1>3, Zenon DEF Message
    <3>5. proc'["listener"] = q /\ q.block = l.block /\ q.last = l.last /\ q.idx = l.idx
      BY <1>0, <1>1, <1>3, Zenon
    <3>6. lastProcessedBlock' = lastProcessedBlock /\ checkpoint' = checkpoint
      BY Zenon DEF chainVars
    <3> HIDE DEF l
    <3> QED
      BY <3>2, <3>3, <3>4, <3>5, <3>6, WalkIntro, Zenon DEF At
  <2> QED
    BY <1>1, <2>1, ListenerKeeps, Zenon DEF chainVars
<1> QED
  BY <1>2, <1>3, Zenon

\* A failed attempt is followed by another one, or the message is given up.
LEMMA AttemptFailsKeeps ==
    ASSUME SubInv, NEW p \in Processes, AttemptFails(p), Busy(proc[p]),
           sent \subseteq sent', UNCHANGED chainVars
    PROVE  SubInv'
<1>1. CASE proc[p].attempt + 1 < MaxAttempts
  <2> DEFINE q == Sending(p, "sending", proc[p].attempt + 1, proc[p].nonce)
  <2>1. /\ q = [at |-> q.at, block |-> proc[p].block, last |-> proc[p].last, idx |-> proc[p].idx,
                attempt |-> q.attempt, nonce |-> q.nonce]
        /\ q.at = "sending"
    BY Zenon DEF Sending
  <2>2. Move(p, q) /\ gaveUp' = gaveUp
    BY <1>1, Zenon DEF AttemptFails
  <2> HIDE DEF q
  <2> QED
    BY <2>1, <2>2, SameMessageKeeps, Zenon
<1>2. CASE ~(proc[p].attempt + 1 < MaxAttempts)
  BY <1>2, NextMessageKeeps, Zenon DEF AttemptFails
<1> QED
  BY <1>1, <1>2, Zenon

\* Every step of handleBurnLockMsg keeps the invariant.
LEMMA MessageStepKeeps ==
    ASSUME SubInv, NEW p \in Processes,
           \/ SkipMessage(p) \/ InitRelayConfig(p) \/ InitRelayConfigFails(p)
           \/ (\E answered \in BOOLEAN : SendClaim(p, answered))
           \/ SendLost(p) \/ Receipt(p) \/ ReceiptTimeout(p)
    PROVE  SubInv'
<1> USE DEF Busy, ethVars, historyVars
<1>1. CASE SkipMessage(p)
  BY <1>1, NextMessageKeeps, Zenon DEF SkipMessage, Skips
<1>2. CASE InitRelayConfig(p)
  <2> DEFINE q == Sending(p, "sending", 0, PendingNonceAt)
  <2>1. /\ q = [at |-> q.at, block |-> proc[p].block, last |-> proc[p].last, idx |-> proc[p].idx,
                attempt |-> q.attempt, nonce |-> q.nonce]
        /\ q.at = "sending"
    BY Zenon DEF Sending
  <2>2. /\ Move(p, q) /\ gaveUp' = gaveUp /\ sent' = sent /\ UNCHANGED chainVars
        /\ proc[p].at = "walking"
    BY <1>2, Zenon DEF InitRelayConfig
  <2> HIDE DEF q
  <2> QED
    BY <2>1, <2>2, SameMessageKeeps, Zenon
<1>3. CASE InitRelayConfigFails(p)
  BY <1>3, NextMessageKeeps, Zenon DEF InitRelayConfigFails
<1>4. ASSUME NEW answered \in BOOLEAN, SendClaim(p, answered) PROVE SubInv'
  <2>1. /\ proc[p].at = "sending" /\ sent \subseteq sent' /\ UNCHANGED chainVars
    BY <1>4, Zenon DEF SendClaim
  <2>2. CASE Takes(proc[p].nonce) /\ answered
    <3> DEFINE q == Sending(p, "receipt", proc[p].attempt, proc[p].nonce)
    <3>1. /\ q = [at |-> q.at, block |-> proc[p].block, last |-> proc[p].last, idx |-> proc[p].idx,
                  attempt |-> q.attempt, nonce |-> q.nonce]
          /\ q.at = "receipt"
      BY Zenon DEF Sending
    <3>2. Move(p, q) /\ gaveUp' = gaveUp /\ Message(p) \in sent'
      BY <1>4, <2>2, Zenon DEF SendClaim
    <3> HIDE DEF q
    <3> QED
      BY <2>1, <3>1, <3>2, SameMessageKeeps, Zenon
  <2>3. CASE ~(Takes(proc[p].nonce) /\ answered)
    <3>1. AttemptFails(p)
      BY <1>4, <2>3, Zenon DEF SendClaim
    <3> QED
      BY <2>1, <3>1, AttemptFailsKeeps, Zenon
  <2> QED
    BY <2>2, <2>3, Zenon
<1>5. CASE SendLost(p)
  BY <1>5, AttemptFailsKeeps, Zenon DEF SendLost
<1>6. CASE Receipt(p)
  <2>1. p = "listener" => Message(p) \in sent
    BY <1>6, Zenon DEF Receipt, SubInv, WalkInv, Message
  <2> QED
    BY <1>6, <2>1, NextMessageKeeps, Zenon DEF Receipt
<1>7. CASE ReceiptTimeout(p)
  BY <1>7, AttemptFailsKeeps, Zenon DEF ReceiptTimeout
<1> QED
  BY <1>1, <1>2, <1>3, <1>4, <1>5, <1>6, <1>7, Zenon

\* A block is saved when all its messages are done, and it is the next after the
\* checkpoint.
LEMMA BlockDoneKeeps ==
    ASSUME SubInv, NEW p \in Processes, BlockDone(p)
    PROVE  SubInv'
<1> DEFINE l == proc[p]
           q == IF l.block < l.last THEN Walking(l.block + 1, l.last, 0) ELSE Resting("waiting")
<1>1. q = [at |-> q.at, block |-> q.block, last |-> q.last, idx |-> q.idx,
           attempt |-> q.attempt, nonce |-> q.nonce]
  BY Zenon DEF Walking, Resting
<1>2. /\ l.block < l.last => q.at = "walking" /\ q.block = l.block + 1 /\ q.last = l.last /\ q.idx = 0
      /\ ~(l.block < l.last) => q.at = "waiting"
  BY Zenon DEF Walking, Resting
<1>3. Move(p, q) /\ l.at = "walking" /\ l.idx # 0 /\ ~AtMessage(p)
      /\ sent' = sent /\ gaveUp' = gaveUp /\ height' = height
  BY Zenon DEF BlockDone, AfterBlock, ethVars, historyVars
<1> HIDE DEF q
<1>4. CASE p # "listener"
  <2>1. UNCHANGED <<lastProcessedBlock, checkpoint, first>>
    BY <1>4, Zenon DEF BlockDone
  <2>2. Shape' /\ proc'["listener"] = proc["listener"]
    BY <1>1, <1>3, <1>4, <2>1, MoveShape, Zenon DEF SubInv, Shape, Processes
  <2> QED
    BY <1>3, <2>1, <2>2, AsideKeeps, Zenon
<1>5. CASE p = "listener"
  <2>1. /\ lastProcessedBlock' = l.block /\ checkpoint' = l.block
        /\ first' = IF checkpoint = 0 THEN l.block ELSE first
    BY <1>5, Zenon DEF BlockDone
  <2>2. /\ WalkInv(l) /\ Busy(l)
        /\ l.block = lastProcessedBlock + 1 /\ l.last \in Nat /\ l.block <= l.last /\ l.last <= MaxHeight
        /\ l.block \in 1..MaxHeight
        /\ lastProcessedBlock \in Nat /\ checkpoint \in Nat /\ first \in Nat
        /\ checkpoint # 0 => lastProcessedBlock = checkpoint
    BY <1>3, <1>5, BlockContents, SMTT(60) DEF SubInv, WalkInv, Shape, Busy
  <2>3. Shape' /\ proc'["listener"] = q
    BY <1>1, <1>3, <1>5, <2>1, <2>2, MoveShape, SMTT(60) DEF SubInv, Shape
  <2>4. BlockIsDone(l.block)
    <3> SUFFICES ASSUME NEW i \in DOMAIN MessagesIn[l.block] PROVE Done(MessagesIn[l.block][i])
      BY Zenon DEF BlockIsDone
    <3>1. l.idx \in Nat \ {0} /\ l.idx \notin DOMAIN MessagesIn[l.block]
      BY <1>3, <2>2 DEF AtMessage, WalkInv
    <3>2. i < l.idx
      BY <2>2, <3>1, BlockContents
    <3> QED
      BY <2>2, <3>2, Zenon DEF WalkInv
  <2>5. ASSUME NEW b \in 1..MaxHeight, first' # 0, first' <= b, b <= checkpoint'
        PROVE  BlockIsDone(b)
    <3>1. CASE b = l.block
      BY <2>4, <3>1, Zenon
    <3>2. CASE b # l.block
      <4>1. checkpoint # 0 /\ first # 0 /\ first <= b /\ b <= checkpoint
        BY <2>1, <2>2, <2>5, <3>2, BlockContents
      <4> QED
        BY <4>1, Zenon DEF SubInv
    <3> QED
      BY <3>1, <3>2, Zenon
  <2>6. \A b \in 1..MaxHeight : first' # 0 /\ first' <= b /\ b <= checkpoint' => BlockIsDone(b)'
    BY <1>3, <2>5, Zenon DEF BlockIsDone, Done
  <2>7. WalkInv(proc["listener"])'
    <3>1. CASE l.block < l.last
      <4>1. q = Walking(l.block + 1, l.last, 0) /\ l.block \in Nat /\ l.last \in 1..MaxHeight
        BY <2>2, <3>1, BlockContents DEF q
      <4> QED
        BY <2>1, <2>3, <3>1, <4>1, FreshWalk, Zenon
    <3>2. CASE ~(l.block < l.last)
      BY <2>1, <2>3, <3>2, FreshRest, Zenon DEF q
    <3> QED
      BY <3>1, <3>2, Zenon
  <2> QED
    BY <2>3, <2>6, <2>7, Zenon DEF SubInv
<1> QED
  BY <1>4, <1>5, Zenon

\* Whether the node answers or not, asking for a block keeps the invariant.
LEMMA FetchKeeps ==
    ASSUME SubInv, NEW p \in Processes, Fetch(p)
    PROVE  SubInv'
<1>1. /\ proc[p].at = "walking" /\ proc[p].idx = 0
      /\ sent' = sent /\ gaveUp' = gaveUp /\ UNCHANGED chainVars
  BY Zenon DEF Fetch, BlockResults, BlockResultsFails, ethVars, historyVars
<1>2. CASE BlockResults(p)
  BY <1>1, <1>2, NextMessageKeeps, Zenon DEF BlockResults, Busy
<1>3. CASE BlockResultsFails(p)
  <2> DEFINE q == IF p = "listener" THEN proc[p] ELSE AfterBlock(p)
  <2>1. Move(p, q)
    BY <1>3, Zenon DEF BlockResultsFails
  <2>2. q = [at |-> q.at, block |-> q.block, last |-> q.last, idx |-> q.idx,
             attempt |-> q.attempt, nonce |-> q.nonce]
    <3>1. CASE p = "listener"
      BY <3>1, Zenon DEF SubInv, Shape
    <3>2. CASE p # "listener"
      BY <3>2, Zenon DEF AfterBlock, Walking, Resting
    <3> QED
      BY <3>1, <3>2, Zenon
  <2> HIDE DEF q
  <2>3. /\ Shape' /\ proc'[p] = q
        /\ \A r \in Processes \ {p} : proc'[r] = proc[r]
    BY <1>1, <2>1, <2>2, MoveShape, Zenon DEF SubInv, Shape, chainVars
  <2>4. proc'["listener"] = proc["listener"]
    BY <2>3, Zenon DEF q, Processes
  <2> QED
    BY <1>1, <2>3, <2>4, AsideKeeps, Zenon DEF chainVars
<1> QED
  BY <1>2, <1>3, Zenon DEF Fetch

\* Starting, waiting for blocks and being killed keep the invariant: the walk always
\* begins after the block finished last.
LEMMA ListenerStepKeeps ==
    ASSUME SubInv, Start \/ NewBlockEvent \/ Restart
    PROVE  SubInv'
<1> USE DEF ethVars, historyVars
<1>0. Shape /\ WalkInv(proc["listener"]) /\ "listener" \in Processes
  BY Zenon DEF SubInv, Processes
<1>1. ASSUME NEW s \in {"waiting", "connecting"}, Move("listener", Resting(s)),
             UNCHANGED <<height, checkpoint, first, sent, gaveUp>>,
             lastProcessedBlock' \in Nat,
             s # "connecting" /\ checkpoint # 0 => lastProcessedBlock' = checkpoint
      PROVE  SubInv'
  <2> DEFINE q == Resting(s)
  <2>1. q = [at |-> q.at, block |-> q.block, last |-> q.last, idx |-> q.idx,
             attempt |-> q.attempt, nonce |-> q.nonce]
    BY Zenon DEF Resting
  <2> HIDE DEF q
  <2>2. Shape' /\ proc'["listener"] = q
    <3>1. Move("listener", q)
      BY <1>1, Zenon DEF q
    <3>2. height' \in 1..MaxHeight /\ checkpoint' \in Nat /\ first' \in Nat
      BY <1>0, <1>1, Zenon DEF Shape
    <3> QED
      BY <1>0, <1>1, <2>1, <3>1, <3>2, MoveShape, Zenon
  <2>3. WalkInv(proc["listener"])'
    BY <1>1, <2>2, FreshRest, Zenon DEF q
  <2> QED
    BY <1>1, <2>2, <2>3, ListenerKeeps, Zenon
<1>2. CASE Start
  <2>1. checkpoint \in Nat
    BY <1>0, Zenon DEF Shape
  <2> QED
    BY <1>1, <1>2, <2>1, Zenon DEF Start
<1>4. CASE Restart
  BY <1>1, <1>4, Zenon DEF Restart
<1>3. CASE NewBlockEvent
  <2> DEFINE done == IF lastProcessedBlock = 0 THEN height ELSE lastProcessedBlock
             q == IF done < height THEN Walking(done + 1, height, 0) ELSE Resting("waiting")
  <2>1. /\ q = [at |-> q.at, block |-> q.block, last |-> q.last, idx |-> q.idx,
                attempt |-> q.attempt, nonce |-> q.nonce]
        /\ done < height => q.at = "walking" /\ q.block = done + 1 /\ q.last = height /\ q.idx = 0
        /\ ~(done < height) => q.at = "waiting"
    BY Zenon DEF Walking, Resting
  <2>2. /\ Move("listener", q) /\ lastProcessedBlock' = done
        /\ proc["listener"].at = "waiting"
        /\ UNCHANGED <<height, checkpoint, first, sent, gaveUp>>
    BY <1>3, Zenon DEF NewBlockEvent
  <2>3. done \in Nat /\ height \in 1..MaxHeight /\ (checkpoint # 0 => done = checkpoint)
    BY <1>0, <2>2 DEF Shape, WalkInv
  <2> HIDE DEF q, done
  <2>4. Shape' /\ proc'["listener"] = q
    BY <1>0, <2>1, <2>2, <2>3, MoveShape, Zenon DEF Shape
  <2>5. WalkInv(proc["listener"])'
    <3>1. CASE done < height
      BY <2>2, <2>3, <2>4, <3>1, FreshWalk, Zenon DEF q
    <3>2. CASE ~(done < height)
      BY <2>2, <2>3, <2>4, <3>2, FreshRest, Zenon DEF q
    <3> QED
      BY <3>1, <3>2, Zenon
  <2> QED
    BY <2>2, <2>4, <2>5, ListenerKeeps, Zenon
<1> QED
  BY <1>2, <1>3, <1>4, Zenon

\* Every step keeps the invariant.
LEMMA SubStep == SubInv /\ [Next]_vars => SubInv'
<1> SUFFICES ASSUME SubInv, [Next]_vars PROVE SubInv'
  BY Zenon
<1> USE DEF chainVars, ethVars, historyVars
<1>0. Shape /\ "listener" \in Processes /\ "replay" \in Processes
  BY Zenon DEF SubInv, Processes
<1>1. CASE UNCHANGED vars
  BY <1>0, <1>1, AsideKeeps, Zenon DEF vars, Shape
<1>2. CASE NewBlock
  <2>1. Shape'
    BY <1>0, <1>2, BlockContents DEF NewBlock, Shape
  <2> QED
    BY <1>2, <2>1, AsideKeeps, Zenon DEF NewBlock
<1>3. CASE Mine \/ \E nonce \in DOMAIN pool : Evict(nonce)
  <2>1. UNCHANGED <<chainVars, proc, sent, gaveUp>>
    BY <1>3, Zenon DEF Mine, Evict
  <2> QED
    BY <1>0, <2>1, AsideKeeps, Zenon DEF Shape
<1>4. CASE Start \/ NewBlockEvent \/ Restart
  BY <1>4, ListenerStepKeeps, Zenon
<1>5. ASSUME NEW from \in 1..height, NEW to \in 1..height, Replay(from, to) PROVE SubInv'
  <2> DEFINE q == Walking(from, to, 0)
  <2>1. q = [at |-> q.at, block |-> q.block, last |-> q.last, idx |-> q.idx,
             attempt |-> q.attempt, nonce |-> q.nonce]
    BY Zenon DEF Walking
  <2>2. Move("replay", q) /\ UNCHANGED <<chainVars, sent, gaveUp>>
    BY <1>5, Zenon DEF Replay
  <2> HIDE DEF q
  <2>3. Shape' /\ proc'["listener"] = proc["listener"]
    BY <1>0, <2>1, <2>2, MoveShape, Zenon DEF Shape, Processes
  <2> QED
    BY <2>2, <2>3, AsideKeeps, Zenon
<1>6. ASSUME NEW p \in Processes, Fetch(p) \/ Handle(p) PROVE SubInv'
  BY <1>6, FetchKeeps, MessageStepKeeps, BlockDoneKeeps, Zenon DEF Handle
<1> QED
  BY <1>1, <1>2, <1>3, <1>4, <1>5, <1>6, Zenon DEF Next

\* However often the listener is killed, answers and receipts are lost, or a replay
\* takes its nonce, no Lock or Burn message in a block its checkpoint covers was left
\* out: each was taken by the node or given up after all attempts (CosmosSub.Start,
\* handleBurnLockMsg and the checkpoint key of the database).
THEOREM NoMessageLeftOut == Spec => []CheckpointHasBeenHandled
<1>1. SubInv => CheckpointHasBeenHandled
  BY Zenon DEF SubInv, BlockIsDone, Done, CheckpointHasBeenHandled
<1> QED
  BY <1>1, SubInitial, SubStep, PTL DEF Spec

-----------------------------------------------------------------------------
(* Nonces.                                                                 *)

\* A process that holds a nonce for the message it is at.
Holding(q) == q.at \in {"sending", "receipt"}

\* Number i - 1 was mined for m, waits in the pool for m, or is held for m.
Uses(i, m) ==
    \/ i \in DOMAIN mined /\ mined[i] = m
    \/ i - 1 \in DOMAIN pool /\ pool[i - 1] = m
    \/ \E p \in Processes : Holding(proc[p]) /\ proc[p].nonce = i - 1 /\ Message(p) = m

Used(m) == {i \in 1..MaxSends : Uses(i, m)}

NonceTypes ==
    /\ proc = [p \in Processes |-> proc[p]]
    /\ \A p \in Processes :
          Holding(proc[p]) => proc[p].nonce \in 0..(MaxSends - 1) /\ Message(p) \in Messages
    /\ mined \in Seq(Messages) /\ Len(mined) <= MaxSends
    /\ DOMAIN pool \subseteq 0..(MaxSends - 1)
    /\ \A n \in DOMAIN pool : pool[n] \in Messages
    /\ \A p \in Processes :
          Busy(proc[p]) => proc[p].block \in 1..MaxHeight /\ proc[p].last \in 1..MaxHeight
    /\ handled \in [Messages -> Nat]

\* The inductive invariant: a message uses no more nonces than it was handled
\* times, counting those that are not mined yet and those not even sent yet.
NonceInv ==
    /\ NonceTypes
    /\ \A m \in Messages : Cardinality(Used(m)) <= handled[m]

\* The nonces of a message are finitely many.
LEMMA UsedFinite ==
    \A m : IsFiniteSet(Used(m)) /\ Cardinality(Used(m)) \in Nat
<1> TAKE m
<1>1. IsFiniteSet(1..MaxSends)
  <2>1. 1 \in Int /\ MaxSends \in Int
    BY CosmosSubAssumption
  <2> QED BY <2>1, FS_Interval, Zenon
<1>2. Used(m) \subseteq 1..MaxSends
  BY Zenon DEF Used
<1> QED BY <1>1, <1>2, FS_Subset, FS_CardinalityType, Zenon

\* A step after which no message uses a nonce it did not use before keeps the
\* invariant.
LEMMA NoNewNonce ==
    ASSUME NonceInv, NonceTypes', UNCHANGED handled, \A m, i : Uses(i, m)' => Uses(i, m)
    PROVE  NonceInv'
<1>1. ASSUME NEW m \in Messages PROVE Cardinality(Used(m)') <= handled'[m]
  <2>1. Used(m)' \subseteq Used(m)
    BY Zenon DEF Used
  <2>2. PICK S, T : S = Used(m) /\ T = Used(m)'
    BY Zenon
  <2>3. IsFiniteSet(S) /\ Cardinality(S) \in Nat /\ T \subseteq S
    BY <2>1, <2>2, UsedFinite, Zenon
  <2>4. Cardinality(T) <= Cardinality(S) /\ Cardinality(T) \in Nat
    BY <2>3, FS_Subset, FS_CardinalityType, Zenon
  <2>5. Cardinality(S) <= handled[m] /\ handled[m] \in Nat
    BY <2>2, Zenon DEF NonceInv, NonceTypes
  <2>6. Cardinality(T) <= handled'[m]
    BY <2>3, <2>4, <2>5
  <2> QED BY <2>2, <2>6, Zenon
<1>2. \A m \in Messages : Cardinality(Used(m)') <= handled'[m]
  BY <1>1, Zenon
<1> QED BY <1>2, Zenon DEF NonceInv

\* A step that gives no process a nonce, or another message to the one it has,
\* and leaves the node alone, keeps the invariant.
LEMMA HoldersKeep ==
    ASSUME NonceInv, UNCHANGED <<mined, pool, handled>>,
           proc' = [p \in Processes |-> proc'[p]],
           \A p \in Processes : Holding(proc'[p]) =>
              /\ Holding(proc[p]) /\ proc'[p].nonce = proc[p].nonce
              /\ proc'[p].block = proc[p].block /\ proc'[p].idx = proc[p].idx,
           \A p \in Processes :
              Busy(proc'[p]) => proc'[p].block \in 1..MaxHeight /\ proc'[p].last \in 1..MaxHeight
    PROVE  NonceInv'
<1>1. \A p \in Processes : Holding(proc'[p]) => Message(p)' = Message(p)
  BY Zenon DEF Message
<1>2. NonceTypes'
  BY <1>1, Zenon DEF NonceInv, NonceTypes
<1>3. \A m, i : Uses(i, m)' => Uses(i, m)
  BY <1>1, Zenon DEF Uses
<1> QED BY <1>2, <1>3, NoNewNonce, Zenon

\* So does a step of one process to a place q where it holds at most the nonce
\* it held, for the message it held it for.
LEMMA MoveKeeps ==
    ASSUME NonceInv, UNCHANGED <<mined, pool, handled>>, NEW p \in Processes, NEW q, Move(p, q),
           Holding(q) => /\ Holding(proc[p]) /\ q.nonce = proc[p].nonce
                         /\ q.block = proc[p].block /\ q.idx = proc[p].idx,
           Busy(q) => q.block \in 1..MaxHeight /\ q.last \in 1..MaxHeight
    PROVE  NonceInv'
<1>1. proc' = [r \in Processes |-> IF r = p THEN q ELSE proc[r]]
  BY Zenon DEF NonceInv, NonceTypes, Move
<1>2. proc' = [r \in Processes |-> proc'[r]]
  BY <1>1, Zenon
<1>3. \A r \in Processes : Holding(proc'[r]) =>
         /\ Holding(proc[r]) /\ proc'[r].nonce = proc[r].nonce
         /\ proc'[r].block = proc[r].block /\ proc'[r].idx = proc[r].idx
  BY <1>1, Zenon
<1>4. \A r \in Processes :
         Busy(proc'[r]) => proc'[r].block \in 1..MaxHeight /\ proc'[r].last \in 1..MaxHeight
  BY <1>1, Zenon DEF NonceInv, NonceTypes
<1> QED BY <1>2, <1>3, <1>4, HoldersKeep, Zenon

\* A walk holds no nonce, and neither does a process at rest.
LEMMA Places ==
    /\ \A b, l, i : /\ ~Holding(Walking(b, l, i)) /\ Busy(Walking(b, l, i))
                    /\ Walking(b, l, i).block = b /\ Walking(b, l, i).last = l
    /\ \A s \in {"waiting", "connecting"} : ~Holding(Resting(s)) /\ ~Busy(Resting(s))
    /\ \A p, s, a, n :
          /\ Sending(p, s, a, n).at = s /\ Sending(p, s, a, n).nonce = n
          /\ Sending(p, s, a, n).block = proc[p].block /\ Sending(p, s, a, n).last = proc[p].last
          /\ Sending(p, s, a, n).idx = proc[p].idx
BY DEF Holding, Busy, Walking, Resting, Sending

\* The message a walking process has come to is one of the chain's.
LEMMA MessageAt ==
    ASSUME NonceInv, NEW p \in Processes, Busy(proc[p]), AtMessage(p)
    PROVE  Message(p) \in Messages
<1>1. PICK b : b = proc[p].block
  BY Zenon
<1>2. b \in 1..MaxHeight
  BY <1>1, Zenon DEF NonceInv, NonceTypes
<1>3. MessagesIn[b] \in Seq(Messages)
  BY <1>2, CosmosSubAssumption, Zenon
<1>4. proc[p].idx \in DOMAIN MessagesIn[b]
  BY <1>1, Zenon DEF AtMessage
<1>5. MessagesIn[b][proc[p].idx] \in Messages
  BY <1>3, <1>4
<1> QED BY <1>1, <1>5, Zenon DEF Message

\* Going on to the next message, after however many attempts, keeps the invariant.
LEMMA NextMessageNonce ==
    ASSUME NonceInv, UNCHANGED <<mined, pool, handled>>, NEW p \in Processes,
           Busy(proc[p]), NextMessage(p)
    PROVE  NonceInv'
<1>1. PICK q : q = Walking(proc[p].block, proc[p].last, proc[p].idx + 1)
  BY Zenon
<1>2. ~Holding(q) /\ q.block = proc[p].block /\ q.last = proc[p].last
  BY <1>1, Places, SMTT(60)
<1>3. Move(p, q)
  BY <1>1, Zenon DEF NextMessage
<1>4. proc[p].block \in 1..MaxHeight /\ proc[p].last \in 1..MaxHeight
  BY Zenon DEF NonceInv, NonceTypes
<1> QED BY <1>2, <1>3, <1>4, MoveKeeps, Zenon

\* An attempt that comes to nothing keeps the nonce for the next one or gives it up.
LEMMA AttemptFailsNonce ==
    ASSUME NonceInv, UNCHANGED <<mined, pool, handled>>, NEW p \in Processes,
           Holding(proc[p]), AttemptFails(p)
    PROVE  NonceInv'
<1>0. Busy(proc[p])
  BY Zenon DEF Busy, Holding
<1>1. CASE NextMessage(p)
  BY <1>0, <1>1, NextMessageNonce, Zenon
<1>2. CASE Move(p, Sending(p, "sending", proc[p].attempt + 1, proc[p].nonce))
  <2>1. PICK q : q = Sending(p, "sending", proc[p].attempt + 1, proc[p].nonce)
    BY Zenon
  <2>2. /\ q.nonce = proc[p].nonce /\ q.block = proc[p].block /\ q.last = proc[p].last
        /\ q.idx = proc[p].idx
    BY <2>1, Places, SMTT(60)
  <2>3. proc[p].block \in 1..MaxHeight /\ proc[p].last \in 1..MaxHeight
    BY <1>0, Zenon DEF NonceInv, NonceTypes
  <2>4. Move(p, q)
    BY <1>2, <2>1, Zenon
  <2> QED BY <2>2, <2>3, <2>4, MoveKeeps, Zenon
<1> QED BY <1>1, <1>2, Zenon DEF AttemptFails

\* The node names a nonce that is not in use, if it has one left.
LEMMA FreshNonce ==
    ASSUME NonceInv
    PROVE  PendingNonceAt \in Nat /\ PendingNonceAt <= MaxSends
<1> DEFINE Free == {n \in Len(mined)..MaxSends : n \notin DOMAIN pool}
<1>1. Len(mined) \in Nat /\ MaxSends \in Nat /\ Len(mined) <= MaxSends
  BY CosmosSubAssumption DEF NonceInv, NonceTypes
<1>2. MaxSends \in Free
  BY <1>1 DEF NonceInv, NonceTypes
<1>3. Free \in SUBSET Nat
  BY <1>1
<1>4. PICK n \in Free : \A k \in Free : n <= k
  <2> HIDE DEF Free
  <2> QED BY <1>2, <1>3, LeastMember, Zenon
<1>5. n \in Len(mined)..MaxSends /\ n \notin DOMAIN pool
  BY Zenon
<1>6. \A k \in Len(mined)..(n - 1) : k \in DOMAIN pool
  <2> SUFFICES ASSUME NEW k \in Len(mined)..(n - 1), k \notin DOMAIN pool PROVE FALSE
    BY Zenon
  <2>1. k \in Free /\ k < n
    BY <1>1, <1>5
  <2> QED BY <2>1, <1>4, <1>1, <1>5
<1>7. PendingNonceAt \in Len(mined)..MaxSends
  BY <1>5, <1>6, Zenon DEF PendingNonceAt
<1> QED BY <1>1, <1>7

\* A new handling adds one nonce to its message's and is counted.
LEMMA InitRelayNonce ==
    ASSUME NonceInv, NEW p \in Processes, InitRelayConfig(p)
    PROVE  NonceInv'
<1>1. PICK n : n = PendingNonceAt
  BY Zenon
<1>2. PICK c : c = Message(p)
  BY Zenon
<1>3. PICK q : q = Sending(p, "sending", 0, n)
  BY Zenon
<1>4. /\ proc[p].at = "walking" /\ AtMessage(p) /\ n < MaxSends
      /\ Move(p, q) /\ handled' = [handled EXCEPT ![c] = @ + 1]
      /\ UNCHANGED <<mined, pool>>
  BY <1>1, <1>2, <1>3, Zenon DEF InitRelayConfig, ethVars
<1>5. Busy(proc[p]) /\ ~Holding(proc[p])
  BY <1>4, Zenon DEF Busy, Holding
<1>6. c \in Messages
  BY <1>2, <1>4, <1>5, MessageAt, Zenon
<1>7. n \in 0..(MaxSends - 1)
  BY <1>1, <1>4, FreshNonce, CosmosSubAssumption
<1>8. /\ q.at = "sending" /\ q.nonce = n /\ q.block = proc[p].block
      /\ q.last = proc[p].last /\ q.idx = proc[p].idx
  BY <1>3, Places, SMTT(60)
<1>9. proc' = [r \in Processes |-> IF r = p THEN q ELSE proc[r]]
  BY <1>4, Zenon DEF NonceInv, NonceTypes, Move
<1>10. \A r \in Processes : Message(r)' = Message(r)
  BY <1>8, <1>9, Zenon DEF Message
<1>11. handled \in [Messages -> Nat]
  BY Zenon DEF NonceInv, NonceTypes
<1>12. NonceTypes'
  <2>1. proc' = [r \in Processes |-> proc'[r]]
    BY <1>9, Zenon
  <2>2. \A r \in Processes :
          Holding(proc'[r]) => proc'[r].nonce \in 0..(MaxSends - 1) /\ Message(r)' \in Messages
    BY <1>2, <1>6, <1>7, <1>8, <1>9, <1>10, Zenon DEF NonceInv, NonceTypes
  <2>3. \A r \in Processes :
          Busy(proc'[r]) => proc'[r].block \in 1..MaxHeight /\ proc'[r].last \in 1..MaxHeight
    BY <1>5, <1>8, <1>9, Zenon DEF NonceInv, NonceTypes
  <2>4. handled' \in [Messages -> Nat]
    BY <1>4, <1>6, <1>11, SMTT(60)
  <2>5. /\ mined' \in Seq(Messages) /\ Len(mined') <= MaxSends
        /\ DOMAIN pool' \subseteq 0..(MaxSends - 1)
        /\ \A k \in DOMAIN pool' : pool'[k] \in Messages
    BY <1>4, Zenon DEF NonceInv, NonceTypes
  <2> QED BY <2>1, <2>2, <2>3, <2>4, <2>5, Zenon DEF NonceTypes
<1>13. \A m, i : Uses(i, m)' => Uses(i, m) \/ (m = c /\ i - 1 = n)
  BY <1>2, <1>4, <1>8, <1>9, <1>10, Zenon DEF Uses
<1>14. ASSUME NEW m \in Messages PROVE Cardinality(Used(m)') <= handled'[m]
  <2>1. PICK S, T : S = Used(m) /\ T = Used(m)'
    BY Zenon
  <2>2. IsFiniteSet(S) /\ Cardinality(S) \in Nat /\ Cardinality(S) <= handled[m] /\ handled[m] \in Nat
    BY <2>1, <1>11, UsedFinite, Zenon DEF NonceInv
  <2>3. \A i \in T : i \in S \/ (m = c /\ i = n + 1)
    BY <2>1, <1>13, <1>7, CosmosSubAssumption DEF Used
  <2>4. CASE m = c
    <3>1. T \subseteq S \cup {n + 1}
      BY <2>3, Zenon
    <3>2. PICK x : x = n + 1
      BY Zenon
    <3>3. PICK U : U = S \cup {x}
      BY Zenon
    <3>7. IsFiniteSet(U) /\ Cardinality(U) = IF x \in S THEN Cardinality(S) ELSE Cardinality(S) + 1
      BY <2>2, <3>3, FS_AddElement, Zenon
    <3>4. Cardinality(T) <= Cardinality(U) /\ Cardinality(T) \in Nat
      BY <3>1, <3>2, <3>3, <3>7, FS_Subset, FS_CardinalityType, Zenon
    <3>5. handled'[m] = handled[m] + 1
      BY <1>4, <1>11, <2>4, Zenon
    <3>6. Cardinality(T) <= handled'[m]
      BY <2>2, <3>7, <3>4, <3>5
    <3> QED BY <2>1, <3>6, Zenon
  <2>5. CASE m # c
    <3>1. T \subseteq S
      BY <2>3, <2>5, Zenon
    <3>2. Cardinality(T) <= Cardinality(S) /\ Cardinality(T) \in Nat
      BY <2>2, <3>1, FS_Subset, FS_CardinalityType, Zenon
    <3>3. handled'[m] = handled[m]
      BY <1>4, <1>11, <2>5, Zenon
    <3>4. Cardinality(T) <= handled'[m]
      BY <2>2, <3>2, <3>3
    <3> QED BY <2>1, <3>4, Zenon
  <2> QED BY <2>4, <2>5, Zenon
<1>15. \A m \in Messages : Cardinality(Used(m)') <= handled'[m]
  BY <1>14, Zenon
<1> QED BY <1>12, <1>15, Zenon DEF NonceInv

\* A transaction the node takes has the nonce its message holds.
LEMMA SendNonce ==
    ASSUME NonceInv, NEW p \in Processes, NEW answered, SendClaim(p, answered)
    PROVE  NonceInv'
<1>0. Holding(proc[p]) /\ Busy(proc[p])
  BY Zenon DEF SendClaim, Holding, Busy
<1>1. UNCHANGED <<mined, handled>>
  BY Zenon DEF SendClaim
<1>2. PICK q : /\ Move(p, q)
               /\ Holding(q) => /\ q.nonce = proc[p].nonce
                                /\ q.block = proc[p].block /\ q.idx = proc[p].idx
               /\ q.block = proc[p].block /\ q.last = proc[p].last
  <2>1. \/ Move(p, Sending(p, "receipt", proc[p].attempt, proc[p].nonce))
        \/ Move(p, Sending(p, "sending", proc[p].attempt + 1, proc[p].nonce))
        \/ Move(p, Walking(proc[p].block, proc[p].last, proc[p].idx + 1))
    BY Zenon DEF SendClaim, AttemptFails, NextMessage
  <2> QED BY <2>1, Places, SMTT(60)
<1>3. proc' = [r \in Processes |-> IF r = p THEN q ELSE proc[r]]
  BY <1>2, Zenon DEF NonceInv, NonceTypes, Move
<1>4. proc[p].block \in 1..MaxHeight /\ proc[p].last \in 1..MaxHeight
  BY <1>0, Zenon DEF NonceInv, NonceTypes
<1>5. CASE pool' = pool
  BY <1>0, <1>1, <1>2, <1>4, <1>5, MoveKeeps, Zenon
<1>6. CASE pool' = Pooled(proc[p].nonce, Message(p))
  <2>1. PICK n, c : n = proc[p].nonce /\ c = Message(p)
    BY Zenon
  <2>2. n \in 0..(MaxSends - 1) /\ c \in Messages
    BY <2>1, <1>0, Zenon DEF NonceInv, NonceTypes
  <2>3. /\ DOMAIN pool' = DOMAIN pool \cup {n}
        /\ \A k \in DOMAIN pool' : pool'[k] = IF k = n THEN c ELSE pool[k]
    BY <2>1, <1>6, Zenon DEF Pooled
  <2>4. \A r \in Processes : Holding(proc'[r]) =>
           /\ Holding(proc[r]) /\ proc'[r].nonce = proc[r].nonce /\ Message(r)' = Message(r)
    BY <1>0, <1>2, <1>3, Zenon DEF Message
  <2>5. NonceTypes'
    <3>1. proc' = [r \in Processes |-> proc'[r]]
      BY <1>3, Zenon
    <3>2. \A r \in Processes :
            Holding(proc'[r]) => proc'[r].nonce \in 0..(MaxSends - 1) /\ Message(r)' \in Messages
      BY <2>4, Zenon DEF NonceInv, NonceTypes
    <3>3. \A r \in Processes :
            Busy(proc'[r]) => proc'[r].block \in 1..MaxHeight /\ proc'[r].last \in 1..MaxHeight
      BY <1>2, <1>3, <1>4, Zenon DEF NonceInv, NonceTypes
    <3>4. /\ mined' \in Seq(Messages) /\ Len(mined') <= MaxSends
          /\ DOMAIN pool' \subseteq 0..(MaxSends - 1)
          /\ \A k \in DOMAIN pool' : pool'[k] \in Messages
          /\ handled' \in [Messages -> Nat]
      BY <1>1, <2>2, <2>3, Zenon DEF NonceInv, NonceTypes
    <3> QED BY <3>1, <3>2, <3>3, <3>4, Zenon DEF NonceTypes
  <2>6. \A m, i : Uses(i, m)' => Uses(i, m)
    <3>1. \A m, i : i - 1 \in DOMAIN pool' /\ pool'[i - 1] = m => Uses(i, m)
      <4> TAKE m, i
      <4> HAVE i - 1 \in DOMAIN pool' /\ pool'[i - 1] = m
      <4>1. CASE i - 1 = n
        BY <4>1, <2>1, <2>3, <1>0, Zenon DEF Uses
      <4>2. CASE i - 1 # n
        BY <4>2, <2>3, Zenon DEF Uses
      <4> QED BY <4>1, <4>2, Zenon
    <3>2. \A m, i : i \in DOMAIN mined' /\ mined'[i] = m => Uses(i, m)
      BY <1>1, Zenon DEF Uses
    <3>3. \A m, i : (\E r \in Processes : Holding(proc'[r]) /\ proc'[r].nonce = i - 1 /\ Message(r)' = m)
                      => Uses(i, m)
      BY <2>4, Zenon DEF Uses
    <3> QED BY <3>1, <3>2, <3>3, Zenon DEF Uses
  <2> QED BY <1>1, <2>5, <2>6, NoNewNonce, Zenon
<1> QED BY <1>5, <1>6, Zenon DEF SendClaim

\* Mining moves a nonce from the pool to the chain of the account.
LEMMA MineNonce == ASSUME NonceInv, Mine PROVE NonceInv'
<1>1. PICK n : n = Len(mined)
  BY Zenon
<1>2. /\ n \in DOMAIN pool /\ mined' = Append(mined, pool[n])
      /\ pool' = Restrict(pool, DOMAIN pool \ {n})
      /\ UNCHANGED <<proc, handled>>
  BY <1>1, Zenon DEF Mine, historyVars
<1>3. /\ mined \in Seq(Messages) /\ n \in Nat /\ n \in 0..(MaxSends - 1) /\ MaxSends \in Nat
      /\ pool[n] \in Messages
  BY <1>1, <1>2, CosmosSubAssumption DEF NonceInv, NonceTypes
<1>4. /\ mined' \in Seq(Messages) /\ Len(mined') = n + 1 /\ DOMAIN mined = 1..n
      /\ DOMAIN mined' = 1..(n + 1)
      /\ \A i \in 1..n : mined'[i] = mined[i]
      /\ mined'[n + 1] = pool[n]
  BY <1>1, <1>2, <1>3
<1>5. /\ DOMAIN pool' \subseteq DOMAIN pool
      /\ \A k \in DOMAIN pool' : pool'[k] = pool[k]
  BY <1>2, Zenon DEF Restrict
<1>6. \A r \in Processes : Message(r)' = Message(r)
  BY <1>2, Zenon DEF Message
<1>7. NonceTypes'
  <2>1. Len(mined') <= MaxSends
    BY <1>3, <1>4
  <2> QED BY <1>2, <1>4, <1>5, <1>6, <2>1, Zenon DEF NonceInv, NonceTypes
<1>8. \A m, i : Uses(i, m)' => Uses(i, m)
  <2>1. \A m, i : i \in DOMAIN mined' /\ mined'[i] = m => Uses(i, m)
    <3> TAKE m, i
    <3> HAVE i \in DOMAIN mined' /\ mined'[i] = m
    <3>1. CASE i = n + 1
      <4>1. i - 1 = n
        BY <3>1, <1>3
      <4> QED BY <4>1, <3>1, <1>2, <1>4, Zenon DEF Uses
    <3>2. CASE i # n + 1
      <4>1. i \in 1..n
        BY <3>2, <1>3, <1>4, SMTT(60)
      <4> QED BY <4>1, <1>4, Zenon DEF Uses
    <3> QED BY <3>1, <3>2, Zenon
  <2>2. \A m, i : i - 1 \in DOMAIN pool' /\ pool'[i - 1] = m => Uses(i, m)
    BY <1>5, Zenon DEF Uses
  <2>3. \A m, i : (\E r \in Processes : Holding(proc'[r]) /\ proc'[r].nonce = i - 1 /\ Message(r)' = m)
                    => Uses(i, m)
    BY <1>2, <1>6, Zenon DEF Uses
  <2> QED BY <2>1, <2>2, <2>3, Zenon DEF Uses
<1> QED BY <1>2, <1>7, <1>8, NoNewNonce, Zenon

\* A transaction the node drops leaves the nonce to whoever holds it.
LEMMA EvictNonce == ASSUME NonceInv, NEW n, Evict(n) PROVE NonceInv'
<1>1. pool' = Restrict(pool, DOMAIN pool \ {n}) /\ UNCHANGED <<proc, handled, mined>>
  BY Zenon DEF Evict, historyVars
<1>2. DOMAIN pool' \subseteq DOMAIN pool /\ \A k \in DOMAIN pool' : pool'[k] = pool[k]
  BY <1>1, Zenon DEF Restrict
<1>3. \A r \in Processes : Message(r)' = Message(r)
  BY <1>1, Zenon DEF Message
<1>4. NonceTypes'
  BY <1>1, <1>2, <1>3, Zenon DEF NonceInv, NonceTypes
<1>5. \A m, i : Uses(i, m)' => Uses(i, m)
  BY <1>1, <1>2, <1>3, Zenon DEF Uses
<1> QED BY <1>1, <1>4, <1>5, NoNewNonce, Zenon

\* At the end of a block a process goes on to the next or rests.
LEMMA AfterBlockNonce ==
    ASSUME NonceInv, NEW p \in Processes, Busy(proc[p]), Move(p, AfterBlock(p)),
           UNCHANGED <<mined, pool, handled>>
    PROVE  NonceInv'
<1>1. proc[p].block \in 1..MaxHeight /\ proc[p].last \in 1..MaxHeight
  BY Zenon DEF NonceInv, NonceTypes
<1>2. CASE proc[p].block < proc[p].last
  <2>1. PICK q : q = Walking(proc[p].block + 1, proc[p].last, 0)
    BY Zenon
  <2>2. Move(p, q)
    BY <1>2, <2>1, Zenon DEF AfterBlock
  <2>3. ~Holding(q) /\ q.block = proc[p].block + 1 /\ q.last = proc[p].last
    BY <2>1, Places, SMTT(60)
  <2>4. q.block \in 1..MaxHeight
    BY <1>1, <1>2, <2>3, BlockContents, SMTT(60)
  <2> QED BY <1>1, <2>2, <2>3, <2>4, MoveKeeps, Zenon
<1>3. CASE ~(proc[p].block < proc[p].last)
  <2>1. Move(p, Resting("waiting"))
    BY <1>3, Zenon DEF AfterBlock
  <2> QED BY <2>1, Places, MoveKeeps, Zenon
<1> QED BY <1>2, <1>3, Zenon

\* Neither the end of a block nor fetching the next gives anybody a nonce.
LEMMA BlockNonce ==
    ASSUME NonceInv, NEW p \in Processes, Fetch(p) \/ BlockDone(p)
    PROVE  NonceInv'
<1>1. UNCHANGED <<mined, pool, handled>> /\ Busy(proc[p]) /\ ~Holding(proc[p])
  BY Zenon DEF Fetch, BlockResults, BlockResultsFails, BlockDone, ethVars, historyVars, Busy, Holding
<1>2. CASE BlockResults(p)
  BY <1>1, <1>2, NextMessageNonce, Zenon DEF BlockResults
<1>3. CASE Move(p, AfterBlock(p))
  BY <1>1, <1>3, AfterBlockNonce, Zenon
<1>4. CASE Move(p, proc[p])
  <2>1. proc[p].block \in 1..MaxHeight /\ proc[p].last \in 1..MaxHeight
    BY <1>1, Zenon DEF NonceInv, NonceTypes
  <2> QED BY <1>1, <1>4, <2>1, MoveKeeps, Zenon
<1> QED BY <1>2, <1>3, <1>4, Zenon DEF Fetch, BlockResultsFails, BlockDone

\* Starting, hearing of a block and restarting give nobody a nonce.
LEMMA ListenerNonce ==
    ASSUME Shape, NonceInv, Start \/ NewBlockEvent \/ Restart
    PROVE  NonceInv'
<1>0. "listener" \in Processes /\ UNCHANGED <<mined, pool, handled>>
  BY Zenon DEF Start, NewBlockEvent, Restart, ethVars, historyVars, Processes
<1>1. CASE Start \/ Restart
  <2>1. Move("listener", Resting("waiting")) \/ Move("listener", Resting("connecting"))
    BY <1>1, Zenon DEF Start, Restart
  <2> QED BY <1>0, <2>1, Places, MoveKeeps, Zenon
<1>2. CASE NewBlockEvent
  <2>1. PICK done : /\ done \in Nat
                    /\ Move("listener", IF done < height THEN Walking(done + 1, height, 0)
                                        ELSE Resting("waiting"))
    BY <1>2, SMTT(60) DEF NewBlockEvent, Shape
  <2>2. CASE done < height
    <3>1. PICK q : q = Walking(done + 1, height, 0)
      BY Zenon
    <3>2. ~Holding(q) /\ q.block = done + 1 /\ q.last = height /\ Move("listener", q)
      BY <2>1, <2>2, <3>1, Places, SMTT(60)
    <3>3. done + 1 \in 1..MaxHeight /\ height \in 1..MaxHeight
      BY <2>1, <2>2, BlockContents DEF Shape
    <3> QED BY <1>0, <3>2, <3>3, MoveKeeps, Zenon
  <2>3. CASE ~(done < height)
    BY <1>0, <2>1, <2>3, Places, MoveKeeps, Zenon
  <2> QED BY <2>2, <2>3, Zenon
<1> QED BY <1>1, <1>2, Zenon

\* Every step keeps the invariant.
LEMMA NonceStep == SubInv /\ NonceInv /\ [Next]_vars => NonceInv'
<1> SUFFICES ASSUME SubInv, NonceInv, [Next]_vars PROVE NonceInv'
  BY Zenon
<1> USE DEF chainVars, ethVars, historyVars
<1>0. Shape /\ "replay" \in Processes
  BY Zenon DEF SubInv, Processes
<1>1. CASE UNCHANGED <<mined, pool, handled, proc>>
  <2>1. proc' = [p \in Processes |-> proc'[p]]
    BY <1>1, Zenon DEF NonceInv, NonceTypes
  <2>2. \A p \in Processes :
          Busy(proc'[p]) => proc'[p].block \in 1..MaxHeight /\ proc'[p].last \in 1..MaxHeight
    BY <1>1, Zenon DEF NonceInv, NonceTypes
  <2> QED BY <1>1, <2>1, <2>2, HoldersKeep, Zenon
<1>2. CASE UNCHANGED vars
  BY <1>1, <1>2, Zenon DEF vars
<1>3. CASE NewBlock
  BY <1>1, <1>3, Zenon DEF NewBlock
<1>4. CASE Mine \/ \E nonce \in DOMAIN pool : Evict(nonce)
  BY <1>4, MineNonce, EvictNonce, Zenon
<1>5. CASE Start \/ NewBlockEvent \/ Restart
  BY <1>0, <1>5, ListenerNonce, Zenon
<1>6. ASSUME NEW from \in 1..height, NEW to \in 1..height, Replay(from, to) PROVE NonceInv'
  <2>1. PICK q : q = Walking(from, to, 0)
    BY Zenon
  <2>2. ~Holding(q) /\ q.block = from /\ q.last = to
    BY <2>1, Places, SMTT(60)
  <2>3. Move("replay", q) /\ UNCHANGED <<mined, pool, handled>>
    BY <1>6, <2>1, Zenon DEF Replay
  <2>4. from \in 1..MaxHeight /\ to \in 1..MaxHeight
    BY <1>0, BlockContents DEF Shape
  <2> QED BY <1>0, <2>2, <2>3, <2>4, MoveKeeps, Zenon
<1>7. ASSUME NEW p \in Processes, Fetch(p) \/ Handle(p) PROVE NonceInv'
  <2>1. CASE SkipMessage(p) \/ InitRelayConfigFails(p) \/ Receipt(p)
    <3>1. NextMessage(p) /\ UNCHANGED <<mined, pool, handled>> /\ Busy(proc[p])
      BY <2>1, Zenon DEF SkipMessage, InitRelayConfigFails, Receipt, Busy
    <3> QED BY <3>1, NextMessageNonce, Zenon
  <2>2. CASE InitRelayConfig(p)
    BY <2>2, InitRelayNonce, Zenon
  <2>3. CASE \E answered \in BOOLEAN : SendClaim(p, answered)
    BY <2>3, SendNonce, Zenon
  <2>4. CASE SendLost(p) \/ ReceiptTimeout(p)
    <3>1. AttemptFails(p) /\ UNCHANGED <<mined, pool, handled>> /\ Holding(proc[p])
      BY <2>4, Zenon DEF SendLost, ReceiptTimeout, Holding
    <3> QED BY <3>1, AttemptFailsNonce, Zenon
  <2>5. CASE Fetch(p) \/ BlockDone(p)
    BY <2>5, BlockNonce, Zenon
  <2> QED BY <1>7, <2>1, <2>2, <2>3, <2>4, <2>5, Zenon DEF Handle
<1> QED
  BY <1>2, <1>3, <1>4, <1>5, <1>6, <1>7, Zenon DEF Next

\* However often answers get lost, receipts time out, transactions are evicted
\* and the two processes compete for nonces, no message has more transactions on
\* Ethereum than calls of handleBurnLockMsg: retrying never repeats.
THEOREM RetriesNeverRepeat == Spec => []OneClaimPerHandling
<1>1. Init => NonceInv
  <2> SUFFICES ASSUME Init PROVE NonceInv
    BY Zenon
  <2>1. /\ proc = [p \in Processes |-> Resting(IF p = "listener" THEN "connecting" ELSE "waiting")]
        /\ mined = <<>> /\ pool = <<>> /\ handled = [m \in Messages |-> 0]
    BY Zenon DEF Init
  <2>2. \A p \in Processes : ~Holding(proc[p]) /\ ~Busy(proc[p])
    BY <2>1, Places, Zenon
  <2>3. NonceTypes
    BY <2>1, <2>2, CosmosSubAssumption DEF NonceTypes
  <2>4. \A m : Used(m) = {}
    BY <2>1, <2>2 DEF Used, Uses
  <2>5. \A m \in Messages : Cardinality(Used(m)) <= handled[m]
    <3> TAKE m \in Messages
    <3>1. Cardinality(Used(m)) = 0
      BY <2>4, FS_EmptySet, Zenon
    <3> QED BY <3>1, <2>1
  <2> QED BY <2>3, <2>5, Zenon DEF NonceInv
<1>2. NonceInv => OneClaimPerHandling
  <2> SUFFICES ASSUME NonceInv, NEW m \in Messages
               PROVE  Cardinality({i \in DOMAIN mined : mined[i] = m}) <= handled[m]
    BY Zenon DEF OneClaimPerHandling
  <2>1. PICK S, T : S = Used(m) /\ T = {i \in DOMAIN mined : mined[i] = m}
    BY Zenon
  <2>2. DOMAIN mined \subseteq 1..MaxSends
    BY CosmosSubAssumption DEF NonceInv, NonceTypes
  <2>3. T \subseteq S
    BY <2>1, <2>2, Zenon DEF Used, Uses
  <2>4. IsFiniteSet(S) /\ Cardinality(S) \in Nat /\ Cardinality(S) <= handled[m] /\ handled[m] \in Nat
    BY <2>1, UsedFinite, Zenon DEF NonceInv, NonceTypes
  <2>5. Cardinality(T) <= Cardinality(S) /\ Cardinality(T) \in Nat
    BY <2>3, <2>4, FS_Subset, FS_CardinalityType, Zenon
  <2>6. Cardinality(T) <= handled[m]
    BY <2>4, <2>5
  <2> QED BY <2>1, <2>6, Zenon
<1> QED
  BY <1>1, <1>2, SubInitial, SubStep, NonceStep, PTL DEF Spec
=============================================================================
