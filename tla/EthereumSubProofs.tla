-------------------------- MODULE EthereumSubProofs --------------------------
(***************************************************************************)
(* Proofs about the Ethereum listener of the relayer, for any number of    *)
(* relayers, events, blocks, restarts and reorganisations.                 *)
(***************************************************************************)
EXTENDS EthereumSub, TLAPS

Running(v) == phase[v] \in {"listening", "saving"}

\* Events in the blocks from..to have been sent.
SentIn(v, from, to) ==
    \A e \in Ids \ Unparsable : from <= BlockOf[e] /\ BlockOf[e] <= to => e \in attempted[v]

\* What the induction needs for one listener.  A running listener goes on where
\* the checkpoint ends, so its ranges leave no gap; and from sending to saving
\* the range it is about to cover has been sent.
ListenerInv(v) ==
    /\ SentIn(v, first[v], checkpoint[v] - 1)
    /\ Running(v) /\ checkpoint[v] # 0 => lastProcessedBlock[v] = checkpoint[v]
    /\ Running(v) /\ checkpoint[v] = 0 => lastProcessedBlock[v] <= MaxBlock
    /\ phase[v] = "saving" => SentIn(v, lastProcessedBlock[v], endingBlock[v])

RelayInv == TypeOK /\ \A v \in Relayers : ListenerInv(v)

\* The blocks of events and the bounds are numbers.
LEMMA BlockNumbers ==
    /\ MaxBlock \in Nat /\ Trailing \in Nat
    /\ \A e \in Ids : BlockOf[e] \in 1..MaxBlock
BY RelayAssumption

\* Nothing has been processed at the start.
LEMMA RelayInitial == Init => RelayInv
<1> SUFFICES ASSUME Init PROVE RelayInv
  OBVIOUS
<1> USE BlockNumbers DEF Init
<1>1. TypeOK
  BY DEF TypeOK
<1>2. ASSUME NEW v \in Relayers PROVE ListenerInv(v)
  BY <1>2 DEF ListenerInv, SentIn, Running
<1> QED
  BY <1>1, <1>2 DEF RelayInv

\* A step that leaves the listeners alone keeps the invariant, whatever happens
\* to the transactions under way and to the oracle.
LEMMA OutsideKeeps ==
    ASSUME RelayInv, UNCHANGED <<subVars, attempted>>,
           head' \in 0..MaxBlock, inFlight' \in [Relayers -> SUBSET Ids]
    PROVE  RelayInv'
<1> USE DEF subVars
<1>1. TypeOK'
  BY DEF RelayInv, TypeOK
<1>2. ASSUME NEW v \in Relayers PROVE ListenerInv(v)'
  BY <1>2 DEF RelayInv, ListenerInv, SentIn, Running
<1> QED
  BY <1>1, <1>2 DEF RelayInv

\* A step of one listener concerns no other.
LEMMA OthersKeep ==
    ASSUME RelayInv, TypeOK', NEW v \in Relayers, ListenerInv(v)',
           \A w \in Relayers \ {v} :
              /\ phase'[w] = phase[w] /\ lastProcessedBlock'[w] = lastProcessedBlock[w]
              /\ checkpoint'[w] = checkpoint[w] /\ endingBlock'[w] = endingBlock[w]
              /\ first'[w] = first[w] /\ attempted'[w] = attempted[w]
    PROVE  RelayInv'
<1>1. ASSUME NEW w \in Relayers, w # v PROVE ListenerInv(w)'
  BY <1>1 DEF RelayInv, ListenerInv, SentIn, Running
<1> QED
  BY <1>1 DEF RelayInv

\* Sending covers the range from where the listener goes on to the header's
\* confirmed block.
LEMMA NewHeadKeeps ==
    ASSUME RelayInv, NEW v \in Relayers, NEW n \in Heads, NEW lost, NewHead(v, n, lost)
    PROVE  RelayInv'
<1> USE BlockNumbers
<1> DEFINE claims == EventsIn(FromBlock(v, n), n - Trailing)
<1>1. /\ TypeOK /\ ListenerInv(v)
      /\ phase[v] = "listening"
      /\ n \in 0..MaxBlock /\ n - Trailing \in 0..MaxBlock
  BY DEF RelayInv, TypeOK, Heads, NewHead
<1>2. FromBlock(v, n) \in 0..MaxBlock + 1
  BY <1>1 DEF TypeOK, FromBlock
<1>3. claims \subseteq Ids
  BY DEF EventsIn
<1>4. inFlight' \in [Relayers -> SUBSET Ids]
  BY <1>1, <1>3 DEF NewHead, RelayToCosmos, TypeOK
<1>5. attempted' \in [Relayers -> SUBSET Ids] /\ attempted'[v] = attempted[v] \cup claims
  BY <1>1, <1>3 DEF NewHead, TypeOK
<1>6. /\ phase' \in [Relayers -> {"connecting", "listening", "saving", "stopped"}]
      /\ phase'[v] = "saving"
      /\ lastProcessedBlock' \in [Relayers -> 0..MaxBlock + 1]
      /\ lastProcessedBlock'[v] = FromBlock(v, n)
      /\ endingBlock' \in [Relayers -> 0..MaxBlock] /\ endingBlock'[v] = n - Trailing
      /\ checkpoint' = checkpoint /\ first' = first /\ head' = head
  BY <1>1, <1>2 DEF NewHead, TypeOK
<1>7. TypeOK'
  BY <1>1, <1>4, <1>5, <1>6 DEF TypeOK
<1>8. SentIn(v, first[v], checkpoint[v] - 1)'
  BY <1>1, <1>5, <1>6 DEF ListenerInv, SentIn
<1>9. SentIn(v, lastProcessedBlock[v], endingBlock[v])'
  BY <1>1, <1>2, <1>5, <1>6 DEF SentIn, EventsIn
<1>10. checkpoint[v] # 0 => FromBlock(v, n) = checkpoint[v]
  BY <1>1 DEF ListenerInv, Running, FromBlock
<1>11. checkpoint[v] = 0 => FromBlock(v, n) <= MaxBlock
  BY <1>1 DEF ListenerInv, Running, FromBlock
<1>12. ListenerInv(v)'
  BY <1>6, <1>8, <1>9, <1>10, <1>11 DEF ListenerInv
<1> QED
  BY <1>1, <1>7, <1>12, OthersKeep DEF NewHead, TypeOK

\* Saving extends what the checkpoint covers by the range that was sent, which
\* begins where the checkpoint ended.
LEMMA SaveKeeps ==
    ASSUME RelayInv, NEW v \in Relayers, SaveCheckpoint(v)
    PROVE  RelayInv'
<1> USE BlockNumbers
<1>1. /\ TypeOK /\ ListenerInv(v)
      /\ phase[v] = "saving"
      /\ lastProcessedBlock[v] \in Nat /\ checkpoint[v] \in Nat /\ endingBlock[v] \in 0..MaxBlock
      /\ first[v] \in Nat
  BY DEF RelayInv, TypeOK, SaveCheckpoint
<1>2. /\ phase' \in [Relayers -> {"connecting", "listening", "saving", "stopped"}]
      /\ phase'[v] = "listening"
      /\ checkpoint' \in [Relayers -> 0..MaxBlock + 1] /\ checkpoint'[v] = endingBlock[v] + 1
      /\ lastProcessedBlock' \in [Relayers -> 0..MaxBlock + 1]
      /\ lastProcessedBlock'[v] = endingBlock[v] + 1
      /\ endingBlock' \in [Relayers -> 0..MaxBlock]
      /\ attempted' = attempted /\ head' = head /\ inFlight' = inFlight
  BY <1>1 DEF SaveCheckpoint, TypeOK
<1>3. /\ first' \in [Relayers -> 0..MaxBlock]
      /\ first'[v] = IF checkpoint[v] = 0 THEN lastProcessedBlock[v] ELSE first[v]
  BY <1>1 DEF SaveCheckpoint, TypeOK, ListenerInv, Running
<1>4. TypeOK'
  BY <1>1, <1>2, <1>3 DEF TypeOK
<1>5. SentIn(v, lastProcessedBlock[v], endingBlock[v])
  BY <1>1 DEF ListenerInv
<1>6. SentIn(v, first[v], checkpoint[v] - 1)'
  <2>1. CASE checkpoint[v] = 0
    BY <2>1, <1>1, <1>2, <1>3, <1>5 DEF SentIn
  <2>2. CASE checkpoint[v] # 0
    <3>1. lastProcessedBlock[v] = checkpoint[v]
      BY <2>2, <1>1 DEF ListenerInv, Running
    <3>2. SentIn(v, first[v], checkpoint[v] - 1)
      BY <1>1 DEF ListenerInv
    <3> QED
      BY <2>2, <3>1, <3>2, <1>1, <1>2, <1>3, <1>5 DEF SentIn
  <2> QED
    BY <2>1, <2>2
<1>7. ListenerInv(v)'
  BY <1>1, <1>2, <1>6 DEF ListenerInv, Running
<1> QED
  BY <1>1, <1>4, <1>7, OthersKeep DEF SaveCheckpoint, TypeOK

\* Starting, failing, stopping and being killed forget at most what is in memory.
LEMMA OtherListenerStepsKeep ==
    ASSUME RelayInv, NEW v \in Relayers,
           \/ Start(v) \/ SubscribeNewHeadFails(v) \/ SubscriptionError(v) \/ Restart(v)
           \/ \E n \in Heads : FilterLogsFails(v, n)
    PROVE  RelayInv'
<1> USE BlockNumbers
<1>1. TypeOK /\ ListenerInv(v)
  BY DEF RelayInv
<1>2. attempted' = attempted /\ checkpoint' = checkpoint /\ first' = first
  BY DEF Start, SubscribeNewHeadFails, SubscriptionError, Restart, FilterLogsFails
<1>3. SentIn(v, first[v], checkpoint[v] - 1)'
  BY <1>1, <1>2 DEF ListenerInv, SentIn
<1>4. CASE Start(v)
  <2>1. TypeOK' /\ ListenerInv(v)'
    BY <1>1, <1>3, <1>4 DEF Start, TypeOK, ListenerInv, Running
  <2> QED
    BY <1>1, <1>4, <2>1, OthersKeep DEF Start, TypeOK
<1>5. CASE SubscribeNewHeadFails(v)
  <2>1. TypeOK' /\ ListenerInv(v)'
    BY <1>1, <1>3, <1>5 DEF SubscribeNewHeadFails, TypeOK, ListenerInv, Running
  <2> QED
    BY <1>1, <1>5, <2>1, OthersKeep DEF SubscribeNewHeadFails, TypeOK
<1>6. CASE SubscriptionError(v)
  <2>1. TypeOK' /\ ListenerInv(v)'
    BY <1>1, <1>3, <1>6 DEF SubscriptionError, TypeOK, ListenerInv, Running
  <2> QED
    BY <1>1, <1>6, <2>1, OthersKeep DEF SubscriptionError, TypeOK
<1>7. CASE Restart(v)
  <2>1. TypeOK' /\ ListenerInv(v)'
    BY <1>1, <1>3, <1>7 DEF Restart, TypeOK, ListenerInv, Running
  <2> QED
    BY <1>1, <1>7, <2>1, OthersKeep DEF Restart, TypeOK
<1>8. ASSUME NEW n \in Heads, FilterLogsFails(v, n) PROVE RelayInv'
  <2>1. n \in 0..MaxBlock /\ n - Trailing \in 0..MaxBlock /\ phase[v] = "listening"
    BY <1>1, <1>8 DEF Heads, FilterLogsFails, TypeOK
  <2>2. /\ FromBlock(v, n) \in 0..MaxBlock + 1
        /\ checkpoint[v] # 0 => FromBlock(v, n) = checkpoint[v]
        /\ checkpoint[v] = 0 => FromBlock(v, n) <= MaxBlock
    BY <1>1, <2>1 DEF TypeOK, ListenerInv, Running, FromBlock
  <2>3. TypeOK'
    BY <1>1, <1>8, <2>2 DEF FilterLogsFails, TypeOK
  <2>4. ListenerInv(v)'
    BY <1>1, <1>3, <1>8, <2>1, <2>2 DEF FilterLogsFails, TypeOK, ListenerInv, Running
  <2> QED
    BY <1>1, <1>8, <2>3, <2>4, OthersKeep DEF FilterLogsFails, TypeOK
<1> QED
  BY <1>4, <1>5, <1>6, <1>7, <1>8

\* Every step keeps the invariant.
LEMMA RelayStep == RelayInv /\ [Next]_vars => RelayInv'
<1> SUFFICES ASSUME RelayInv, [Next]_vars PROVE RelayInv'
  OBVIOUS
<1> USE BlockNumbers
<1>1. TypeOK
  BY DEF RelayInv
<1>2. CASE UNCHANGED vars
  BY <1>1, <1>2, OutsideKeeps DEF vars, TypeOK
<1>3. CASE MineBlock
  <2>1. head' \in 0..MaxBlock
    BY <1>1, <1>3 DEF MineBlock, TypeOK
  <2> QED
    BY <1>1, <1>3, <2>1, OutsideKeeps DEF MineBlock, TypeOK
<1>4. ASSUME NEW v \in Relayers, Listener(v) PROVE RelayInv'
  BY <1>4, NewHeadKeeps, SaveKeeps, OtherListenerStepsKeep DEF Listener
<1>5. ASSUME NEW v \in Relayers, DeliverTx(v) \/ DropTx(v) PROVE RelayInv'
  BY <1>1, <1>5, OutsideKeeps DEF DeliverTx, DropTx, TypeOK
<1>6. ASSUME NEW v \in Relayers, NEW e \in Ids, NEW lost \in Losses, Replay(v, e, lost)
      PROVE  RelayInv'
  BY <1>1, <1>6, OutsideKeeps DEF Replay, RelayToCosmos, TypeOK
<1>7. ASSUME NEW v \in Validators \ Relayers, NEW e \in Ids, OtherClaim(v, e) PROVE RelayInv'
  BY <1>1, <1>7, OutsideKeeps DEF OtherClaim, TypeOK
<1> QED
  BY <1>2, <1>3, <1>4, <1>5, <1>6, <1>7 DEF Next

\* However often a listener is killed between sending and saving, loses its
\* subscription, meets a failing node or hears of an older header, no event below
\* its checkpoint is left out (EthereumSub.Start, its loop and the checkpoint key
\* of the database).
THEOREM NoEventLeftOut == Spec => []CheckpointHasBeenSent
<1>1. RelayInv => CheckpointHasBeenSent
  BY BlockNumbers DEF RelayInv, ListenerInv, SentIn, CheckpointHasBeenSent, TypeOK
<1> QED
  BY <1>1, RelayInitial, RelayStep, PTL DEF Spec
=============================================================================
