-------------------------- MODULE BlocklistProofs --------------------------
(***************************************************************************)
(* Proofs about Blocklist, for any set of addresses and batches of any     *)
(* length.                                                                 *)
(***************************************************************************)
EXTENDS Blocklist, TLAPS

\* The accounts of the batch that n turns of the loop have processed.
Done(n) == {batch[j] : j \in 1..n}

\* What the loop of a batch has done so far: its accounts are different, were
\* all listed, or not listed, at the start, and are the only change.
LoopInv(n, list) ==
    /\ \A j, k \in 1..n : batch[j] = batch[k] => j = k
    /\ removing => Done(n) \subseteq Listed(saved[1]) /\ list = Listed(saved[1]) \ Done(n)
    /\ ~removing => Done(n) \cap Listed(saved[1]) = {} /\ list = Listed(saved[1]) \cup Done(n)

\* The inductive invariant.  Rows are indexed in the storage and in the saved
\* storage; between calls the two are the same; during a batch they differ by
\* what its loop has done.
IInv ==
    /\ TypeOK
    /\ IndexInv
    /\ RowsIndexed(saved[1], saved[2])
    /\ Idle => saved = <<userList, userIndex>>
    /\ ~Idle => row < Len(batch) /\ LoopInv(row, Listed(userList))

\* isBlocklisted answers from the index what a search of the list would.
LEMMA QueryLemma ==
    ASSUME TypeOK, IndexInv
    PROVE  QueryExact
<1> SUFFICES ASSUME NEW a \in Addresses
             PROVE  isBlocklisted(a) <=> a \in Listed(userList)
    BY DEF QueryExact
<1>1. isBlocklisted(a) => a \in Listed(userList)
  <2> HAVE isBlocklisted(a)
  <2>1. userIndex[a] < Len(userList) /\ userList[userIndex[a] + 1] = a
      BY Zenon DEF isBlocklisted
  <2>2. userIndex[a] \in Nat /\ Len(userList) \in Nat
      BY DEF TypeOK
  <2>3. userIndex[a] + 1 \in 1..Len(userList)
      BY <2>1, <2>2
  <2> QED BY <2>1, <2>3, Zenon DEF Listed
<1>2. a \in Listed(userList) => isBlocklisted(a)
  <2> HAVE a \in Listed(userList)
  <2>1. PICK i \in 1..Len(userList) : userList[i] = a
      BY DEF Listed
  <2>2. userIndex[userList[i]] = i - 1
      BY <2>1, Zenon DEF IndexInv, RowsIndexed
  <2>3. Len(userList) \in Nat
      BY DEF TypeOK
  <2>4. /\ userIndex[a] = i - 1 /\ i - 1 < Len(userList)
        /\ userList[userIndex[a] + 1] = a
    <3>1. userIndex[a] = i - 1
        BY <2>1, <2>2, Zenon
    <3>2. i - 1 < Len(userList) /\ (i - 1) + 1 = i
        BY <2>3
    <3> QED BY <2>1, <3>1, <3>2, Zenon
  <2>5. userIndex[a] < Len(userList)
      BY <2>4, Zenon
  <2>6. userList # <<>>
      BY <2>3
  <2> QED BY <2>4, <2>5, <2>6, Zenon DEF isBlocklisted
<1> QED BY <1>1, <1>2

\* _addToBlocklist appends one new row and keeps every row indexed.
LEMMA AddRowLemma ==
    ASSUME TypeOK, IndexInv, NEW a \in Addresses, addRow(a)
    PROVE  /\ userList' \in Seq(Addresses)
           /\ userIndex' \in [Addresses -> Nat]
           /\ IndexInv'
           /\ a \notin Listed(userList)
           /\ Listed(userList') = Listed(userList) \cup {a}
<1>1. a \notin Listed(userList)
    BY QueryLemma DEF addRow, QueryExact
<1>2. /\ userList' = Append(userList, a)
      /\ userIndex' = [userIndex EXCEPT ![a] = Len(userList)]
      /\ Len(userList) \in Nat
    BY DEF addRow, TypeOK
<1>3. userList' \in Seq(Addresses) /\ userIndex' \in [Addresses -> Nat]
    BY <1>2 DEF TypeOK
<1>4. /\ Len(userList') = Len(userList) + 1
      /\ \A i \in 1..Len(userList) : userList'[i] = userList[i] /\ userList[i] \in Addresses
      /\ userList'[Len(userList) + 1] = a
    BY <1>2 DEF TypeOK
<1>5. Listed(userList') = Listed(userList) \cup {a}
    BY <1>2, <1>4 DEF Listed
<1>6. IndexInv'
  <2> SUFFICES ASSUME NEW i \in 1..Len(userList')
               PROVE  userIndex'[userList'[i]] = i - 1
      BY DEF IndexInv, RowsIndexed
  <2>1. CASE i = Len(userList) + 1
      BY <2>1, <1>2, <1>4 DEF TypeOK
  <2>2. CASE i \in 1..Len(userList)
    <3>1. userList[i] # a
        BY <2>2, <1>1 DEF Listed
    <3> QED BY <3>1, <2>2, <1>2, <1>4 DEF IndexInv, RowsIndexed, TypeOK
  <2> QED BY <2>1, <2>2, <1>2, <1>4
<1> QED BY <1>1, <1>3, <1>5, <1>6

\* _removeFromBlocklist deletes one row and keeps every row indexed, also when
\* the row moved into the hole is the deleted row itself.
LEMMA RemoveRowLemma ==
    ASSUME TypeOK, IndexInv, NEW a \in Addresses, removeRow(a)
    PROVE  /\ userList' \in Seq(Addresses)
           /\ userIndex' \in [Addresses -> Nat]
           /\ IndexInv'
           /\ a \in Listed(userList)
           /\ Listed(userList') = Listed(userList) \ {a}
<1> DEFINE n == Len(userList)
           r == userIndex[a] + 1
<1>0. /\ isBlocklisted(a)
      /\ userList' = Front([userList EXCEPT ![r] = userList[n]])
      /\ userIndex' = [userIndex EXCEPT ![userList[n]] = userIndex[a]]
    BY Zenon DEF removeRow
<1>1. n \in Nat /\ r \in 1..n /\ userList[r] = a /\ n \in 1..n /\ r - 1 = userIndex[a]
  <2>1. userIndex[a] \in Nat /\ n \in Nat
      BY DEF TypeOK
  <2>2. userIndex[a] < n /\ userList[r] = a
      BY <1>0, Zenon DEF isBlocklisted
  <2> QED BY <2>1, <2>2
<1>2. \A i \in 1..n : userList[i] \in Addresses /\ userIndex[userList[i]] = i - 1
  <2>1. \A i \in 1..n : userIndex[userList[i]] = i - 1
      BY Zenon DEF IndexInv, RowsIndexed
  <2>2. \A i \in 1..n : userList[i] \in Addresses
      BY DEF TypeOK
  <2> QED BY <2>1, <2>2, Zenon
<1>3. \A i, j \in 1..n : userList[i] = userList[j] => i = j
  <2> SUFFICES ASSUME NEW i \in 1..n, NEW j \in 1..n, userList[i] = userList[j]
               PROVE  i = j
      OBVIOUS
  <2>1. i - 1 = j - 1
      BY <1>2
  <2> QED BY <2>1, <1>1
<1>4. userIndex' = [userIndex EXCEPT ![userList[n]] = r - 1]
    BY <1>0, <1>1
<1>5. userIndex' \in [Addresses -> Nat]
    BY <1>4, <1>1, <1>2 DEF TypeOK
<1> DEFINE moved == [userList EXCEPT ![r] = userList[n]]
<1>6. moved \in Seq(Addresses) /\ Len(moved) = n
    BY <1>1, <1>2 DEF TypeOK
<1>7. userList' = [i \in 1..(n - 1) |-> moved[i]]
    BY <1>0, <1>6 DEF Front
<1>8. userList' \in Seq(Addresses) /\ Len(userList') = n - 1
  <2>1. \A i \in 1..(n - 1) : moved[i] \in Addresses
      BY <1>1, <1>6
  <2>2. n - 1 \in Nat
      BY <1>1
  <2> HIDE DEF moved, n
  <2> QED BY <2>1, <2>2, <1>7
<1>9. \A i \in 1..(n - 1) : userList'[i] = IF i = r THEN userList[n] ELSE userList[i]
  <2>0. userList \in [1..n -> Addresses]
      BY <1>1, <1>2 DEF TypeOK
  <2>1. \A i \in 1..n : moved[i] = IF i = r THEN userList[n] ELSE userList[i]
    <3> HIDE DEF n, r
    <3> QED BY <2>0, <1>1
  <2>2. \A i \in 1..(n - 1) : i \in 1..n
      BY <1>1
  <2> HIDE DEF moved, n, r
  <2> QED BY <2>1, <2>2, <1>7
<1> HIDE DEF n, r, moved
<1>10. IndexInv'
  <2> SUFFICES ASSUME NEW i \in 1..(n - 1)
               PROVE  userIndex'[userList'[i]] = i - 1
      BY <1>8 DEF IndexInv, RowsIndexed
  <2>1. CASE i = r
      BY <2>1, <1>1, <1>2, <1>4, <1>9 DEF TypeOK
  <2>2. CASE i # r
    <3>1. userList'[i] = userList[i] /\ userList[i] # userList[n] /\ userIndex[userList[i]] = i - 1
        BY <2>2, <1>1, <1>2, <1>3, <1>9
    <3> QED BY <3>1, <1>1, <1>2, <1>4 DEF TypeOK
  <2> QED BY <2>1, <2>2
<1>11. a \in Listed(userList)
    BY <1>1 DEF Listed, n
<1>12. Listed(userList') \subseteq Listed(userList) \ {a}
  <2> SUFFICES ASSUME NEW i \in 1..(n - 1)
               PROVE  userList'[i] \in Listed(userList) \ {a}
      BY <1>8 DEF Listed
  <2>1. \A j \in 1..n : userList[j] \in Listed(userList)
      BY DEF Listed, n
  <2>2. CASE i = r
      BY <2>1, <2>2, <1>1, <1>3, <1>9
  <2>3. CASE i # r
      BY <2>1, <2>3, <1>1, <1>3, <1>9
  <2> QED BY <2>2, <2>3
<1>13. Listed(userList) \ {a} \subseteq Listed(userList')
  <2> SUFFICES ASSUME NEW j \in 1..n, userList[j] # a
               PROVE  \E i \in 1..(n - 1) : userList'[i] = userList[j]
      BY <1>8 DEF Listed, n
  <2>1. CASE j = n
    <3>1. r \in 1..(n - 1)
        BY <2>1, <1>1
    <3> QED BY <3>1, <2>1, <1>9
  <2>2. CASE j # n
    <3>1. j \in 1..(n - 1) /\ j # r
        BY <2>2, <1>1
    <3> QED BY <3>1, <1>9
  <2> QED BY <2>1, <2>2
<1> QED BY <1>5, <1>8, <1>10, <1>11, <1>12, <1>13

\* A turn of the loop processes one account more.
LEMMA TurnLemma ==
    ASSUME IInv, BatchRow
    PROVE  /\ userList' \in Seq(Addresses)
           /\ userIndex' \in [Addresses -> Nat]
           /\ IndexInv'
           /\ LoopInv(row + 1, Listed(userList'))
<1> DEFINE a == Current
           S == Listed(saved[1])
<1>1. /\ TypeOK /\ IndexInv /\ ~Idle /\ row \in Nat /\ Len(batch) \in Nat
      /\ row + 1 \in 1..Len(batch) /\ LoopInv(row, Listed(userList))
  <2>1. TypeOK /\ IndexInv /\ ~Idle /\ row < Len(batch) /\ LoopInv(row, Listed(userList))
      BY DEF IInv, BatchRow
  <2>2. row \in Nat /\ Len(batch) \in Nat
      BY <2>1 DEF TypeOK
  <2> QED BY <2>1, <2>2
<1>2. a \in Addresses
    BY <1>1 DEF TypeOK, Current
<1>3. Done(row + 1) = Done(row) \cup {a}
  <2>1. \A j : j \in 1..(row + 1) <=> j \in 1..row \/ j = row + 1
      BY <1>1
  <2> QED BY <2>1 DEF Done, Current
<1>4. ASSUME a \notin Done(row)
      PROVE  \A j, k \in 1..(row + 1) : batch[j] = batch[k] => j = k
  <2>1. \A j \in 1..row : batch[j] # batch[row + 1]
      BY <1>4 DEF Done, Current
  <2>2. \A j \in 1..(row + 1) : j \in 1..row \/ j = row + 1
      BY <1>1
  <2> QED BY <1>1, <2>1, <2>2 DEF LoopInv
<1>5. CASE removing
  <2>1. removeRow(a)
      BY <1>5 DEF BatchRow
  <2>2. /\ userList' \in Seq(Addresses) /\ userIndex' \in [Addresses -> Nat] /\ IndexInv'
        /\ a \in Listed(userList) /\ Listed(userList') = Listed(userList) \ {a}
      BY <1>1, <1>2, <2>1, RemoveRowLemma
  <2>3. Done(row) \subseteq S /\ Listed(userList) = S \ Done(row)
      BY <1>1, <1>5 DEF LoopInv
  <2>4. a \notin Done(row) /\ Done(row + 1) \subseteq S /\ Listed(userList') = S \ Done(row + 1)
      BY <1>3, <2>2, <2>3
  <2> QED BY <1>4, <1>5, <2>2, <2>4 DEF LoopInv
<1>6. CASE ~removing
  <2>1. addRow(a)
      BY <1>6 DEF BatchRow
  <2>2. /\ userList' \in Seq(Addresses) /\ userIndex' \in [Addresses -> Nat] /\ IndexInv'
        /\ a \notin Listed(userList) /\ Listed(userList') = Listed(userList) \cup {a}
      BY <1>1, <1>2, <2>1, AddRowLemma
  <2>3. Done(row) \cap S = {} /\ Listed(userList) = S \cup Done(row)
      BY <1>1, <1>6 DEF LoopInv
  <2>4. a \notin Done(row) /\ Done(row + 1) \cap S = {} /\ Listed(userList') = S \cup Done(row + 1)
      BY <1>3, <2>2, <2>3
  <2> QED BY <1>4, <1>6, <2>2, <2>4 DEF LoopInv
<1> QED BY <1>5, <1>6

-----------------------------------------------------------------------------

\* The empty list satisfies the invariant.
LEMMA InitIInv == Init => IInv
<1> SUFFICES ASSUME Init PROVE IInv
    OBVIOUS
<1>1. TypeOK
  <2>1. userList \in Seq(Addresses) /\ batch \in Seq(Addresses)
      BY DEF Init
  <2>2. userIndex \in [Addresses -> Nat]
      BY DEF Init
  <2>3. saved \in Seq(Addresses) \X [Addresses -> Nat]
      BY <2>1, <2>2 DEF Init
  <2> QED BY <2>1, <2>2, <2>3 DEF Init, TypeOK
<1>2. IndexInv /\ RowsIndexed(saved[1], saved[2])
    BY DEF Init, IndexInv, RowsIndexed
<1> QED BY <1>1, <1>2 DEF Init, IInv, Idle

\* Every call, and every turn of a batch, keeps the invariant.
LEMMA StepIInv == IInv /\ [Next]_vars => IInv'
<1> SUFFICES ASSUME IInv, [Next]_vars PROVE IInv'
    OBVIOUS
<1> USE DEF IInv
<1>1. ASSUME NEW c \in Callers, NEW a \in Addresses, addToBlocklist(c, a)
      PROVE  IInv'
  <2>1. addRow(a) /\ saved' = <<userList', userIndex'>> /\ UNCHANGED <<batch, row, removing>> /\ Idle
      BY <1>1 DEF addToBlocklist
  <2>2. TypeOK'
      BY <2>1, AddRowLemma DEF TypeOK
  <2>3. IndexInv' /\ RowsIndexed(saved[1], saved[2])'
      BY <2>1, AddRowLemma DEF IndexInv
  <2> QED BY <2>1, <2>2, <2>3 DEF Idle
<1>2. ASSUME NEW c \in Callers, NEW a \in Addresses, removeFromBlocklist(c, a)
      PROVE  IInv'
  <2>1. removeRow(a) /\ saved' = <<userList', userIndex'>> /\ UNCHANGED <<batch, row, removing>> /\ Idle
      BY <1>2 DEF removeFromBlocklist
  <2>2. TypeOK'
      BY <2>1, RemoveRowLemma DEF TypeOK
  <2>3. IndexInv' /\ RowsIndexed(saved[1], saved[2])'
      BY <2>1, RemoveRowLemma DEF IndexInv
  <2> QED BY <2>1, <2>2, <2>3 DEF Idle
<1>3. ASSUME NEW c \in Callers, NEW b \in Batches, NEW r \in BOOLEAN, StartBatch(c, b, r)
      PROVE  IInv'
  <2>1. b \in Seq(Addresses)
      BY BlocklistAssumption DEF Batches
  <2>2. TypeOK'
      BY <1>3, <2>1 DEF StartBatch, TypeOK
  <2>3. saved' = <<userList', userIndex'>>
      BY <1>3 DEF StartBatch
  <2>4. IndexInv' /\ RowsIndexed(saved[1], saved[2])'
      BY <1>3 DEF StartBatch, IndexInv, RowsIndexed
  <2>5. b # <<>> /\ Len(b) \in Nat \ {0}
      BY <2>1, BlocklistAssumption DEF Batches
  <2>6. row' = 0 /\ batch' = b /\ userList' = userList /\ saved' = saved
      BY <1>3 DEF StartBatch
  <2>7. (row < Len(batch))'
      BY <2>5, <2>6
  <2>8. LoopInv(row, Listed(userList))'
    <3>1. 1..row' = {}
        BY <2>6
    <3>2. Done(row)' = {}
        BY <3>1 DEF Done
    <3>3. saved'[1] = userList'
        BY <2>3
    <3> QED BY <3>1, <3>2, <3>3 DEF LoopInv
  <2> QED BY <2>2, <2>3, <2>4, <2>7, <2>8
<1>4. ASSUME BatchRow PROVE IInv'
  <2>1. /\ userList' \in Seq(Addresses) /\ userIndex' \in [Addresses -> Nat] /\ IndexInv'
        /\ LoopInv(row + 1, Listed(userList'))
      BY <1>4, TurnLemma
  <2>2. row' = row + 1 /\ removing' = removing /\ row \in Nat
      BY <1>4 DEF BatchRow, TypeOK
  <2>3. CASE row + 1 < Len(batch)
    <3>1. batch' = batch /\ saved' = saved
        BY <1>4, <2>3 DEF BatchRow
    <3>2. TypeOK'
        BY <2>1, <2>2, <3>1 DEF TypeOK
    <3>3. LoopInv(row, Listed(userList))'
        BY <2>1, <2>2, <3>1 DEF LoopInv, Done
    <3>4. ~Idle'
        BY <1>4, <3>1 DEF BatchRow, Idle
    <3>5. (row < Len(batch))' /\ RowsIndexed(saved[1], saved[2])'
        BY <2>2, <2>3, <3>1 DEF RowsIndexed
    <3> QED BY <2>1, <3>2, <3>3, <3>4, <3>5
  <2>4. CASE ~(row + 1 < Len(batch))
    <3>1. batch' = <<>> /\ saved' = <<userList', userIndex'>>
        BY <1>4, <2>4 DEF BatchRow
    <3>2. TypeOK'
        BY <2>1, <2>2, <3>1 DEF TypeOK
    <3>3. RowsIndexed(saved[1], saved[2])'
        BY <2>1, <3>1 DEF IndexInv
    <3> QED BY <2>1, <3>1, <3>2, <3>3 DEF Idle
  <2> QED BY <2>3, <2>4
<1>5. ASSUME BatchReverts PROVE IInv'
  <2>1. /\ userList' = saved[1] /\ userIndex' = saved[2] /\ batch' = <<>>
        /\ removing' = removing /\ row' = row /\ saved' = saved
      BY <1>5 DEF BatchReverts
  <2>2. TypeOK'
      BY <2>1 DEF TypeOK
  <2>3. saved' = <<userList', userIndex'>>
      BY <2>1 DEF TypeOK
  <2>4. IndexInv' /\ RowsIndexed(saved[1], saved[2])'
      BY <2>1 DEF IndexInv, RowsIndexed
  <2> QED BY <2>1, <2>2, <2>3, <2>4 DEF Idle
<1>6. CASE UNCHANGED vars
  <2>1. UNCHANGED <<userList, userIndex, batch, row, removing, saved>>
      BY <1>6 DEF vars
  <2>2. TypeOK' /\ IndexInv' /\ RowsIndexed(saved[1], saved[2])'
      BY <2>1 DEF TypeOK, IndexInv, RowsIndexed
  <2>3. LoopInv(row, Listed(userList))' <=> LoopInv(row, Listed(userList))
      BY <2>1 DEF LoopInv, Done
  <2> QED BY <2>1, <2>2, <2>3 DEF Idle
<1> QED BY <1>1, <1>2, <1>3, <1>4, <1>5, <1>6 DEF Next

\* The invariant holds in every reachable state.
LEMMA Invariance == Spec => []IInv
BY InitIInv, StepIInv, PTL DEF Spec

\* No address has two rows and every listed address is found through its index,
\* whatever has been added, removed and added again.
THEOREM RowsStayIndexed == Spec => []IndexInv
<1>1. IInv => IndexInv
    BY DEF IInv
<1> QED BY <1>1, Invariance, PTL

\* isBlocklisted, the query of BridgeBank's onlyNotBlocklisted, is right for every
\* address in every reachable state.
THEOREM QueryIsExact == Spec => []QueryExact
<1>1. IInv => QueryExact
    BY QueryLemma DEF IInv
<1> QED BY <1>1, Invariance, PTL

\* The contract implements a set of addresses with atomic batch calls, which
\* succeed or fail for a reason that is there when they begin.
THEOREM Refinement == Spec => ImplementsAddressSet
<1> DEFINE M == Listed(saved[1])
<1>1. Init => M = {} /\ batch = <<>> /\ removing = FALSE
    BY DEF Init, Listed
<1>2. IInv /\ [Next]_vars => [Set!SetNext]_(Set!setVars)
  <2> SUFFICES ASSUME IInv, [Next]_vars PROVE Set!SetNext \/ UNCHANGED <<M, batch, removing>>
      BY DEF Set!setVars
  <2> USE DEF IInv
  <2>1. ASSUME NEW c \in Callers, NEW a \in Addresses, addToBlocklist(c, a)
        PROVE  Set!SetNext
    <3>1. M = Listed(userList) /\ M' = Listed(userList) \cup {a} /\ a \notin Listed(userList)
        BY <2>1, AddRowLemma DEF addToBlocklist, TypeOK
    <3>2. Set!Add(a)
        BY <2>1, <3>1 DEF Set!Add, addToBlocklist, Idle
    <3> QED BY <3>2 DEF Set!SetNext
  <2>2. ASSUME NEW c \in Callers, NEW a \in Addresses, removeFromBlocklist(c, a)
        PROVE  Set!SetNext
    <3>1. M = Listed(userList) /\ M' = Listed(userList) \ {a} /\ a \in Listed(userList)
        BY <2>2, RemoveRowLemma DEF removeFromBlocklist, TypeOK
    <3>2. Set!Remove(a)
        BY <2>2, <3>1 DEF Set!Remove, removeFromBlocklist, Idle
    <3> QED BY <3>2 DEF Set!SetNext
  <2>3. ASSUME NEW c \in Callers, NEW b \in Batches, NEW r \in BOOLEAN, StartBatch(c, b, r)
        PROVE  Set!SetNext
    <3>1. b \in Seq(Addresses)
        BY BlocklistAssumption DEF Batches
    <3>2. Set!Ask
        BY <2>3, <3>1 DEF Set!Ask, StartBatch, Idle
    <3> QED BY <3>2 DEF Set!SetNext
  <2>4. ASSUME BatchRow, row + 1 < Len(batch)
        PROVE  UNCHANGED <<M, batch, removing>>
      BY <2>4 DEF BatchRow
  <2>5. ASSUME BatchRow, ~(row + 1 < Len(batch))
        PROVE  Set!SetNext
    <3>1. batch # <<>> /\ batch' = <<>> /\ removing' = removing /\ M' = Listed(userList')
        BY <2>5 DEF BatchRow, Idle
    <3>2. row + 1 = Len(batch)
      <4>1. row \in Nat /\ Len(batch) \in Nat
          BY DEF TypeOK
      <4> QED BY <2>5, <3>1, <4>1 DEF Idle
    <3>3. LoopInv(Len(batch), M')
        BY <2>5, <3>1, <3>2, TurnLemma
    <3>4. Done(Len(batch)) = Set!Requested
        BY DEF Done, Set!Requested
    <3>5. Set!Grantable
        BY <3>3, <3>4 DEF LoopInv, Set!Grantable
    <3>6. M' = IF removing THEN M \ Set!Requested ELSE M \cup Set!Requested
        BY <3>3, <3>4 DEF LoopInv
    <3>7. Set!Grant
        BY <3>1, <3>5, <3>6 DEF Set!Grant
    <3> QED BY <3>7 DEF Set!SetNext
  <2>6. ASSUME BatchReverts
        PROVE  Set!SetNext
    <3>1. batch # <<>> /\ batch' = <<>> /\ UNCHANGED <<M, removing>>
        BY <2>6 DEF BatchReverts, Idle
    <3>2. /\ row \in Nat /\ row + 1 \in 1..Len(batch) /\ Current \in Addresses
          /\ LoopInv(row, Listed(userList))
      <4>1. row \in Nat /\ Len(batch) \in Nat /\ row < Len(batch) /\ LoopInv(row, Listed(userList))
          BY <3>1 DEF Idle, TypeOK
      <4>2. row + 1 \in 1..Len(batch)
          BY <4>1
      <4> QED BY <4>1, <4>2 DEF TypeOK, Current
    <3>3. removing <=> Current \notin Listed(userList)
        BY <2>6, <3>2, QueryLemma, Zenon DEF BatchReverts, QueryExact, TypeOK
    <3>4. Current \in Set!Requested
        BY <3>2 DEF Current, Set!Requested
    <3>5. Current \in Done(row) => ~Set!Grantable
      <4> HAVE Current \in Done(row)
      <4>1. PICK j \in 1..row : batch[j] = batch[row + 1]
          BY DEF Done, Current
      <4>2. j \in 1..Len(batch) /\ j # row + 1
          BY <3>2
      <4> QED BY <3>2, <4>1, <4>2 DEF Set!Grantable
    <3>6. Current \notin Done(row) => ~Set!Grantable
        BY <3>2, <3>3, <3>4 DEF LoopInv, Set!Grantable
    <3>7. Set!Refuse
        BY <3>1, <3>5, <3>6 DEF Set!Refuse
    <3> QED BY <3>7 DEF Set!SetNext
  <2>7. CASE UNCHANGED vars
      BY <2>7 DEF vars
  <2> QED BY <2>1, <2>2, <2>3, <2>4, <2>5, <2>6, <2>7 DEF Next
<1> QED BY <1>1, <1>2, Invariance, PTL DEF Spec, ImplementsAddressSet, Set!SetSpec

=============================================================================
