------------------------------ MODULE Blocklist ------------------------------
(***************************************************************************)
(* The contract Blocklist.sol: an array of addresses and, for every        *)
(* address, the row it was last written to.  Rows are deleted by moving    *)
(* the last row into the hole; the index of the deleted address is left as *)
(* it was, and an address that was never added has index 0.                *)
(*                                                                         *)
(* A call runs alone and a failing call leaves no trace: while the loop of *)
(* a batch call runs, "batch" holds its accounts, "row" counts the turns   *)
(* done, and "saved" is the storage a failure goes back to.                *)
(***************************************************************************)
EXTENDS Integers, Sequences

CONSTANTS
    Addresses,
    Owner,       \* the owner of the contract
    Callers,     \* addresses that call it
    MaxBatch     \* bound: accounts of one batch call

ASSUME BlocklistAssumption == MaxBatch \in Nat

VARIABLES
    userList,    \* _userList: row i of the array is userList[i + 1]
    userIndex,   \* _userIndex
    batch,       \* accounts of the batch call in progress, or <<>>
    row,         \* how many of them its loop has processed
    removing,    \* TRUE in batchRemoveFromBlocklist, FALSE in batchAddToBlocklist
    saved        \* storage at the start of the current batch call

vars == <<userList, userIndex, batch, row, removing, saved>>

\* Mutant: the address in the row is not compared with the account, although
\* index 0 is also the index of every address that was never added.
isBlocklistedByIndex(account) ==
    /\ userList # <<>>
    /\ userIndex[account] < Len(userList)

isBlocklisted(account) ==
    /\ userList # <<>>
    /\ userIndex[account] < Len(userList)
    /\ userList[userIndex[account] + 1] = account

addRow(account) ==
    /\ ~isBlocklisted(account)
    /\ userIndex' = [userIndex EXCEPT ![account] = Len(userList)]
    /\ userList' = Append(userList, account)

Front(s) == [i \in 1..(Len(s) - 1) |-> s[i]]

removeRow(account) ==
    LET rowToDelete == userIndex[account]
        keyToMove   == userList[Len(userList)]
    IN  /\ isBlocklisted(account)
        /\ userList' = Front([userList EXCEPT ![rowToDelete + 1] = keyToMove])
        /\ userIndex' = [userIndex EXCEPT ![keyToMove] = rowToDelete]

Idle == batch = <<>>

addToBlocklist(caller, account) ==
    /\ Idle
    /\ caller = Owner
    /\ addRow(account)
    /\ saved' = <<userList', userIndex'>>
    /\ UNCHANGED <<batch, row, removing>>

removeFromBlocklist(caller, account) ==
    /\ Idle
    /\ caller = Owner
    /\ removeRow(account)
    /\ saved' = <<userList', userIndex'>>
    /\ UNCHANGED <<batch, row, removing>>

\* batchAddToBlocklist and batchRemoveFromBlocklist: the call, the turns of
\* its loop, and the turn that fails and reverts the call.
StartBatch(caller, accounts, isRemoval) ==
    /\ Idle
    /\ caller = Owner
    /\ batch' = accounts
    /\ row' = 0
    /\ removing' = isRemoval
    /\ UNCHANGED <<userList, userIndex, saved>>

\* accounts[i] of the loop.
Current == batch[row + 1]

BatchRow ==
    /\ ~Idle
    /\ IF removing THEN removeRow(Current) ELSE addRow(Current)
    /\ row' = row + 1
    /\ IF row + 1 < Len(batch) THEN UNCHANGED <<batch, saved>>
       ELSE batch' = <<>> /\ saved' = <<userList', userIndex'>>
    /\ UNCHANGED removing

\* Mutant: the rows of a failing batch stay.
BatchFailsHalfway ==
    /\ ~Idle
    /\ removing = ~isBlocklisted(Current)
    /\ batch' = <<>>
    /\ saved' = <<userList, userIndex>>
    /\ UNCHANGED <<userList, userIndex, row, removing>>

BatchReverts ==
    /\ ~Idle
    /\ removing = ~isBlocklisted(Current)
    /\ userList' = saved[1]
    /\ userIndex' = saved[2]
    /\ batch' = <<>>
    /\ UNCHANGED <<row, removing, saved>>

Init ==
    /\ userList = <<>>
    /\ userIndex = [a \in Addresses |-> 0]
    /\ batch = <<>>
    /\ row = 0
    /\ removing = FALSE
    /\ saved = <<userList, userIndex>>

Batches == UNION {[1..n -> Addresses] : n \in 1..MaxBatch}

Next ==
    \/ \E c \in Callers, a \in Addresses : addToBlocklist(c, a) \/ removeFromBlocklist(c, a)
    \/ \E c \in Callers, b \in Batches, r \in BOOLEAN : StartBatch(c, b, r)
    \/ BatchRow
    \/ BatchReverts

Spec == Init /\ [][Next]_vars

-----------------------------------------------------------------------------
(* Properties.                                                             *)

Listed(list) == {list[i] : i \in 1..Len(list)}

\* The storage of the contract, during and between calls.
TypeOK ==
    /\ userList \in Seq(Addresses)
    /\ userIndex \in [Addresses -> Nat]
    /\ batch \in Seq(Addresses)
    /\ row \in Nat
    /\ removing \in BOOLEAN
    /\ saved \in Seq(Addresses) \X [Addresses -> Nat]

\* Every row knows its own place: no address has two rows and the index of a
\* listed address points at its row, after any number of additions, deletions
\* of first, middle and last rows, and re-additions.
RowsIndexed(list, index) == \A i \in 1..Len(list) : index[list[i]] = i - 1

IndexInv == RowsIndexed(userList, userIndex)

\* The query that BridgeBank makes is right for every address: isBlocklisted
\* holds of exactly the listed addresses, whatever stale index an address has
\* that was removed, or that was never added.
QueryExact == \A a \in Addresses : isBlocklisted(a) <=> a \in Listed(userList)

\* The contract implements a set of addresses with atomic batch calls: a batch
\* whose loop succeeds has added or removed all of its accounts, and one whose
\* loop fails, at whatever turn, has changed nothing and had a reason to fail
\* before it began: an account named twice, already listed or not listed.
Set == INSTANCE AddressSet WITH
    members <- Listed(saved[1]), request <- batch, removal <- removing

ImplementsAddressSet == Set!SetSpec

=============================================================================
