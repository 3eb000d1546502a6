----------------------------- MODULE AddressSet -----------------------------
(***************************************************************************)
(* What a blocklist promises: a set of addresses.  A call adds an address  *)
(* that is not in it or removes one that is.  A batch call asks for the    *)
(* addition or the removal of several; it is granted as a whole if it      *)
(* names no address twice and every single addition or removal would be    *)
(* possible, and refused without effect otherwise.                         *)
(***************************************************************************)
EXTENDS Naturals, Sequences

CONSTANT Addresses

VARIABLES
    members,
    request,    \* the addresses of the batch call in progress, or <<>>
    removal     \* TRUE if it is to remove them

setVars == <<members, request, removal>>

Requested == {request[i] : i \in 1..Len(request)}

Grantable ==
    /\ \A i, j \in 1..Len(request) : request[i] = request[j] => i = j
    /\ IF removal THEN Requested \subseteq members ELSE Requested \cap members = {}

Add(a) ==
    /\ request = <<>>
    /\ a \notin members
    /\ members' = members \cup {a}
    /\ UNCHANGED <<request, removal>>

Remove(a) ==
    /\ request = <<>>
    /\ a \in members
    /\ members' = members \ {a}
    /\ UNCHANGED <<request, removal>>

Ask ==
    /\ request = <<>>
    /\ request' \in Seq(Addresses)
    /\ removal' \in BOOLEAN
    /\ UNCHANGED members

Grant ==
    /\ request # <<>> /\ Grantable
    /\ members' = IF removal THEN members \ Requested ELSE members \cup Requested
    /\ request' = <<>>
    /\ UNCHANGED removal

Refuse ==
    /\ request # <<>> /\ ~Grantable
    /\ request' = <<>>
    /\ UNCHANGED <<members, removal>>

SetNext == (\E a \in Addresses : Add(a) \/ Remove(a)) \/ Ask \/ Grant \/ Refuse

SetSpec == members = {} /\ request = <<>> /\ removal = FALSE /\ [][SetNext]_setVars

=============================================================================
