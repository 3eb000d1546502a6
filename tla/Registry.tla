------------------------------ MODULE Registry ------------------------------
(***************************************************************************)
(* x/admin, which accounts have which role, and x/tokenregistry, the list  *)
(* of denominations with their decimals, aliases and permissions.          *)
(***************************************************************************)
EXTENDS Integers, Sequences, SequencesExt

CONSTANTS
    Addresses,
    GenesisAdmins,    \* <<type, address>> pairs
    Entries,          \* entries that may be registered
    Registries,       \* lists of entries SetRegistry may be given
    GenesisRegistry,
    ProposalFees      \* values of the parameter of x/admin

VARIABLES adminAccounts, submitProposalFee, registry

registryVars == <<adminAccounts, submitProposalFee, registry>>

AdminTypes == {"ADMIN", "TOKENREGISTRY"}

ASSUME RegistryAssumption ==
    /\ GenesisAdmins \subseteq AdminTypes \X Addresses
    /\ Registries \cup {GenesisRegistry} \subseteq Seq(Entries)

IsAdminAccount(type, address) == <<type, address>> \in adminAccounts

AddAccount(signer, type, address) ==
    /\ IsAdminAccount("ADMIN", signer)
    /\ adminAccounts' = adminAccounts \cup {<<type, address>>}
    /\ UNCHANGED <<submitProposalFee, registry>>

RemoveAccount(signer, type, address) ==
    /\ IsAdminAccount("ADMIN", signer)
    /\ adminAccounts' = adminAccounts \ {<<type, address>>}
    /\ UNCHANGED <<submitProposalFee, registry>>

SetParams(signer, fee) ==
    /\ IsAdminAccount("ADMIN", signer)
    /\ submitProposalFee' = fee
    /\ UNCHANGED <<adminAccounts, registry>>

-----------------------------------------------------------------------------
Positions(r, denom) == {i \in DOMAIN r : r[i].denom = denom}
First(indices) == CHOOSE i \in indices : \A j \in indices : i <= j

HasEntry(r, denom) == Positions(r, denom) # {}

\* The first entry of the denomination; SetRegistry may list it twice.
GetEntry(r, denom) == r[First(Positions(r, denom))]

CheckEntryPermissions(entry, required) == required \subseteq entry.permissions

SetToken(r, entry) ==
    IF HasEntry(r, entry.denom)
    THEN [r EXCEPT ![First(Positions(r, entry.denom))] = entry]
    ELSE Append(r, entry)

RemoveToken(r, denom) == SelectSeq(r, LAMBDA e : e.denom # denom)

SetRegistry(signer, r) ==
    /\ IsAdminAccount("TOKENREGISTRY", signer)
    /\ registry' = r
    /\ UNCHANGED <<adminAccounts, submitProposalFee>>

Register(signer, entry) ==
    /\ IsAdminAccount("TOKENREGISTRY", signer)
    /\ registry' = SetToken(registry, entry)
    /\ UNCHANGED <<adminAccounts, submitProposalFee>>

Deregister(signer, denom) ==
    /\ IsAdminAccount("TOKENREGISTRY", signer)
    /\ registry' = RemoveToken(registry, denom)
    /\ UNCHANGED <<adminAccounts, submitProposalFee>>

RegistryInit ==
    /\ adminAccounts = GenesisAdmins
    /\ submitProposalFee \in ProposalFees
    /\ registry = GenesisRegistry

RegistryNext ==
    \E signer \in Addresses :
        \/ \E type \in AdminTypes, address \in Addresses :
              AddAccount(signer, type, address) \/ RemoveAccount(signer, type, address)
        \/ \E fee \in ProposalFees : SetParams(signer, fee)
        \/ \E r \in Registries : SetRegistry(signer, r)
        \/ \E entry \in Entries : Register(signer, entry) \/ Deregister(signer, entry.denom)
=============================================================================
