---------------------------- MODULE IbcTransfer ----------------------------
(***************************************************************************)
(* x/ibctransfer on one channel: transfers out under the permissions of the*)
(* registry, and packets in, which are converted to the unit denomination  *)
(* of their token.  The transfer module of ibc-go and the chain at the     *)
(* other end are modelled from how they are used: every packet is received *)
(* once or refunded, and a receipt that is answered with an error leaves   *)
(* nothing behind.                                                         *)
(*                                                                         *)
(* Local denominations are escrowed when they leave; the others are minted *)
(* when they come and burned when they leave.  An alias is a local         *)
(* denomination of fewer decimals, of which amounts are still abroad from  *)
(* the time exports were converted; its unit denomination is in escrow for *)
(* them.  The holders of a chain are one account here.                     *)
(***************************************************************************)
EXTENDS Registry, FiniteSetsExt

CONSTANTS
    Local, Foreign,    \* denominations by origin
    Unit,              \* alias -> its unit denomination, both local
    Decimals,          \* of each denomination
    Amounts,           \* amounts of a denomination in one packet
    GenesisBalance,    \* at home, by denomination
    GenesisAbroad,
    MaxSteps           \* bound on messages and receipts

VARIABLES
    balances,   \* held at home
    escrow,     \* at home, for the channel
    abroad,     \* held at the other end
    outgoing, incoming,    \* number of packets under way by denomination and amount
    steps

Denoms == Local \cup Foreign

\* Kinds of packets.
Packets == {<<d, n>> \in Denoms \X UNION {Amounts[d] : d \in Denoms} : n \in Amounts[d]}

ASSUME IbcAssumption ==
    /\ \A a \in DOMAIN Unit : a \in Local /\ Unit[a] \in Local /\ Decimals[a] < Decimals[Unit[a]]
    /\ \A e \in Entries : /\ e.decimals = Decimals[e.denom]
                          /\ e.unitDenom \notin {"", e.denom} => e.unitDenom = Unit[e.denom]

tokenVars == <<balances, escrow, abroad, outgoing, incoming>>
vars == <<registryVars, tokenVars, steps>>

Scale(a) == 10^(Decimals[Unit[a]] - Decimals[a])

-----------------------------------------------------------------------------
(* Out.                                                                    *)

Transfer(d, n) ==
    /\ HasEntry(registry, d)
    /\ GetEntry(registry, d).unitDenom \in {"", d}
    /\ CheckEntryPermissions(GetEntry(registry, d), {"IBCEXPORT"})
    /\ balances[d] >= n
    /\ balances' = [balances EXCEPT ![d] = @ - n]
    /\ escrow' = IF d \in Local THEN [escrow EXCEPT ![d] = @ + n] ELSE escrow
    /\ outgoing' = [outgoing EXCEPT ![<<d, n>>] = @ + 1]
    /\ UNCHANGED <<abroad, incoming>>

\* The packet is received at the other end.
Acknowledged(d, n) ==
    /\ outgoing[<<d, n>>] > 0
    /\ outgoing' = [outgoing EXCEPT ![<<d, n>>] = @ - 1]
    /\ abroad' = [abroad EXCEPT ![d] = @ + n]
    /\ UNCHANGED <<balances, escrow, incoming>>

\* The packet times out or is answered with an error; the refund ignores the registry.
Refund(d, n) ==
    /\ outgoing[<<d, n>>] > 0
    /\ d \in Local => escrow[d] >= n
    /\ outgoing' = [outgoing EXCEPT ![<<d, n>>] = @ - 1]
    /\ escrow' = IF d \in Local THEN [escrow EXCEPT ![d] = @ - n] ELSE escrow
    /\ balances' = [balances EXCEPT ![d] = @ + n]
    /\ UNCHANGED <<abroad, incoming>>

-----------------------------------------------------------------------------
(* In.                                                                     *)

SentBack(d, n) ==
    /\ abroad[d] >= n
    /\ abroad' = [abroad EXCEPT ![d] = @ - n]
    /\ incoming' = [incoming EXCEPT ![<<d, n>>] = @ + 1]
    /\ UNCHANGED <<balances, escrow, outgoing>>

IsRecvPacketAllowed(d) ==
    /\ HasEntry(registry, d)
    /\ d \in Local \/ CheckEntryPermissions(GetEntry(registry, d), {"IBCIMPORT"})

\* Whether the entry names a unit denomination that is registered, of more decimals.
Converts(d) ==
    LET entry == GetEntry(registry, d)
        unit == GetEntry(registry, entry.unitDenom)
    IN  /\ HasEntry(registry, entry.unitDenom)
        /\ entry.decimals > 0 /\ unit.decimals > entry.decimals

ConvertIncomingCoins(d, n) == n * Scale(d)

\* Mutant: the coins that came are not burned.
ExecConvForIncomingCoinsUnburned(d, n) ==
    LET converted == ConvertIncomingCoins(d, n)
    IN  /\ escrow[Unit[d]] >= converted
        /\ escrow' = [escrow EXCEPT ![d] = @ - n, ![Unit[d]] = @ - converted]
        /\ balances' = [balances EXCEPT ![d] = @ + n, ![Unit[d]] = @ + converted]

\* The coins just received are burned and their unit denomination leaves escrow.
ExecConvForIncomingCoins(d, n) ==
    LET converted == ConvertIncomingCoins(d, n)
    IN  /\ escrow[Unit[d]] >= converted
        /\ escrow' = [escrow EXCEPT ![d] = @ - n, ![Unit[d]] = @ - converted]
        /\ balances' = [balances EXCEPT ![Unit[d]] = @ + converted]

\* OnRecvPacketWhitelistConvert with a result as acknowledgement.
OnRecvPacket(d, n) ==
    /\ incoming[<<d, n>>] > 0
    /\ IsRecvPacketAllowed(d)
    /\ d \in Local => escrow[d] >= n
    /\ incoming' = [incoming EXCEPT ![<<d, n>>] = @ - 1]
    /\ IF Converts(d) THEN ExecConvForIncomingCoins(d, n)
       ELSE /\ balances' = [balances EXCEPT ![d] = @ + n]
            /\ escrow' = IF d \in Local THEN [escrow EXCEPT ![d] = @ - n] ELSE escrow
    /\ UNCHANGED <<abroad, outgoing>>

\* With an error, or when the packet times out: the other end refunds.
RecvPacketFails(d, n) ==
    /\ incoming[<<d, n>>] > 0
    /\ incoming' = [incoming EXCEPT ![<<d, n>>] = @ - 1]
    /\ abroad' = [abroad EXCEPT ![d] = @ + n]
    /\ UNCHANGED <<balances, escrow, outgoing>>

-----------------------------------------------------------------------------
UnitsFor(d) == {a \in DOMAIN Unit : Unit[a] = d}

Init ==
    /\ RegistryInit
    /\ balances = GenesisBalance
    /\ abroad = GenesisAbroad
    /\ escrow = [d \in Local |-> GenesisAbroad[d]
                                 + MapThenSumSet(LAMBDA a : GenesisAbroad[a] * Scale(a), UnitsFor(d))]
    /\ outgoing = [p \in Packets |-> 0]
    /\ incoming = [p \in Packets |-> 0]
    /\ steps = 0

TokenStep ==
    /\ \E p \in Packets : \/ Transfer(p[1], p[2]) \/ Acknowledged(p[1], p[2]) \/ Refund(p[1], p[2])
                          \/ SentBack(p[1], p[2]) \/ OnRecvPacket(p[1], p[2])
                          \/ RecvPacketFails(p[1], p[2])
    /\ UNCHANGED registryVars

Next ==
    /\ steps < MaxSteps /\ steps' = steps + 1
    /\ \/ TokenStep
       \/ RegistryNext /\ UNCHANGED tokenVars

Spec == Init /\ [][Next]_vars

-----------------------------------------------------------------------------
(* Properties.                                                             *)

Carried(packets, d) == MapThenSumSet(LAMBDA n : packets[<<d, n>>] * n, Amounts[d])

\* What is owed to holders abroad and to packets under way.
Owed(d) == abroad[d] + Carried(outgoing, d) + Carried(incoming, d)

\* Every local coin abroad or under way is in escrow, and with it the unit
\* denomination of every alias that exists, whatever was exported, refunded,
\* converted or received unconverted while the registry changed (Transfer,
\* OnRecvPacketWhitelistConvert, ExecConvForIncomingCoins).  So a packet that comes
\* back never meets an escrow too small for it ("unable to unescrow original tokens").
\* Foreign coins are neither created nor lost by minting and burning vouchers.
VouchersBacked ==
    /\ \A d \in Local :
          escrow[d] = Owed(d) + MapThenSumSet(LAMBDA a : (balances[a] + escrow[a]) * Scale(a), UnitsFor(d))
    /\ \A d \in Foreign : balances[d] + Owed(d) = GenesisBalance[d] + GenesisAbroad[d]
=============================================================================
