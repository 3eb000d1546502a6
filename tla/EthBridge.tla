------------------------------ MODULE EthBridge ------------------------------
(***************************************************************************)
(* The chain's side of the bridge (x/ethbridge) on top of the oracle       *)
(* (module Oracle) and of the bank: validators' claims mint coins, users'  *)
(* Lock and Burn messages destroy coins and emit the events that relayers  *)
(* carry to Ethereum, administrators pause, blacklist and collect fees.    *)
(*                                                                         *)
(* A message that returns an error, or panics, is rolled back with its     *)
(* whole transaction, so an action only describes the messages that pass.  *)
(* A transaction may carry several messages of one sender; the sender's    *)
(* sequence number grows once, when the transaction is admitted.           *)
(***************************************************************************)
EXTENDS Oracle

CONSTANTS
    Denoms,           \* coin denominations on the chain
    Ceth,             \* the denomination fees are paid in
    Pegged,           \* [Ethereum symbols -> Denoms]: the symbol prefixed by "c"
    EthAddresses,     \* receivers on Ethereum
    Amounts,          \* amounts of Lock and Burn messages
    Fees,             \* cethAmount of Lock and Burn, at least the gas cost
    BridgeAdmin,      \* the account with the ETHBRIDGE admin role
    BurnSymbols,      \* symbols MsgBurn accepts: "c" and two characters or more
    BlockedAccounts,  \* accounts that may not receive coins (module accounts)
    NoAccount,
    ModuleAccount,    \* the ethbridge module account
    GenesisBalances,  \* [Accounts \cup {ModuleAccount} -> [Denoms -> Nat]]
    GenesisPeggyTokens,
    MaxSequence,      \* bound: transactions sent by one account
    MaxEvents         \* bound: events emitted to Ethereum

VARIABLES
    balances,        \* bank: coins of every account
    peggyTokens,     \* denominations that stand for Ethereum tokens
    paused,
    blacklist,       \* Ethereum addresses that may not receive
    cethReceiver,    \* the account fees go to, or NoAccount
    sequence,        \* transactions sent by each account
    txSender,        \* the sender of the transaction being executed
    events           \* events for the relayers, in the order of the blocks

adminVars == <<paused, blacklist, cethReceiver>>
txVars == <<sequence, txSender>>
vars == <<oracleVars, adminVars, txVars, balances, peggyTokens, events>>

Holders == Accounts \cup {ModuleAccount}

\* A content of the oracle is a record of this shape.
IsContent(c) ==
    /\ c.type \in {"LOCK", "BURN", "UNSPECIFIED"}
    /\ c.receiver \in Accounts
    /\ c.amount \in Nat
    /\ c.type = "LOCK" => c.symbol \in DOMAIN Pegged
    /\ c.type = "BURN" => c.symbol \in Denoms

ASSUME BridgeAssumption ==
    /\ IsFiniteSet(Accounts)
    /\ \A c \in Contents : IsContent(c)
    /\ Pegged \in [DOMAIN Pegged -> Denoms]
    /\ Ceth \in Denoms
    /\ Amounts \subseteq Nat \ {0}
    /\ Fees \subseteq Nat \ {0}
    /\ BridgeAdmin \in Accounts
    /\ BurnSymbols \subseteq Denoms
    /\ BlockedAccounts \subseteq Accounts
    /\ NoAccount \notin Accounts \cup {ModuleAccount}
    /\ ModuleAccount \notin Accounts
    /\ GenesisBalances \in [Holders -> [Denoms -> Nat]]
    /\ GenesisPeggyTokens \subseteq Denoms

-----------------------------------------------------------------------------
(* The bank, as the bridge uses it.                                        *)

Coin(denom, amount) == [d \in Denoms |-> IF d = denom THEN amount ELSE 0]

Plus(coins, more) == [d \in Denoms |-> coins[d] + more[d]]

Minus(coins, less) == [d \in Denoms |-> coins[d] - less[d]]

Covers(bank, holder, coins) == \A d \in Denoms : bank[holder][d] >= coins[d]

AddCoins(bank, holder, coins) == [bank EXCEPT ![holder] = Plus(@, coins)]

SubCoins(bank, holder, coins) == [bank EXCEPT ![holder] = Minus(@, coins)]

SendCoins(bank, from, to, coins) == AddCoins(SubCoins(bank, from, coins), to, coins)

-----------------------------------------------------------------------------
(* Transactions.                                                           *)

\* The ante handler increments the sender's sequence number before the first
\* message of the transaction runs.
BeginTx(sender) ==
    /\ sequence[sender] < MaxSequence
    /\ sequence' = [sequence EXCEPT ![sender] = @ + 1]
    /\ txSender' = sender
    /\ UNCHANGED <<oracleVars, adminVars, balances, peggyTokens, events>>

Emit(type, sender, receiver, symbol, amount) ==
    /\ Len(events) < MaxEvents
    /\ events' = Append(events,
          [type |-> type, sender |-> sender, sequence |-> sequence[sender],
           receiver |-> receiver, symbol |-> symbol, amount |-> amount])

-----------------------------------------------------------------------------
(* Coins leave for Ethereum.                                               *)

\* The fee goes to the ceth receiver if there is one, and otherwise to the
\* module account together with the coins, which are then burned there.
Export(sender, symbol, amount, fee) ==
    LET direct   == cethReceiver # NoAccount
        afterFee == IF direct THEN SendCoins(balances, sender, cethReceiver, Coin(Ceth, fee))
                    ELSE balances
        coins    == IF direct THEN Coin(symbol, amount)
                    ELSE Plus(Coin(symbol, amount), Coin(Ceth, fee))
    IN  /\ direct => Covers(balances, sender, Coin(Ceth, fee))
        /\ Covers(afterFee, sender, coins)
        /\ balances' = SubCoins(SendCoins(afterFee, sender, ModuleAccount, coins),
                                ModuleAccount, Coin(symbol, amount))

\* Without a ceth receiver a Lock of ceth lists ceth twice, which NewCoins
\* answers with a panic.
ProcessLock(sender, receiver, symbol, amount, fee) ==
    /\ receiver \notin blacklist
    /\ cethReceiver = NoAccount => symbol # Ceth
    /\ Export(sender, symbol, amount, fee)

\* Mutant: a burn of ceth without a ceth receiver hands over the amount and
\* forgets the fee.
ProcessBurnWithoutFee(sender, receiver, symbol, amount, fee) ==
    /\ receiver \notin blacklist
    /\ IF cethReceiver = NoAccount /\ symbol = Ceth
       THEN /\ Covers(balances, sender, Coin(Ceth, fee))
            /\ balances' = SubCoins(SendCoins(balances, sender, ModuleAccount, Coin(Ceth, fee)),
                                    ModuleAccount, Coin(symbol, amount))
       ELSE Export(sender, symbol, amount, fee)

ProcessBurn(sender, receiver, symbol, amount, fee) ==
    /\ receiver \notin blacklist
    /\ Export(sender, symbol, amount, fee)

Lock(sender, receiver, symbol, amount, fee) ==
    /\ txSender = sender
    /\ ~paused
    /\ symbol \notin peggyTokens
    /\ ProcessLock(sender, receiver, symbol, amount, fee)
    /\ Emit("LOCK", sender, receiver, symbol, amount)
    /\ UNCHANGED <<oracleVars, adminVars, txVars, peggyTokens>>

Burn(sender, receiver, symbol, amount, fee) ==
    /\ txSender = sender
    /\ ~paused
    /\ symbol \in BurnSymbols
    /\ symbol \in peggyTokens
    /\ ProcessBurn(sender, receiver, symbol, amount, fee)
    /\ Emit("BURN", sender, receiver, symbol, amount)
    /\ UNCHANGED <<oracleVars, adminVars, txVars, peggyTokens>>

-----------------------------------------------------------------------------
(* Coins arrive from Ethereum.                                             *)

\* The coin a content stands for: LOCK mints the pegged denomination, BURN
\* mints back the denomination itself.
ClaimDenom(c) == IF c.type = "LOCK" THEN Pegged[c.symbol] ELSE c.symbol

\* Any other claim type is an error, a blocked receiver a panic.
ProcessSuccessfulClaim(c) ==
    /\ c.type \in {"LOCK", "BURN"}
    /\ c.receiver \notin BlockedAccounts
    /\ balances' = AddCoins(balances, c.receiver, Coin(ClaimDenom(c), c.amount))
    /\ peggyTokens' = IF c.type = "LOCK" THEN peggyTokens \cup {ClaimDenom(c)}
                      ELSE peggyTokens

\* Mutant: the coins of the claim in the message are minted, not those of the
\* final claim.
CreateEthBridgeClaimOfMessage(v, id, c) ==
    /\ ProcessClaim(v, id, c)
    /\ IF prophecies'[id].status = "SUCCESS"
       THEN ProcessSuccessfulClaim(c)
       ELSE UNCHANGED <<balances, peggyTokens>>
    /\ txSender' = NoAccount
    /\ UNCHANGED <<adminVars, sequence, events>>

CreateEthBridgeClaim(v, id, c) ==
    /\ ProcessClaim(v, id, c)
    /\ IF prophecies'[id].status = "SUCCESS"
       THEN ProcessSuccessfulClaim(prophecies'[id].finalClaim)
       ELSE UNCHANGED <<balances, peggyTokens>>
    /\ txSender' = NoAccount
    /\ UNCHANGED <<adminVars, sequence, events>>

-----------------------------------------------------------------------------
(* Administration.                                                         *)

UpdateWhiteListValidator(sender, v, operation) ==
    /\ ProcessUpdateWhiteListValidator(sender, v, operation)
    /\ UNCHANGED <<adminVars, txVars, balances, peggyTokens, events>>

SetPause(sender, isPaused) ==
    /\ sender = BridgeAdmin
    /\ paused' = isPaused
    /\ UNCHANGED <<oracleVars, txVars, blacklist, cethReceiver, balances, peggyTokens, events>>

SetBlacklist(sender, addresses) ==
    /\ sender = BridgeAdmin
    /\ blacklist' = addresses
    /\ UNCHANGED <<oracleVars, txVars, paused, cethReceiver, balances, peggyTokens, events>>

UpdateCethReceiverAccount(sender, account) ==
    /\ sender = AdminAccount
    /\ cethReceiver' = account
    /\ UNCHANGED <<oracleVars, txVars, paused, blacklist, balances, peggyTokens, events>>

RescueCeth(sender, receiver, amount) ==
    /\ sender = AdminAccount
    /\ receiver \notin BlockedAccounts
    /\ Covers(balances, ModuleAccount, Coin(Ceth, amount))
    /\ balances' = SendCoins(balances, ModuleAccount, receiver, Coin(Ceth, amount))
    /\ UNCHANGED <<oracleVars, adminVars, txVars, peggyTokens, events>>

\* Mutant: the restarted chain has forgotten the peggy tokens.
ExportImportForgetful ==
    /\ paused' = FALSE
    /\ blacklist' = {}
    /\ txSender' = NoAccount
    /\ peggyTokens' = {}
    /\ UNCHANGED <<oracleVars, cethReceiver, sequence, balances, events>>

\* The chain is exported and started again from its genesis file, which holds
\* the peggy tokens and the ceth receiver, but neither the pause nor the
\* blacklist.
ExportImportGenesis ==
    /\ paused' = FALSE
    /\ blacklist' = {}
    /\ txSender' = NoAccount
    /\ UNCHANGED <<oracleVars, cethReceiver, sequence, balances, peggyTokens, events>>

ValidatorUpdate(v, isBonded, newPower) ==
    /\ StakingUpdate(v, isBonded, newPower)
    /\ UNCHANGED <<adminVars, txVars, balances, peggyTokens, events>>

-----------------------------------------------------------------------------

Init ==
    /\ OracleInit
    /\ balances = GenesisBalances
    /\ peggyTokens = GenesisPeggyTokens
    /\ paused = FALSE
    /\ blacklist = {}
    /\ cethReceiver = NoAccount
    /\ sequence = [a \in Accounts |-> 0]
    /\ txSender = NoAccount
    /\ events = <<>>

Exports ==
    \/ \E a \in Accounts \ BlockedAccounts : BeginTx(a)
    \/ \E a \in Accounts, to \in EthAddresses, d \in Denoms, n \in Amounts, fee \in Fees :
          \/ Lock(a, to, d, n, fee)
          \/ Burn(a, to, d, n, fee)

Claims ==
    \E v \in Validators, id \in Ids, c \in Contents : CreateEthBridgeClaim(v, id, c)

Administration ==
    \/ \E a \in Accounts, b \in BOOLEAN : SetPause(a, b)
    \/ \E a \in Accounts, addresses \in SUBSET EthAddresses : SetBlacklist(a, addresses)
    \/ \E a \in Accounts, account \in Holders : UpdateCethReceiverAccount(a, account)
    \/ \E a, to \in Accounts, n \in Amounts : RescueCeth(a, to, n)
    \/ ExportImportGenesis

ValidatorChanges ==
    \/ \E a \in Accounts, v \in Validators, operation \in {"add", "remove"} :
          UpdateWhiteListValidator(a, v, operation)
    \/ \E v \in Validators, isBonded \in BOOLEAN, newPower \in 0..MaxPower :
          ValidatorUpdate(v, isBonded, newPower)

Next == Exports \/ Claims \/ Administration \/ ValidatorChanges

Spec == Init /\ [][Next]_vars

-----------------------------------------------------------------------------
(* Properties.                                                             *)

SupplyOf(bank) == [d \in Denoms |-> SumFunction([h \in Holders |-> bank[h][d]])]

Ledger == INSTANCE BridgeLedger WITH
    Supply0   <- SupplyOf(GenesisBalances),
    DenomOf   <- ClaimDenom,
    supply    <- SupplyOf(balances),
    redeemed  <- [id \in Ids |-> IF prophecies[id].status = "SUCCESS"
                                 THEN prophecies[id].finalClaim ELSE NoClaim],
    announced <- events

\* The bridge implements the ledger: a prophecy is paid once, when it succeeds,
\* in the coins of its final claim (CreateEthBridgeClaim), a Lock or Burn
\* destroys what its event announces, and neither fees, rescues, administration,
\* staking changes nor a restart from genesis create or destroy coins.
ImplementsLedger == Ledger!LedgerSpec

\* Fees are kept: while there is no ceth receiver every export leaves its fee in
\* the module account, also an export of ceth, whose amount passes through the
\* same account to be burned; ceth leaves the account only by RescueCeth; and no
\* other coin stays there.
FeesKept ==
    [][ /\ events' # events /\ cethReceiver = NoAccount
              => balances'[ModuleAccount][Ceth] - balances[ModuleAccount][Ceth] \in Fees
        /\ balances'[ModuleAccount][Ceth] < balances[ModuleAccount][Ceth]
              => \E to \in Accounts, n \in Amounts : RescueCeth(AdminAccount, to, n)
        /\ \A d \in Denoms \ {Ceth} : balances'[ModuleAccount][d] = balances[ModuleAccount][d]
      ]_vars

\* A pegged coin leaves the chain by Burn, which releases it on Ethereum, and
\* never by Lock, which would mint a second representation of it there: once a
\* denomination has been burned it is not locked, also after a restart.
NoLockAfterBurn ==
    \A i, j \in 1..Len(events) :
        i < j /\ events[i].symbol = events[j].symbol
              /\ events[i].type = "BURN" => events[j].type = "BURN"

=============================================================================
