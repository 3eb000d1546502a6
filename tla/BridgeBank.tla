----------------------------- MODULE BridgeBank -----------------------------
(***************************************************************************)
(* The contract that holds the money on Ethereum (BridgeBank.sol and the   *)
(* contracts it inherits: EthereumBank, CosmosBank, the two whitelists,    *)
(* Pausable and PauserRole).  Users lock Ethereum tokens and burn bridge   *)
(* tokens; the CosmosBridge contract unlocks the former and mints the      *)
(* latter.  A call that fails a require leaves no trace.  Holders also move *)
(* and burn their tokens without the bank: tokens are ERC20 contracts that *)
(* move the amount they are asked to.                                      *)
(*                                                                         *)
(* Address 0 stands for Ether as a token, and is also what a mapping       *)
(* returns for a symbol it has no entry for: both are Ether here.          *)
(***************************************************************************)
EXTENDS Integers, Sequences, FiniteSets, FiniteSetsExt, Functions

CONSTANTS
    Tokens,          \* token contracts, and Ether
    Ether,
    Symbols,         \* token symbols, as spelled
    TokenSymbol,     \* [Tokens -> Symbols]
    Lower,           \* [Symbols -> Symbols]: toLower
    NoSymbol,        \* the empty string
    EthSymbol,       \* "eth"
    BridgeTokenOf,   \* [Symbols -> Tokens]: the contract deployed for a symbol
    BankMints,       \* tokens that let the bank mint
    Users, Bank,     \* holders of tokens
    StartFunds,      \* [Tokens -> [Users \cup {Bank} -> Nat]]
    Recipients,      \* recipients on the chain: records [prefix, length]
    Admins,          \* callers of administrative functions
    LockAmounts,     \* amounts of lock and burn
    MaxNonce,        \* bound: deposits
    MaxLog           \* bound: events, deposits included

VARIABLES
    funds,                   \* balances of all token contracts
    lockedTokenList,         \* [Symbols -> Tokens]
    controlledBridgeTokens,  \* [Symbols -> Tokens]
    lowerToUpperTokens,      \* [Symbols -> Symbols \cup {NoSymbol}]
    ethWhiteList, cosmosWhiteList,
    lockBurnNonce,
    log,                     \* LogLock, LogBurn, LogUnlock, LogBridgeTokenMint
    bankPaused, pausers,
    hasBlocklist, blocklist, \* blocklist: the set Blocklist implements
    bankOperator, bankOwner

tokenVars == <<lockedTokenList, controlledBridgeTokens, lowerToUpperTokens,
               ethWhiteList, cosmosWhiteList>>
pauseVars == <<bankPaused, pausers>>
blockVars == <<hasBlocklist, blocklist>>
roleVars == <<bankOperator, bankOwner>>
moneyVars == <<funds, lockBurnNonce, log>>
bankVars == <<tokenVars, pauseVars, blockVars, roleVars, moneyVars>>

ASSUME BankAssumption ==
    /\ Ether \in Tokens
    /\ IsFiniteSet(Users) /\ Bank \notin Users
    /\ TokenSymbol \in [Tokens -> Symbols] /\ TokenSymbol[Ether] = EthSymbol
    /\ Lower \in [Symbols -> Symbols]
    /\ \A s \in Symbols : Lower[Lower[s]] = Lower[s]
    /\ Lower[EthSymbol] = EthSymbol
    /\ NoSymbol \notin Symbols
    /\ BridgeTokenOf \in [DOMAIN BridgeTokenOf -> Tokens \ {Ether}]
    /\ \A s \in DOMAIN BridgeTokenOf : TokenSymbol[BridgeTokenOf[s]] = s
    /\ StartFunds \in [Tokens -> [Users \cup {Bank} -> Nat]]
    /\ LockAmounts \subseteq Nat
    /\ MaxNonce \in Nat /\ MaxLog \in Nat

-----------------------------------------------------------------------------
(* Guards shared by the functions.                                         *)

onlyNotBlocklisted(account) == hasBlocklist => account \notin blocklist

\* The prefix is compared with 0x736966, which spells "sif".
verifyBlackPrefix(recipient) == recipient.prefix = "sif"

validBlackAddress(recipient) == recipient.length = 42 /\ verifyBlackPrefix(recipient)

safeLowerToUpperTokens(symbol) ==
    IF lowerToUpperTokens[symbol] = NoSymbol THEN symbol ELSE lowerToUpperTokens[symbol]

Transfer(token, from, to, amount) ==
    funds' = [funds EXCEPT ![token][from] = @ - amount, ![token][to] = @ + amount]

Event(name, who, token, symbol, amount, nonce, recipient) ==
    [name |-> name, who |-> who, token |-> token, symbol |-> symbol,
     amount |-> amount, nonce |-> nonce, recipient |-> recipient]

-----------------------------------------------------------------------------
(* Deposits: tokens leave for the chain.                                   *)

\* Ether and ERC20 deposits differ in how the amount is handed over, and a
\* deposit of no Ether is a transfer call to address 0, which fails.
lock(sender, recipient, token, amount) ==
    /\ lockBurnNonce < MaxNonce /\ Len(log) < MaxLog
    /\ token \in ethWhiteList
    /\ validBlackAddress(recipient)
    /\ onlyNotBlocklisted(sender)
    /\ ~bankPaused
    /\ token = Ether => amount > 0
    /\ funds[token][sender] >= amount
    /\ Transfer(token, sender, Bank, amount)
    /\ lockBurnNonce' = lockBurnNonce + 1
    /\ lockedTokenList' = [lockedTokenList EXCEPT ![TokenSymbol[token]] = token]
    /\ log' = Append(log, Event("LogLock", sender, token, TokenSymbol[token], amount,
                                lockBurnNonce', recipient))
    /\ UNCHANGED <<controlledBridgeTokens, lowerToUpperTokens, ethWhiteList, cosmosWhiteList,
                   pauseVars, blockVars, roleVars>>

\* Mutant: the nonce of burns is not advanced.
burnSameNonce(sender, recipient, token, amount) ==
    /\ lockBurnNonce < MaxNonce /\ Len(log) < MaxLog
    /\ validBlackAddress(recipient)
    /\ token \in cosmosWhiteList
    /\ onlyNotBlocklisted(sender)
    /\ ~bankPaused
    /\ funds[token][sender] >= amount
    /\ funds' = [funds EXCEPT ![token][sender] = @ - amount]
    /\ log' = Append(log, Event("LogBurn", sender, token, TokenSymbol[token], amount,
                                lockBurnNonce, recipient))
    /\ UNCHANGED <<lockBurnNonce, tokenVars, pauseVars, blockVars, roleVars>>

burn(sender, recipient, token, amount) ==
    /\ lockBurnNonce < MaxNonce /\ Len(log) < MaxLog
    /\ validBlackAddress(recipient)
    /\ token \in cosmosWhiteList
    /\ onlyNotBlocklisted(sender)
    /\ ~bankPaused
    /\ funds[token][sender] >= amount
    /\ funds' = [funds EXCEPT ![token][sender] = @ - amount]
    /\ lockBurnNonce' = lockBurnNonce + 1
    /\ log' = Append(log, Event("LogBurn", sender, token, TokenSymbol[token], amount,
                                lockBurnNonce', recipient))
    /\ UNCHANGED <<tokenVars, pauseVars, blockVars, roleVars>>

-----------------------------------------------------------------------------
(* Functions only the CosmosBridge contract may call.                      *)

createNewBridgeToken(symbol) ==
    /\ symbol \in DOMAIN BridgeTokenOf
    /\ controlledBridgeTokens' = [controlledBridgeTokens EXCEPT ![symbol] = BridgeTokenOf[symbol]]
    /\ lowerToUpperTokens' = [lowerToUpperTokens EXCEPT ![Lower[symbol]] = symbol]
    /\ cosmosWhiteList' = cosmosWhiteList \cup {BridgeTokenOf[symbol]}

\* The token is the one registered for the symbol, with the registration that
\* controlled holds; a symbol without a token makes the call fail.
mintBridgeTokens(recipient, symbol, amount, controlled, upper) ==
    LET name  == IF upper[symbol] = NoSymbol THEN symbol ELSE upper[symbol]
        token == controlled[name]
    IN  /\ ~bankPaused
        /\ onlyNotBlocklisted(recipient)
        /\ token \in BankMints
        /\ funds' = [funds EXCEPT ![token][recipient] = @ + amount]
        /\ log' = Append(log, Event("LogBridgeTokenMint", recipient, token, name, amount,
                                    lockBurnNonce, recipient))

\* The bank has no function that takes Ether it did not ask for.
Accepts(recipient, token) == token = Ether => recipient # Bank

\* Mutant: an unlock of Ether returns before its event.
unlockSilently(recipient, symbol, amount) ==
    LET name  == safeLowerToUpperTokens(symbol)
        token == lockedTokenList[name]
    IN  /\ ~bankPaused
        /\ onlyNotBlocklisted(recipient)
        /\ funds[token][Bank] >= amount /\ Accepts(recipient, token)
        /\ Transfer(token, Bank, recipient, amount)
        /\ log' = IF token = Ether THEN log
                  ELSE Append(log, Event("LogUnlock", recipient, token, name, amount,
                                         lockBurnNonce, recipient))

unlock(recipient, symbol, amount) ==
    LET name  == safeLowerToUpperTokens(symbol)
        token == lockedTokenList[name]
    IN  /\ ~bankPaused
        /\ onlyNotBlocklisted(recipient)
        /\ funds[token][Bank] >= amount /\ Accepts(recipient, token)
        /\ Transfer(token, Bank, recipient, amount)
        /\ log' = Append(log, Event("LogUnlock", recipient, token, name, amount,
                                    lockBurnNonce, recipient))

-----------------------------------------------------------------------------
(* What holders do with their tokens without the bank: no event of the bank*)
(* tells of it.                                                            *)

transfer(sender, to, token, amount) ==
    /\ funds[token][sender] >= amount /\ Accepts(to, token)
    /\ Transfer(token, sender, to, amount)
    /\ UNCHANGED <<lockBurnNonce, log, tokenVars, pauseVars, blockVars, roleVars>>

\* A BridgeToken is an ERC20Burnable.
burnOwn(sender, token, amount) ==
    /\ token \in BankMints
    /\ funds[token][sender] >= amount
    /\ funds' = [funds EXCEPT ![token][sender] = @ - amount]
    /\ UNCHANGED <<lockBurnNonce, log, tokenVars, pauseVars, blockVars, roleVars>>

-----------------------------------------------------------------------------
(* Administration.                                                         *)

addExistingBridgeToken(caller, token) ==
    /\ caller = bankOwner
    /\ cosmosWhiteList' = cosmosWhiteList \cup {token}
    /\ controlledBridgeTokens' = [controlledBridgeTokens EXCEPT ![TokenSymbol[token]] = token]
    /\ lowerToUpperTokens' = [lowerToUpperTokens EXCEPT ![Lower[TokenSymbol[token]]] = TokenSymbol[token]]
    /\ UNCHANGED <<lockedTokenList, ethWhiteList, moneyVars, pauseVars, blockVars, roleVars>>

setTokenInEthWhiteList(list, token, inList) ==
    IF inList THEN list \cup {token} ELSE list \ {token}

updateEthWhiteList(caller, token, inList) ==
    /\ caller = bankOperator
    /\ inList <=> lockedTokenList[TokenSymbol[token]] = Ether
    /\ lowerToUpperTokens' = [lowerToUpperTokens EXCEPT ![Lower[TokenSymbol[token]]] = TokenSymbol[token]]
    /\ ethWhiteList' = setTokenInEthWhiteList(ethWhiteList, token, inList)
    /\ UNCHANGED <<lockedTokenList, controlledBridgeTokens, cosmosWhiteList,
                   moneyVars, pauseVars, blockVars, roleVars>>

bulkWhitelistUpdateLimits(caller, tokens) ==
    /\ caller = bankOperator
    /\ ethWhiteList' = ethWhiteList \cup {tokens[i] : i \in 1..Len(tokens)}
    /\ LET upperOf(s) == {i \in 1..Len(tokens) : Lower[TokenSymbol[tokens[i]]] = s}
       IN  lowerToUpperTokens' =
              [s \in Symbols |-> IF upperOf(s) = {} THEN lowerToUpperTokens[s]
                                 ELSE TokenSymbol[tokens[Max(upperOf(s))]]]
    /\ UNCHANGED <<lockedTokenList, controlledBridgeTokens, cosmosWhiteList,
                   moneyVars, pauseVars, blockVars, roleVars>>

setBlocklist(caller) ==
    /\ caller = bankOperator
    /\ hasBlocklist' = TRUE
    /\ UNCHANGED <<blocklist, tokenVars, moneyVars, pauseVars, roleVars>>

\* The owner of the Blocklist contract changes it (module Blocklist).
BlocklistChanges(accounts) ==
    /\ blocklist' = accounts
    /\ UNCHANGED <<hasBlocklist, tokenVars, moneyVars, pauseVars, roleVars>>

pause(caller) ==
    /\ caller \in pausers /\ ~bankPaused
    /\ bankPaused' = TRUE
    /\ UNCHANGED <<pausers, tokenVars, moneyVars, blockVars, roleVars>>

unpause(caller) ==
    /\ caller \in pausers /\ bankPaused
    /\ bankPaused' = FALSE
    /\ UNCHANGED <<pausers, tokenVars, moneyVars, blockVars, roleVars>>

addPauser(caller, account) ==
    /\ caller \in pausers
    /\ pausers' = pausers \cup {account}
    /\ UNCHANGED <<bankPaused, tokenVars, moneyVars, blockVars, roleVars>>

renouncePauser(caller) ==
    /\ pausers' = pausers \ {caller}
    /\ UNCHANGED <<bankPaused, tokenVars, moneyVars, blockVars, roleVars>>

changeOwner(caller, account) ==
    /\ caller = bankOwner
    /\ bankOwner' = account
    /\ UNCHANGED <<bankOperator, tokenVars, moneyVars, pauseVars, blockVars>>

changeBankOperator(caller, account) ==
    /\ caller = bankOperator
    /\ bankOperator' = account
    /\ UNCHANGED <<bankOwner, tokenVars, moneyVars, pauseVars, blockVars>>

-----------------------------------------------------------------------------

\* initialize registers the symbol "eth" (and "efury", which is spelled in lower
\* case too, so that its entry says nothing new) and whitelists Ether.
BankInit ==
    /\ funds = StartFunds
    /\ lockedTokenList = [s \in Symbols |-> Ether]
    /\ controlledBridgeTokens = [s \in Symbols |-> Ether]
    /\ lowerToUpperTokens = [s \in Symbols |-> IF s = EthSymbol THEN EthSymbol ELSE NoSymbol]
    /\ ethWhiteList = {Ether}
    /\ cosmosWhiteList = {}
    /\ lockBurnNonce = 0
    /\ log = <<>>
    /\ bankPaused = FALSE
    /\ hasBlocklist = FALSE
    /\ blocklist = {}
    /\ \E a \in Admins : pausers = {a} /\ bankOperator = a /\ bankOwner = a

ERC20s == Tokens \ {Ether}

Deposits ==
    \E u \in Users, r \in Recipients, t \in Tokens, n \in LockAmounts :
        lock(u, r, t, n) \/ burn(u, r, t, n)

HolderActivity ==
    \E u \in Users, t \in Tokens, n \in LockAmounts :
        \/ \E h \in Users \cup {Bank} : transfer(u, h, t, n)
        \/ burnOwn(u, t, n)

TokenAdministration ==
    \E a \in Admins :
        \/ \E t \in ERC20s, b \in BOOLEAN : addExistingBridgeToken(a, t) \/ updateEthWhiteList(a, t, b)
        \/ \E ts \in [1..2 -> ERC20s] : bulkWhitelistUpdateLimits(a, ts)

SafetySwitches ==
    \/ \E a \in Admins : pause(a) \/ unpause(a) \/ renouncePauser(a) \/ setBlocklist(a)
    \/ \E accounts \in SUBSET Users : BlocklistChanges(accounts)
    \/ \E a, b \in Admins : addPauser(a, b) \/ changeOwner(a, b) \/ changeBankOperator(a, b)

-----------------------------------------------------------------------------
(* Properties.                                                             *)

Logged(names, t) == {i \in 1..Len(log) : log[i].name \in names /\ log[i].token = t}

LoggedAmount(name, t) ==
    SumFunctionOnSet([i \in 1..Len(log) |-> log[i].amount], Logged({name}, t))

Supply(f, t) == SumFunction(f[t])

\* Tokens whose only minter is the bank: it has deployed them.
DeployedTokens == {BridgeTokenOf[s] : s \in DOMAIN BridgeTokenOf}

\* The events never promise more than there is: the bank holds of every token at
\* least what was locked less what was unlocked, so that every lock can be returned,
\* and of the tokens it deploys no more are in circulation than were minted less
\* those burned through it, so that every one of them is matched by coins locked on
\* the chain.  Tokens sent to the bank, paid out to the bank itself or burned by
\* their holders leave no event, which is why neither is an equality (lock, burn,
\* unlockFunds, mintNewBridgeTokens).
LogsAccountForFunds ==
    /\ \A t \in Tokens : funds[t][Bank] + LoggedAmount("LogUnlock", t)
                           >= StartFunds[t][Bank] + LoggedAmount("LogLock", t)
    /\ \A t \in DeployedTokens : Supply(funds, t) + LoggedAmount("LogBurn", t)
                                   <= Supply(StartFunds, t) + LoggedAmount("LogBridgeTokenMint", t)

\* The nonce identifies a deposit: locks and burns, of all tokens and senders,
\* have different nonces, as the chain builds the identifier of the prophecy
\* from it.
NoncesIdentifyDeposits ==
    LET deposits == UNION {Logged({"LogLock", "LogBurn"}, t) : t \in Tokens}
    IN  \A i, j \in deposits : i # j => log[i].nonce # log[j].nonce

=============================================================================
