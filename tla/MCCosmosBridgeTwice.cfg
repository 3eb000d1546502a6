CONSTANTS
    tABC = tABC
    bFury = bFury
    u1 = u1
    w1 = w1
    w2 = w2
    w3 = w3
    EthValidators = {w1, w2, w3}
    Callers = {op}
    GenesisOperator = op
    GenesisEthPower <- UnequalPower
    Powers = {1, 2}
    MaxPowers = 12
    MaxVersion = 2
    MaxListed = 1
    Tokens = {Ether, tABC, bFury}
    Ether = Ether
    Symbols <- MCSymbols
    TokenSymbol <- OneToken
    Lower <- MCLower
    NoSymbol = ""
    EthSymbol = "eth"
    BridgeTokenOf <- FuryToken
    BankMints = {bFury}
    Users = {u1}
    Bank = Bank
    StartFunds <- SomeFunds
    Recipients <- MCRecipients
    Admins = {op}
    LockAmounts = {1}
    MaxNonce = 0
    MaxLog = 3
    Claims <- LockClaim
    ConsensusThreshold = 70
SPECIFICATION Spec
INVARIANT PaidOnce
