CONSTANTS
    tABC = tABC
    bFury = bFury
    u1 = u1
    w1 = w1
    w2 = w2
    w3 = w3
    EthValidators = {w1, w2}
    Callers = {op}
    GenesisOperator = op
    GenesisEthPower <- EqualPower
    Powers = {1, 2}
    MaxPowers = 4
    MaxVersion = 2
    MaxListed = 1
    Tokens = {Ether, tABC, bFury}
    Ether = Ether
    Symbols <- MCSymbols
    TokenSymbol <- OneToken
    Lower <- MCLower
    NoSymbol = ""
    EthSymbol = "eth"
    BridgeTokenOf <- FuryToken
    BankMints = {bFury}
    Users = {u1}
    Bank = Bank
    StartFunds <- SomeFunds
    Recipients <- MCRecipients
    Admins = {op}
    LockAmounts = {1}
    MaxNonce = 1
    MaxLog = 2
    Claims <- BurnClaim
    ConsensusThreshold = 70
SYMMETRY AllValidators
SPECIFICATION Spec
INVARIANTS
    PaidInKind
    CountersCoverActive
