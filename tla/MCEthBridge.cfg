CONSTANTS
    alice = alice
    admin = admin
    mod = mod
    eth = eth
    ceth = ceth
    fury = fury
    Validators = {v1, v2, v3}
    Ids = {p1}
    Contents <- MixedContents
    NoClaim = NoClaim
    Accounts = {alice, admin, mod}
    AdminAccount = admin
    ConsensusNum = 7
    ConsensusDen = 10
    MaxPower = 2
    GenesisWhitelist = {v1}
    GenesisPower <- EqualPower
    Denoms = {ceth, fury}
    Ceth = ceth
    Pegged <- PeggedEth
    EthAddresses = {e1}
    Amounts = {1}
    Fees = {1}
    BridgeAdmin = admin
    BurnSymbols = {ceth}
    BlockedAccounts = {mod}
    NoAccount = NoAccount
    ModuleAccount = ModuleAccount
    GenesisBalances <- StartBalances
    GenesisPeggyTokens = {ceth}
    MaxSequence = 2
    MaxEvents = 2
SYMMETRY NewcomerSymmetry
SPECIFICATION MCSpec
INVARIANTS
    ClaimsCountedOnce
    NoLockAfterBurn
PROPERTIES
    FinalizedForever
    VerdictMatchesClaims
    ImplementsLedger
    FeesKept
