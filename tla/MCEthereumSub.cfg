CONSTANTS
    e1 = e1
    e2 = e2
    v1 = v1
    v2 = v2
    v3 = v3
    Validators = {v1, v2, v3}
    Relayers = {v1}
    Claiming = {v2}
    Ids = {e1, e2}
    Content = x
    NoClaim = NoClaim
    Accounts = {admin}
    AdminAccount = admin
    ConsensusNum = 7
    ConsensusDen = 10
    MaxPower = 2
    GenesisWhitelist = {v1, v2, v3}
    GenesisPower <- UnequalPower
    BlockOf <- Blocks
    Unparsable = {}
    Unpayable = {e2}
    MaxBlock = 4
    Trailing = 2
    MaxReorg = 1
    MaxRestarts = 1
    Faulty = TRUE
SPECIFICATION MCSpec
INVARIANTS
    CheckpointHasBeenSent
PROPERTIES
    CatchesUp
    ReplayRecovers
