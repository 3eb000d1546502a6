CONSTANTS
    a1 = a1
    a2 = a2
    Addresses = {a1, a2}
    GenesisAdmins <- Roles
    Entries <- AllEntries
    Registries <- SomeRegistries
    GenesisRegistry <- Genesis
    ProposalFees = {1, 2}
    Local = {"tk", "xtk"}
    Foreign = {"atom"}
    Unit <- Aliases
    Decimals <- TokenDecimals
    Amounts <- Sizes
    GenesisBalance <- AtHome
    GenesisAbroad <- Away
    MaxSteps = 7
SPECIFICATION Spec
CHECK_DEADLOCK FALSE
INVARIANTS
    VouchersBacked
