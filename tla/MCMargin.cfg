CONSTANTS
    Precision = 100
    FeeDen = 10
    MaxWbasis = 4
    Traders = {1, 2}
    Rates = {50, 100}
    DefaultFee = 1
    TokenFee <- Fees
    Collaterals = {8}
    Leverages = {200}
    SwapAmounts = {15, 200}
    ParamTables <- Tables
    GenesisBalance <- Balanced
    ForeignCoins = 3
    Cycle = 2
    MaxTxs = 4
    MaxUnpaid = 500
SPECIFICATION MCSpec
INVARIANTS
    ModuleCoversPool
    PositionsMatch
    NeverEmpty
PROPERTIES
    
    CloseAllDrains
