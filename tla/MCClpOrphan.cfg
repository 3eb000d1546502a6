CONSTANTS
    fury = fury
    atk = atk
    btk = btk
    u1 = u1
    u2 = u2
    Native = fury
    AssetSeq <- AssetOrder
    UserSeq <- UserOrder
    Permissions <- AllMayTrade
    PoolThreshold = 5
    Precision = 100
    FeeDen = 4
    MaxWbasis = 4
    SwapAmounts = {3}
    Additions <- SomeAdditions
    Withdrawals = {1, 2}
    WBasis = {2}
    UnlockAmounts = {2, 4}
    FeeTables <- Fees
    RemovalParams <- LockAndCancel
    RewardTables <- Rewards
    DistributionTables <- Distributions
    GenesisPools <- SingleUnit
    GenesisProviders <- TwoProviders
    Windows <- PmtpWindows
    BlockRates = {0, 1}
    Rates = {0, 1}
    Limits <- Protections
    Thresholds = {0, 3, 7}
    MaxHeight = 5
    MaxTxs = 3
SPECIFICATION MCSpec
CHECK_DEADLOCK FALSE
INVARIANT BooksBalance
