SPECIFICATION FairSpec
CONSTANTS
    Distributors = {d1}
    Runners = {r1, r2}
    Recipients = {1, 2}
    Blocked = {1}
    Types = {airdrop, mining}
    ClaimTypes = {mining}
    Outputs <- MCOutputs
    Funds = 4
    MaxRecordsPerBlock = 1
    MaxHeight = 2
    MaxDistributions = 3
INVARIANTS DropsAccountedFor
PROPERTIES RecordsSettle
