CONSTANTS
    m1 = m1
    m2 = m2
    m3 = m3
    Messages = {m1, m2, m3}
    MessagesIn <- Blocks
    KeyOf <- Keys
    Unparsable = {m3}
    MaxHeight = 3
    MaxAttempts = 2
    MaxSends = 3
    MaxRestarts = 1
    MaxReplays = 1
SPECIFICATION FairSpec
INVARIANTS
    CheckpointHasBeenHandled
    OneClaimPerHandling
PROPERTIES
    CatchesUp
