CONSTANTS
    ann = ann
    bob = bob
    cid = cid
    w1 = w1
    w2 = w2
    nobody = nobody
    Award <- MCAward
    Pilot <- MCPilot
    OwnerOf <- MCOwnerOf
    Amount <- MCAmount
    Earned = "approved"
    Prizes = 2
    OnePer = TRUE
    Seeds <- MCSeeds
    Budget = 3
    Proc <- MCProc
    Serves <- AllServes
    Moves <- Closing
    Verdicts <- MCVerdicts
    Fickle <- MCFickle
    MaxDraws = 2
    MaxPools = 2
    MaxResults = 4
    Nobody = nobody
SPECIFICATION Spec
INVARIANTS
    TicketsOwnedOnce ChainUsedOnce OneWinEach
\* A contest ends.
CHECK_DEADLOCK FALSE
