CONSTANTS
    Station = {m1, m2}
    Card = {b1}
    NoCard = NoCard
    Nobody = Nobody
    a1 = a1
    b1 = b1
    Andon = {}
    Rank <- MCRank
    MaxAttempts = 1
    SettleTries = 2
    MaxLands = 1
    MaxFaults = 1
    MaxCrashes = 1
    MaxSignals = 1
    MaxPulls = 0
    MaxRelabels = 1
SPECIFICATION FairSpec
PROPERTY ClaimIsSettled
