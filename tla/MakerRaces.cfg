CONSTANTS
    Station = {m1, m2}
    Card = {a1, b1}
    NoCard = NoCard
    Nobody = Nobody
    a1 = a1
    b1 = b1
    Andon = {a1}
    Rank <- MCRank
    MaxAttempts = 2
    SettleTries = 2
    MaxLands = 1
    MaxFaults = 1
    MaxCrashes = 0
    MaxSignals = 0
    MaxPulls = 1
    MaxRelabels = 0
SPECIFICATION Spec
SYMMETRY MakersAlike
INVARIANTS TypeOK WorkIsClaimed
PROPERTY CloseIsEarned
