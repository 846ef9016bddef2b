CONSTANTS
    Other = {}
    MaxMaster = 2
    MaxPulls = 0
    MaxRestarts = 0
SPECIFICATION Spec
INVARIANT VerdictsHold
PROPERTY LineFollowsMaster
