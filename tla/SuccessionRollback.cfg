CONSTANTS
    Request = {r1}
    Caller = {c1}
    MaxGen = 2
    MaxMaster = 2
    MaxAttempts = 1
    MaxFaults = 0
    MaxBootstraps = 0
SPECIFICATION Spec
INVARIANT StaysInCharge
