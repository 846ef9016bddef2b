CONSTANTS
    Request = {r1}
    Caller = {c1}
    MaxGen = 2
    MaxMaster = 2
    MaxAttempts = 1
    MaxFaults = 1
    MaxBootstraps = 1
SPECIFICATION FairSpec
PROPERTY NoAttemptLingers
