CONSTANTS
    Request = {r1, r2}
    Caller = {c1}
    MaxGen = 2
    MaxMaster = 2
    MaxAttempts = 2
    MaxFaults = 1
    MaxBootstraps = 0
SPECIFICATION Spec
SYMMETRY Symmetry
INVARIANTS TypeOK LaunchIsAlone OneInCharge
PROPERTY HandoverIsForward
