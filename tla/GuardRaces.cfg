CONSTANTS
    NoCommit = NoCommit
    Commit = {"s", "a", "u", "f"}
    Parent <- MCParent
    Tag <- MCTag
    DocsCommit = {}
    Path = {"gated", "free"}
    Paths <- MCPaths
    GatedPath = {"gated"}
    GateRoles <- MCGateRoles
    BadBlob = {}
    Role = {"maker", "andon", "gemba"}
    Key = {"k1", "k2", "k3"}
    TrustedKey = {"k1", "k2"}
    KeyRoles <- MCKeyRoles
    Digest = {"now", "before"}
    ConstitutionDigest = "now"
    Runner = {"image", "other"}
    RunnerID = "image"
    Check = {"lint", "test"}
    Required <- MCRequired
    SkipForDocsOnly = {"test"}
    Envelope <- RaceEnvelope
    Call = {c1, c2}
    Seed = "s"
    MergeSlots = 2
    MaxEvents = 2
    MaxStray = 1
    Submission <- OwnSubmission
SPECIFICATION Spec
SYMMETRY Symmetry
INVARIANTS TypeOK RepliesHold InFlight
PROPERTY ImplementsGuardedLine
