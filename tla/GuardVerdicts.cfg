CONSTANTS
    NoCommit = NoCommit
    Commit = {"s", "a", "u", "f", "d", "r", "x"}
    Parent <- MCParent
    Tag <- MCTag
    DocsCommit = {"d"}
    Path = {"gated", "free"}
    Paths <- MCPaths
    GatedPath = {"gated"}
    GateRoles <- MCGateRoles
    BadBlob = {"x"}
    Role = {"maker", "andon", "gemba"}
    Key = {"k1", "k2", "k3"}
    TrustedKey = {"k1", "k2"}
    KeyRoles <- MCKeyRoles
    Digest = {"now", "before"}
    ConstitutionDigest = "now"
    Runner = {"image", "other"}
    RunnerID = "image"
    Check = {"lint", "test"}
    Required <- MCRequired
    SkipForDocsOnly = {"test"}
    Envelope <- VerdictEnvelope
    Call = {c1, c2}
    Seed = "s"
    MergeSlots = 1
    MaxEvents = 1
    MaxStray = 1
    Submission <- AnySubmission
SPECIFICATION Spec
SYMMETRY Symmetry
INVARIANTS OnlyProvenCommits StopHasCause CandidateKept
