CONSTANTS
    \* AndonPart
    Other = {"o1"}
    MaxMaster = 2
    MaxPulls = 2
    MaxRestarts = 1
    \* ServeParts
    Handlers = {1, 2}
    Delegations <- MCDelegations
    MaxWords = 3
    CommentCap = 1
    DeskFaults = 1
    Gens = {1, 2}
    MaxMessages = 1
    MaxWorld = 1
    ViceroyFaults = 1
    \* Parts
    Commits = {1, 2}
    Builds = {"d1"}
    Container = TRUE
    MaxAndon = 0
    MaxBuilds = 1
    JobCommits = {1, 2, 3}
    Labels <- MCLabels
    MaxCrashes = 1
    Loads = {1, 2}
    Rules <- MCRules
    Requests <- MCRequests
    Engine = "podman"
    EngineFaults = 1
    Runs = {1, 2, 3}
    Clients = {1}
    DiskFaults = 1
    Executors = {1, 2}
    Goal = 2
    MaxAttempts = 1
    MaxOrders = 3
    MaxCommands = 2
    MaxEvents = 1
    ToolCrashes = 1
    Prints = {"p", "q"}
    Scans = {1, 2}
    Reports <- MCReports
    MaxTriage = 1
    Cards = {"c1"}
    Makers = {"m1"}
    Needable = {"kaizen"}
    MaxReaps = 1
    MinAgents = 0
    MaxAgents = 0
    CardsPerAgent = 1
    WIPPerAgent = 1
    MaxStep = 1
    MaxClaims = 2
    MaxCord = 0
    FloorFaults = 1
    Skippable <- MCSkippable
    MaxRuns = 2
    CheckFaults = 1
    Texts = {"t1", "bad"}
    BadTexts = {"bad"}
    Approvers = {1, 2}
    Adders = {1}
    MaxProposals = 2
    MaxRetry = 2
    LawFaults = 1
    Budget <- MCBudget
    Spenders = {1, 2}
    Others = {}
    WorkCards = {"c"}
    Amounts = {2}
    MaxReports = 3
    MaxTime = 2
    Child <- MCChild
    Links <- MCLinks
    Submitted = {"c1", "c2"}
    FirstCommit = "s"
    Blobs = {"b", "l", "e1"}
    Stops = {"e1"}
    MaxSubmits = 2
    MaxTicks = 1
    StoreCrashes = 1
SPECIFICATION Spec
INVARIANTS
    PlatformIsTrue ContainersBounded BudgetHolds TriageLosesNothing NameLeadsToIt
    RecordsAreTrue CampaignIsTrue
PROPERTIES
    ResolveSparesTheStop DeskKeepsWord LawHolds NotesKept AnswersAreExact FindingsAreKept ObjectsAreKept
\* A part may have nothing left to do.
CHECK_DEADLOCK FALSE
