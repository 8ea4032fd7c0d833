\* The services, a topic at a time; a service whose requests are answered stops.
CONSTANTS
    Topics = {"payments", "quotes", "bucket", "audit", "password", "remembered", "sessions", "factor", "proposals", "erasure", "push", "upgrade", "names", "switches", "feeds", "connect", "watch", "startup"}
    Invoices = {1, 2}
    Sweeps = {"s1", "s2"}
    Wallets = {zpub}
    Owed = 2
    Payable = {1}
    Capacity = 3
    Cost = 2
    DayRefill = 9
    InFlight = 2
    Crashes = 1
    Horizon = 10
    Requests = {r1, r2, r3}
    LogBound = 4
    Visits = {"v1", "v2"}
    SessionIds = {1, 2}
    MaxFailed = 2
    MaxPasswords = 2
    MaxSecrets = 3
    People = {"a", "b", "c"}
    Parents = {"a", "b"}
    Proposals = {"p1"}
    Calls = {"c1", "c2"}
    Events = {1}
    Pushes = {1, 2}
    Texts = 2
    MaxEtag = 3
    Reviews = {v1, v2}
    Devices = {1, 2}
    Locks = {1}
    Askers = {1, 2}
    Labels = {1, 2}
    Switches = 1
    Feeds = {1, 2, 3}
    Batch = 2
    Passes = {"p1", "p2"}
    Contents = 2
    CamSystems = {"s1", "s2"}
    CamPasswords = {"pw1", "pw2"}
    CamRequests = {1, 2}
    MaxCookie = 2
    Servers = {"s1", "s2"}
    Versions = {1, 2, 3}
    Builds <- MCBuilds
SPECIFICATION ServicesSpec
INVARIANTS
    InvoicesStandApart
    FairBucket
    ChainVerifies
    CutSessionsStayOut
    KeyFollowsPassword
    SecondFactorIsProven
    CleanPushIsTrue
    NamesStick
    ControlsShow
    NobodyIsPassedOver
    ConnectionWasProven
    UpMeansMigrated
PROPERTIES
    NoMoneyGoesUnrecorded
    WipeNeedsEveryAdmin
    GoingSparesTheOthers
    PhoneEditsStand
    OnlyReviewedWorkGoesOut
CHECK_DEADLOCK FALSE
