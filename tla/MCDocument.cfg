\* The parts of the document, a topic at a time; the days, the ticks and the sessions
\* that are looked at run out, so a behaviour may end.
CONSTANTS
    Topics = {"record", "turns", "pausing", "moving", "project", "timers", "reminders", "browser", "merging", "assistant", "evening", "lists", "shopping", "jars", "rows", "meals", "agenda", "nightly", "import", "copies"}
    Members = {"a", "b", "c"}
    LastDay = 5
    WeekLength = 2
    Rotations <- MCRotations
    Choosable <- MCChoosable
    PlanDays = 3
    MaxStages = 2
    Drafts <- MCDrafts
    TimerIds = {1, 2}
    Longest = 2
    Until = 5
    Alerts = {"c1", "c2"}
    Screens = {"tablet", "phone"}
    At = 1
    Cutoff = 2
    LastTick = 2
    Accounts = {"a", "b"}
    Tabs = {1, 2}
    Homes = {1}
    MaxSession = 3
    Phones = {"tablet", "phone"}
    Keyed = {"chore"}
    Settings = {"lists"}
    Leftover = {"archive"}
    LastEdit = 3
    Providers = {"p1", "p2"}
    Admins = {"m", "n"}
    Askers = {1}
    Viewers = {"agenda", "checkin"}
    Evenings = 2
    Fortnight = 1
    Patience = 1
    MaxAnswers = 3
    Desks = {"phone", "wall"}
    Walls = {"wall"}
    Housemates = {"x", "y"}
    Me = "x"
    MaxLists = 2
    MaxItems = 2
    Stores = {"Costco", "costco"}
    FirstStores = {"Costco"}
    StoreName <- MCStoreName
    Titles = {"milk"}
    Shoppers = {1, 2}
    MaxGroceries = 2
    FirstJars = 2
    MaxJars = 3
    MaxIdeas = 3
    MaxDraws = 3
    Panes = {1}
    Blocks = {1}
    Filters = {"x"}
    MealDays = {1, 2}
    Dishes = {"soup"}
    Eaters = {"a"}
    Cooks = {1, 2}
    MaxRows = 2
    Clocks = {1}
    Nights = 2
    LastHour = 1
    Offset = 1
    UsualHour = 1
    Window = 0
    Sorts = {"meals"}
    MaxTopics = 3
    Filed = 1
    EntryIds = {1, 2, 3, 4, 5, 6, 7, 8, 9, 10, 11, 12, 13, 14, 15, 16, 17}
    EntryNames = {"sam", "alex", "cheap", "far", "x"}
    Collections = {"chores", "ideas", "archive", "prompts"}
    Untitled = {"ideas", "archive", "prompts"}
    Unnumbered = {"archive", "prompts"}
    Sentences = {"prompts"}
    Letters = "letters"
    FirstHomes <- MCHomes
    OldHomes <- MCFiles
    StartJars <- MCStartJars
    MaxChanges = 1
    TablePages = {1, 2}
    MaxWrites = 4
SPECIFICATION DocumentSpec
INVARIANTS
    ArchiveAgrees
    NoSilentFinish
    RecordedMeansSent
    KeptByGrant
    NothingLeavesUnasked
    SameQuestion
    WhatIsWrittenStands
PROPERTIES
    OwedUntilDone
    PlanningLands
    MergesKeepData
    NothingOutOfSight
    WalkthroughHolds
CHECK_DEADLOCK FALSE
