\* One claim of the repository that the code does not keep.
\* A device that cannot open the document stops by itself: no deadlock check.
CONSTANTS
    phone = phone
    laptop = laptop
    milk = milk
    bread = bread
    None = None
    Rotator = Rotator
    Clients <- OnePhone
    Displays <- NoDisplays
    SaveJobs <- OneSave
    Rows <- TwoRows
    Scenarios <- OneFault
    VAULT_REVISIONS_KEPT = 2
    MaxVersion = 6
    MaxEpoch = 1
SPECIFICATION FairSpec
PROPERTIES
    EditsReachServer
CHECK_DEADLOCK FALSE
