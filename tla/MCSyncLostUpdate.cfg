\* One claim of the repository that the code does not keep.
\* A device that cannot open the document stops by itself: no deadlock check.
CONSTANTS
    phone = phone
    laptop = laptop
    milk = milk
    bread = bread
    None = None
    Rotator = Rotator
    Clients <- TwoClients
    Displays <- NoDisplays
    SaveJobs <- OneSave
    Rows <- TwoRows
    Scenarios <- Calm
    VAULT_REVISIONS_KEPT = 2
    MaxVersion = 6
    MaxEpoch = 1
SPECIFICATION Spec
SYMMETRY Symmetry
PROPERTIES
    NoLostUpdate
CHECK_DEADLOCK FALSE
