\* Overlapping saves of a device; or anything that may happen, one thing at a time,
\* and a rotation.
\* A device that cannot open the document stops by itself: no deadlock check.
CONSTANTS
    phone = phone
    laptop = laptop
    milk = milk
    bread = bread
    None = None
    Rotator = Rotator
    Clients <- TwoClients
    Displays <- LaptopAsDisplay
    SaveJobs <- TwoSaves
    Rows <- TwoRows
    Scenarios <- Mishaps
    VAULT_REVISIONS_KEPT = 2
    MaxVersion = 4
    MaxEpoch = 2
SPECIFICATION Spec
SYMMETRY RowSymmetry
PROPERTIES
    FreshSavesLoseNothing
    WellSealedSavesOpen
CHECK_DEADLOCK FALSE
