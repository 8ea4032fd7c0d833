\* A member's and a display's requests; two old documents are kept.
CONSTANTS
    phone = phone
    wall = wall
    docA = docA
    docB = docB
    None = None
    Requests <- MemberAndDisplay
    DisplayRequests <- Display
    Ciphertexts <- Docs
    Founding = docA
    VAULT_REVISIONS_KEPT = 2
    MaxVersion = 4
    MaxEpoch = 2
SPECIFICATION Spec
INVARIANTS
    VersionNamesOneDocument
    RevisionsWhole
PROPERTIES
    RecoveryPath
    ImplementsRegister
