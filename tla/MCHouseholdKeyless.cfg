\* One claim of the repository that the code does not keep.
CONSTANTS
    ann = ann
    bob = bob
    cat = cat
    wall = wall
    link = link
    r1 = r1
    r2 = r2
    None = None
    Users <- CoupleAndGuest
    Founders <- Couple
    Displays <- Wall
    Invites <- OneInvite
    Requests <- TwoRequests
    Threshold = 0
    Topics <- AllTopics
    MaxKeys = 2
    MaxSent = 5
SPECIFICATION Spec
SYMMETRY Symmetry
INVARIANTS
    ActiveMembersCanOpen
CHECK_DEADLOCK FALSE
