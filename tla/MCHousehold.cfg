\* Two admins, an invited guest and a display; two requests at a time.
CONSTANTS
    ann = ann
    bob = bob
    cat = cat
    wall = wall
    link = link
    r1 = r1
    r2 = r2
    None = None
    Users <- CoupleAndGuest
    Founders <- Couple
    Displays <- Wall
    Invites <- OneInvite
    Requests <- TwoRequests
    Threshold = 0
    Topics <- AllTopics
    MaxKeys = 3
    MaxSent = 5
SPECIFICATION Spec
SYMMETRY Symmetry
INVARIANTS
    CutDisplaysStayDark
PROPERTIES
    UndisturbedRequestsLeaveAnAdmin
    RotationReachesEveryone
CHECK_DEADLOCK FALSE
