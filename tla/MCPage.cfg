SPECIFICATION Spec
CONSTANTS
    announce = announce
    overview = overview
    users = users
    p1 = p1
    p2 = p2
    f1 = f1
    f2 = f2
    o1 = o1
    o2 = o2
    j1 = j1
    j2 = j2
    None = None
    Item <- MCItem
    Static <- MCStatic
    Waiting <- MCWaiting
    Acting <- MCActing
    Fetch = {f1, f2}
    Peer = {p1, p2}
    Opening = {o1, o2}
    Joining = {j1, j2}
    MaxCalls = 2
    MaxMoves = 3
SYMMETRY Sym
INVARIANTS
    TypeOK
    ViewCurrent
    PaneExact
    RightRoom
    NoCallLeft
    RoomGone
CHECK_DEADLOCK FALSE
