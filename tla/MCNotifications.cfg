SPECIFICATION Spec
CONSTANTS
    me = me
    you = you
    c1 = c1
    c2 = c2
    a1 = a1
    a2 = a2
    Nobody = Nobody
    User <- MCUser
    Me = me
    Call <- MCCall
    Ask <- MCAsk
    Latest = 1
    MaxMoves = 2
SYMMETRY Sym
INVARIANTS
    TypeOK
    BadgeCurrent
    SwitchCurrent
    BellReads
    NoCallUnderDnd
    AnnouncedOnce
CHECK_DEADLOCK FALSE
