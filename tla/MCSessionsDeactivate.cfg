SPECIFICATION Spec
CONSTANTS
    adm = adm
    usr = usr
    t1 = t1
    t2 = t2
    t3 = t3
    r1 = r1
    r2 = r2
    NoUser = NoUser
    NoToken = NoToken
    User <- MCUser
    Admins <- MCAdmins
    Token <- MCToken
    Request <- MCRequest
INVARIANT DeactivationRevokes
