CONSTANTS
    a1 = a1
    a2 = a2
    m1 = m1
    p1 = p1
    p2 = p2
    s1 = s1
    s2 = s2
    NoPassword = NoPassword
    Users <- MCUsers
    DirectAdministrators <- MCDirect
    TeamAdministrators <- MCTeam
    Passwords <- MCPasswords
    Sessions <- MCSessions
    MaxRevision = 3
    MaxPrepared = 2
    SessionTTL = 2
    AccessTTL = 2
SPECIFICATION MCSpec
CONSTRAINT Small
SYMMETRY Symmetry
CHECK_DEADLOCK FALSE
INVARIANTS AccountsInvariant SessionsInvariant
PROPERTIES ChangeNeedsValidSession ImplementsSessions DisabledIsFinal
