CONSTANTS
    Users = {u1, u2}
    Sessions = {s1, s2}
    Changes = {c1}
    MaxLogins = 2
    NoUser = NoUser
SPECIFICATION FairSpec
INVARIANT TypeOK
INVARIANT Indexed
INVARIANT PushedOnce
PROPERTY ChangeReaches
CHECK_DEADLOCK FALSE
