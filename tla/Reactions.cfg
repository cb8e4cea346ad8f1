CONSTANTS
    Users = {u1, u2, u3}
    Sender = u1
    Admins = {u2}
    MaxRequests = 3
SPECIFICATION Spec
INVARIANTS
    TypeOK
    ClientsAgree
    RecalledStays
CHECK_DEADLOCK FALSE
