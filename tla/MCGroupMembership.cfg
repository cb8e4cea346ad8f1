CONSTANTS
    Users = {u1, u2, u3}
    Handlers = {h1, h2}
    Requests = {r1, r2}
    NoUser = NoUser
    NoRequest = NoRequest
    NoHandler = NoHandler
SPECIFICATION Spec
INVARIANT TypeOK
INVARIANT OwnerStands
PROPERTY RolesSetByOwner
PROPERTY RemovalAnnounced
PROPERTY JoinByAcceptance
PROPERTY ImplementsContract
SYMMETRY Symmetry
