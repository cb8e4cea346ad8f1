CONSTANTS
    Users = {a, b, c}
    Handlers = {h1, h2}
    Requests = {r1, r2}
    Convs = {c1}
    None = None
SPECIFICATION Spec
SYMMETRY Symmetry
INVARIANT TypeOK
INVARIANT FriendshipMutual
INVARIANT ActsBetweenFriends
PROPERTY FriendsByAcceptance
PROPERTY RejectionFinal
