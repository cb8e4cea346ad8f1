CONSTANTS
    Users = {a, b}
    Handlers = {h1, h2}
    Requests = {r1}
    Convs = {c1, c2}
    None = None
SPECIFICATION Spec
INVARIANT OneConversationPerPair
