CONSTANTS
    Sessions = {s1, s2}
    Sends = {m1, m2}
    NoSession = NoSession
SPECIFICATION Spec
SYMMETRY Symmetry
INVARIANT TypeOK
INVARIANT NumberedAsStored
INVARIANT AckThenPushOnce
INVARIANT SameOrder
INVARIANT CausalOrder
INVARIANT DrainedBeforeRemoval
PROPERTY ImplementsLog
CHECK_DEADLOCK FALSE
