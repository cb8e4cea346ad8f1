CONSTANTS
    Sessions = {s1, s2}
    Sends = {m1}
    NoSession = NoSession
SPECIFICATION FairSpec
PROPERTY AckedIsPushed
CHECK_DEADLOCK FALSE
