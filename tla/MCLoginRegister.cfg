CONSTANTS
    Often = Often
    Once = Once
    Clients = {Often, Once}
    Accounts = {a1}
    MaxTries <- Tries
    NoAccount = NoAccount
SPECIFICATION Spec
INVARIANTS
    AnswerIsForPending
    AccountHasOneOwner
PROPERTY BusySettles
CHECK_DEADLOCK FALSE
