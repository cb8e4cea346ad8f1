CONSTANTS
    MaxRows = 3
    MaxRefused = 1
    MaxRequests = 2
    MaxLines = 2
    FirstPage = 1
    SincePage = 2
SPECIFICATION Spec
CONSTRAINT SmallAfterLoss
INVARIANTS
    TypeOK
    FileWithinView
    NothingSkipped
