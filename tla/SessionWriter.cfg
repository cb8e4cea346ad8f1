CONSTANTS
    Lines = {l1, l2, l3, l4}
    Large = {l1, l2}
    MaxOutgoing = 3
    Writers = {w1, w2}
    NoLine = NoLine
SPECIFICATION WriterSpec
INVARIANT WriterTypeOK
INVARIANT QueueServed
PROPERTY AcceptedIsWritten
PROPERTY ImplementsChannel
CHECK_DEADLOCK FALSE
