SPECIFICATION FairSpec
CONSTANTS
    Clients = {c1, c2}
    Own = own
INVARIANTS
    OneCopy
    NotItself
    StoppedIsGone
PROPERTIES
    ConnsEnd
    StopEnds
CHECK_DEADLOCK FALSE
