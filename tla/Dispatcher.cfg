CONSTANTS
    Producers = {p1}
    Owner = owner
    Worker = worker
    Plain = {a, b}
    Expiring = {b}
    CloseTask = close
    FinTask = fin
    TermTask = term
    NoThread = none
SPECIFICATION FairSpec
INVARIANTS NoLostWakeup OrderlyExit
PROPERTIES ImplementsTaskQueue AcceptedFinishes JoinReturns
CHECK_DEADLOCK FALSE
