CONSTANTS
    Game = game
    Net = net
    Main = main
    Worker = worker
    Queries = {q1, q2, q3}
    WithCallback = {q1, q2}
    MaxFlush = 1
    None = none
SPECIFICATION FairSpec
INVARIANTS OnceOrOwed ReorderOnlyInHand
PROPERTIES FlushLeavesInHand AcceptedRuns
CHECK_DEADLOCK FALSE
