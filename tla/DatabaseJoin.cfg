CONSTANTS
    Game = game
    Net = net
    Main = main
    Worker = worker
    Queries = {q1, q2}
    WithCallback = {q1, q2}
    MaxFlush = 1
    None = none
SPECIFICATION FairSpec
PROPERTIES JoinReturns
CHECK_DEADLOCK FALSE
