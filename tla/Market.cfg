CONSTANTS
    ann = ann
    ben = ben
    Players = {ann, ben}
    Account <- MCAccount
    Coins = 5
    Items = 2
    Prices = {2}
    MaxAmount = 2
    MinFee = 1
    MaxFee = 2
    MaxOffers = 1
    MaxId = 2
    MaxChecks = 2
SPECIFICATION Spec
INVARIANTS TypeOK HistoryAccounts GoodsKept
PROPERTIES ExpiredSettles
CHECK_DEADLOCK FALSE
