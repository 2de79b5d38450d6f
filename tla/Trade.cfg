CONSTANTS
    Players = {alice, bob, carol}
    bag = bag
    box = box
    coin = coin
    Nobody = nobody
    Items <- MCItems
    Bags <- MCBags
    Look <- MCLook
    Places <- MCPlaces
    Start <- MCStart
    Home <- MCHome
SPECIFICATION Spec
INVARIANTS TwoSided OffersKept TradersNear AcceptedOfferStands
SYMMETRY PlayerSymmetry
CHECK_DEADLOCK FALSE
