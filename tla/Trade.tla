-------------------------------- MODULE Trade --------------------------------
(***************************************************************************)
(* Trading between players: playerRequestTrade, internalStartTrade,        *)
(* playerAcceptTrade and internalCloseTrade of src/game.cpp, and the hooks *)
(* of src/player.cpp that close a trade when the players or the items      *)
(* move.  A handler runs alone on the game thread (module TaskQueue), so   *)
(* each is one action; TRADE_TRANSFER is a state only inside one of them.  *)
(*                                                                         *)
(* Items lie in a player's inventory, in a container item, or on a tile.   *)
(* Places are points of a line: only the distances 1 and 2 matter.         *)
(***************************************************************************)
EXTENDS Integers

CONSTANTS
    Players,
    Items,
    Bags,       \* the items that are containers
    Look,       \* item -> what Item::equals compares: type and attributes
    Places,     \* tiles, as integers
    Nobody,     \* null for players and for items
    Start,      \* the tile where the players begin
    Home        \* what holds each item at the beginning

\* No item lies inside itself, and every item is somewhere: each set of items
\* has one whose holder is outside the set.  What holds the items is a tree,
\* as the parents of the containers are.
Rooted(f) == \A S \in SUBSET Items : S # {} => \E i \in S : f[i] \notin S

ASSUME TradeAssumption ==
    /\ Bags \subseteq Items
    /\ DOMAIN Look = Items
    /\ Places \subseteq Int
    /\ Nobody \notin Players \cup Items
    /\ Players \cap Items = {}
    /\ Places \cap (Players \cup Items) = {}
    /\ Start \in Places
    /\ Home \in [Items -> Players \cup Places \cup Bags]
    /\ Rooted(Home)

VARIABLES
    online,
    pos,          \* the tile of each player
    loc,          \* what holds each item
    tradeState,
    tradePartner,
    tradeItem,
    tradeItems,   \* Game::tradeItems: the offerer of an item, or Nobody
    down,         \* the server has stopped on a null pointer
    offered,      \* history: what an offer consisted of when it was made ({}: a
                  \* third player carried it, and nothing is promised of it),
    agreed        \* and the partner's offer, as it was when a player accepted it

tradeVars == <<tradeState, tradePartner, tradeItem, tradeItems, offered, agreed>>
vars == <<online, pos, loc, tradeState, tradePartner, tradeItem, tradeItems, down,
          offered, agreed>>

States == {"none", "initiated", "accept", "acknowledge"}

Init ==
    /\ online = Players
    /\ pos = [p \in Players |-> Start]
    /\ loc = Home
    /\ tradeState = [p \in Players |-> "none"]
    /\ tradePartner = [p \in Players |-> Nobody]
    /\ tradeItem = [p \in Players |-> Nobody]
    /\ tradeItems = [i \in Items |-> Nobody]
    /\ down = FALSE
    /\ offered = [p \in Players |-> {}]
    /\ agreed = [p \in Players |-> {}]

-----------------------------------------------------------------------------
(* The tree of items.                                                       *)

\* The containers around an item, from loc[i] outwards.
Ancestors(i) ==
    LET up[x \in Items] ==
            IF loc[x] \notin Items THEN {} ELSE {loc[x]} \cup up[loc[x]]
    IN  up[i]

Inside(i, c) == c \in Ancestors(i)

Contents(i) == {i} \cup {j \in Items : Inside(j, i)}

\* isHoldingItem, at any depth.  It compares with Item::equals, so an item
\* of the same look will do.
Holds(c, i) == \E j \in Items : Look[j] = Look[i] /\ Inside(j, c)

\* The inventory or the tile at the root.
Root(i) ==
    LET top == CHOOSE x \in {i} \cup Ancestors(i) : loc[x] \notin Items
    IN  loc[top]

Position(i) == IF Root(i) \in Players THEN pos[Root(i)] ELSE Root(i)

Near(a, b, n) == a - b <= n /\ b - a <= n

-----------------------------------------------------------------------------
(* internalCloseTrade(p) for each p of a set: p and its partner are reset   *)
(* and their items leave the registry.  A trade that is closed twice by the *)
(* same event finds nothing the second time.                                *)

WithPartners(C) == C \cup ({tradePartner[p] : p \in C} \ {Nobody})

CloseTrades(C) ==
    LET R == WithPartners(C) IN
    /\ tradeState' = [p \in Players |-> IF p \in R THEN "none" ELSE tradeState[p]]
    /\ tradePartner' = [p \in Players |-> IF p \in R THEN Nobody ELSE tradePartner[p]]
    /\ tradeItem' = [p \in Players |-> IF p \in R THEN Nobody ELSE tradeItem[p]]
    /\ tradeItems' = [i \in Items |->
                        IF \E p \in R : tradeItem[p] = i THEN Nobody ELSE tradeItems[i]]
    /\ offered' = [p \in Players |-> IF p \in R THEN {} ELSE offered[p]]
    /\ agreed' = [p \in Players |-> IF p \in R THEN {} ELSE agreed[p]]

-----------------------------------------------------------------------------
(* The hooks.  Each gives the players whose trade an item event closes.     *)

Traders == {p \in Players : tradeItem[p] # Nobody}

\* Whose offer a third player was carrying when it was made.
Borrowers == {p \in Traders : offered[p] = {}}

CheckSelfOnlyMutant(p, i) == tradeItem[p] = i

\* checkTradeState: the item is the offer, or lies inside it.
CheckTradeState(p, i) == tradeItem[p] = i \/ Inside(i, tradeItem[p])

\* onRemoveContainerItem goes to the players next to the container, before
\* the item leaves it; the second test looks for an offer further down.
RemovedFromBag(p, c, i) ==
    \/ CheckTradeState(p, i)
    \/ loc[tradeItem[p]] \in Items \ {c} /\ Holds(c, tradeItem[p])

\* onRemoveTileItem goes to every spectator, onRemoveInventoryItem to the
\* owner: the item is the offer or seems to contain it.
RemovedFromOutside(p, i) == CheckTradeState(p, i) \/ Holds(i, tradeItem[p])

ClosedByRemoval(i) ==
    {p \in Traders \cap online :
        \/ loc[i] \in Items /\ Near(pos[p], Position(loc[i]), 1) /\ RemovedFromBag(p, loc[i], i)
        \/ loc[i] \in Places /\ RemovedFromOutside(p, i)
        \/ loc[i] = p /\ RemovedFromOutside(p, i)}

\* onAddContainerItem: the new container is an offer or lies inside one.
\* Items that arrive on a tile or in an inventory close nothing.
ClosedByAddition(c) ==
    {p \in Traders \cap online :
        /\ c \in Items
        /\ Near(pos[p], Position(c), 1)
        /\ tradeItem[p] = c \/ Inside(c, tradeItem[p])}

-----------------------------------------------------------------------------
(* The handlers.                                                            *)

\* The item is at most one square away.  (Otherwise playerRequestTrade walks
\* there and asks again.)  An inventory is open to its player only, but a bag
\* to whoever has its window open, and that stays open when the bag goes into
\* the backpack of somebody else: nobody asks who carries it.  Windows are not
\* modelled, so every bag nearby may be open.
Reachable(p, i) ==
    /\ loc[i] \in Players => loc[i] = p
    /\ Root(i) \in Places \cup online
    /\ Near(Position(i), pos[p], 1)

Reach(p) == {i \in Items : Reachable(p, i)}

\* "This item is already being traded."
AlreadyTraded(i) ==
    \E j \in Items : tradeItems[j] # Nobody /\ (j = i \/ Holds(i, j) \/ Holds(j, i))

MayReofferMutant(p, q) ==
    /\ \/ tradeState[p] = "none"
       \/ tradeState[p] \in {"acknowledge", "initiated"} /\ tradePartner[p] = q
    /\ tradeState[q] = "none" \/ tradePartner[q] = p

\* internalStartTrade refuses a player who already trades, and a partner who
\* trades with somebody else.
MayStart(p, q) ==
    /\ \/ tradeState[p] = "none"
       \/ tradeState[p] = "acknowledge" /\ tradePartner[p] = q
    /\ tradeState[q] = "none" \/ tradePartner[q] = p

\* The zone flags, the line of sight and the Lua event may refuse as well:
\* then nothing changes.
RequestTrade(p, q) ==
    /\ p \in online /\ q \in online /\ p # q
    /\ Near(pos[p], pos[q], 2)
    /\ MayStart(p, q)
    /\ \E i \in Reach(p) :
          /\ ~AlreadyTraded(i)
          /\ tradePartner' = [tradePartner EXCEPT ![p] = q,
                                                  ![q] = IF tradeState[q] = "none" THEN p ELSE @]
          /\ tradeItem' = [tradeItem EXCEPT ![p] = i]
          /\ tradeState' = [tradeState EXCEPT ![p] = "initiated",
                                              ![q] = IF @ = "none" THEN "acknowledge" ELSE @]
          /\ tradeItems' = [tradeItems EXCEPT ![i] = p]
          /\ offered' = [offered EXCEPT ![p] =
                            IF Root(i) \in Players \ {p} THEN {} ELSE Contents(i)]
    /\ UNCHANGED <<online, pos, loc, down, agreed>>

MayAccept(p) ==
    /\ p \in online
    /\ tradeState[p] \in {"acknowledge", "initiated"}
    /\ tradePartner[p] # Nobody

HasAccepted(q) == tradeState[q] = "accept"

\* The first of the two to accept.  The partner need not have offered anything
\* yet: then there is nothing this player has agreed to take.
AcceptFirst(p) ==
    LET q == tradePartner[p] IN
    /\ MayAccept(p)
    /\ ~HasAccepted(q)
    /\ tradeState' = [tradeState EXCEPT ![p] = "accept"]
    /\ agreed' = [agreed EXCEPT ![p] = IF q \in Traders \ Borrowers
                                         THEN Contents(tradeItem[q]) ELSE {}]
    /\ UNCHANGED <<online, pos, loc, tradePartner, tradeItem, tradeItems, down, offered>>

\* No line of sight, a veto of onTradeAccept, or one of the tests of both
\* additions and removals: nothing is moved.  A missing counter-offer is
\* refused by the test of its addition.
AcceptFails(p) ==
    /\ MayAccept(p)
    /\ HasAccepted(tradePartner[p])
    /\ CloseTrades({p})
    /\ UNCHANGED <<online, pos, loc, down>>

\* The player wears its offer, as a backpack.
OffersBackpack(p) == tradeItem[p] \in Bags /\ loc[tradeItem[p]] = p

\* Both have accepted, but only one has made an offer, the backpack it wears:
\* whether the other has room for it is asked of the counter-offer, which is null.
AcceptCrashes(p) ==
    LET q == tradePartner[p] IN
    /\ MayAccept(p)
    /\ HasAccepted(q)
    /\ \/ tradeItem[p] = Nobody /\ OffersBackpack(q)
       \/ tradeItem[q] = Nobody /\ OffersBackpack(p)
    /\ down' = TRUE
    /\ UNCHANGED <<online, pos, loc, tradeVars>>

\* Where the receiver of an item has room for it.  The tests accept a place
\* on top of a stack; the moves, made with FLAG_IGNOREAUTOSTACK, do not.
Rooms == {"slot", "stack"}

ForgetRegistryMutant(p, moved) ==
    /\ tradeState' = [tradeState EXCEPT ![p] = "none", ![tradePartner[p]] = "none"]
    /\ tradePartner' = [tradePartner EXCEPT ![p] = Nobody, ![tradePartner[p]] = Nobody]
    /\ tradeItem' = [tradeItem EXCEPT ![p] = Nobody, ![tradePartner[p]] = Nobody]
    /\ offered' = [offered EXCEPT ![p] = {}, ![tradePartner[p]] = {}]
    /\ agreed' = [agreed EXCEPT ![p] = {}, ![tradePartner[p]] = {}]
    /\ UNCHANGED tradeItems

\* The end of playerAcceptTrade.  While both are in TRADE_TRANSFER the hooks
\* spare them, but not the bystanders whose trade a moved item closes.
EndTrade(p, moved) ==
    CloseTrades({p} \cup ((UNION {ClosedByRemoval(i) : i \in moved})
                            \ {p, tradePartner[p]}))

\* Both have accepted.  The offer of p goes first; when it has gone, the
\* result of the second move is not looked at.
Transfer(p, roomQ, roomP) ==
    LET q == tradePartner[p]
        a == tradeItem[p]
        b == tradeItem[q]
    IN
    /\ MayAccept(p)
    /\ HasAccepted(q)
    /\ a # Nobody /\ b # Nobody
    /\ roomQ \in Rooms /\ roomP \in Rooms
    /\ \/ roomQ = "stack" /\ UNCHANGED loc /\ EndTrade(p, {})
       \/ /\ roomQ = "slot" /\ roomP = "slot"
          /\ loc' = [loc EXCEPT ![a] = q, ![b] = p]
          /\ EndTrade(p, {a, b})
       \/ /\ roomQ = "slot" /\ roomP = "stack"
          /\ loc' = [loc EXCEPT ![a] = q]
          /\ EndTrade(p, {a})
    /\ UNCHANGED <<online, pos, down>>

CloseTrade(p) ==
    /\ p \in online
    /\ tradePartner[p] # Nobody
    /\ CloseTrades({p})
    /\ UNCHANGED <<online, pos, loc, down>>

-----------------------------------------------------------------------------
(* What else the players do.                                                *)

ForgetPartnerMutant(p, x) ==
    tradeItem[p] # Nobody /\ ~Near(IF Root(tradeItem[p]) = p THEN x ELSE Position(tradeItem[p]), x, 1)

\* onCreatureMove of the player who moves: its offer must stay within one
\* square and its partner within two.  What it carries moves along.
LeavesTrade(p, x) ==
    \/ /\ tradeItem[p] # Nobody
       /\ Root(tradeItem[p]) # p
       /\ ~Near(Position(tradeItem[p]), x, 1)
    \/ /\ tradePartner[p] # Nobody
       /\ ~Near(pos[tradePartner[p]], x, 2)

Walk(p, x) ==
    /\ p \in online
    /\ x \in Places \ {pos[p]}
    /\ pos' = [pos EXCEPT ![p] = x]
    /\ IF LeavesTrade(p, x) THEN CloseTrades({p}) ELSE UNCHANGED tradeVars
    /\ UNCHANGED <<online, loc, down>>

\* A player moves an item it can reach to its inventory, to a tile near it or
\* into a container near it (internalMoveItem, with its notifications).
MoveItem(p) ==
    /\ p \in online
    /\ \E i \in Reach(p), dest \in {p} \cup Places \cup Bags :
          /\ loc[i] # dest
          /\ dest \in Places => Near(dest, pos[p], 1)
          /\ dest \in Bags =>
                /\ dest \notin Contents(i)
                /\ Near(Position(dest), pos[p], 1)
                /\ Root(dest) \in Places \cup online
          /\ loc' = [loc EXCEPT ![i] = dest]
          /\ CloseTrades(ClosedByRemoval(i) \cup ClosedByAddition(dest))
    /\ UNCHANGED <<online, pos, down>>

\* onRemoveCreature closes the trade of a player who leaves the game.
Logout(p) ==
    /\ p \in online
    /\ online' = online \ {p}
    /\ CloseTrades(IF tradePartner[p] # Nobody THEN {p} ELSE {})
    /\ UNCHANGED <<pos, loc, down>>

Login(p) ==
    /\ p \notin online
    /\ online' = online \cup {p}
    /\ UNCHANGED <<pos, loc, tradeVars, down>>

Next ==
    ~down /\ \E p \in Players :
        \/ \E q \in Players : RequestTrade(p, q)
        \/ AcceptFirst(p)
        \/ AcceptFails(p)
        \/ AcceptCrashes(p)
        \/ \E roomQ, roomP \in Rooms : Transfer(p, roomQ, roomP)
        \/ CloseTrade(p)
        \/ \E x \in Places : Walk(p, x)
        \/ MoveItem(p)
        \/ Logout(p)
        \/ Login(p)

Spec == Init /\ [][Next]_vars

-----------------------------------------------------------------------------
TypeOK ==
    /\ online \subseteq Players
    /\ pos \in [Players -> Places]
    /\ loc \in [Items -> Players \cup Places \cup Bags]
    /\ tradeState \in [Players -> States]
    /\ tradePartner \in [Players -> Players \cup {Nobody}]
    /\ tradeItem \in [Players -> Items \cup {Nobody}]
    /\ tradeItems \in [Items -> Players \cup {Nobody}]
    /\ down \in BOOLEAN
    /\ offered \in [Players -> SUBSET Items]
    /\ agreed \in [Players -> SUBSET Items]

\* A trade always has two sides that know each other, both of them in the
\* game; whoever is not trading has no partner and offers nothing; and one of
\* the two sides has made an offer.
PartnersMutual ==
    \A p \in Players :
        LET q == tradePartner[p] IN
        /\ tradeState[p] = "none" <=> q = Nobody
        /\ q = Nobody => tradeItem[p] = Nobody
        /\ q # Nobody =>
              /\ q # p
              /\ tradePartner[q] = p
              /\ {p, q} \subseteq online
              /\ tradeItem[p] # Nobody \/ tradeItem[q] # Nobody
              /\ tradeState[p] = "initiated" => tradeItem[p] # Nobody
              /\ tradeState[p] = "acknowledge" => tradeItem[p] = Nobody
              /\ ~(tradeState[p] = "accept" /\ tradeState[q] = "accept")

\* The registry that keeps an item out of a second trade is exact, however a
\* trade ends: an entry that stayed behind would make an item untradable, a
\* missing one would let it be sold twice.
RegistryExact ==
    \A i \in Items, p \in Players : tradeItems[i] = p <=> tradeItem[p] = i

\* A trade is known to its two players and to the registry, or to nobody.
TwoSided == PartnersMutual /\ RegistryExact

\* Two offers never contain one another, unless third players carried both when
\* they were made.
OffersApart ==
    \A p, q \in Traders :
        p # q /\ tradeItem[q] \in Contents(tradeItem[p]) => {p, q} \subseteq Borrowers

\* An offer, at every depth of its containers, is what it was when it was
\* made: whatever was put in or taken out closed the trade, even by somebody
\* else, through a container the partner cannot see.  Not so an offer that lay
\* with a third player: that player walks off with it, and then the hooks, which
\* go to the players next to the container, miss the trader.
OfferUnchanged ==
    \A p \in Traders \ Borrowers : Contents(tradeItem[p]) = offered[p]

\* What is offered stays what it was.
OffersKept == OffersApart /\ OfferUnchanged

\* The partners stay near although both move, and so does a trader to its
\* offer, unless a third player carried it: the hooks only look at the player
\* who moves.
TradersNear ==
    /\ \A p \in Players : tradePartner[p] # Nobody => Near(pos[p], pos[tradePartner[p]], 2)
    /\ \A p \in Traders \ Borrowers : Near(Position(tradeItem[p]), pos[p], 1)

\* No bait and switch: once a player has accepted an offer, the partner still
\* offers that very item, with the very contents, whatever is requested, moved,
\* put in or taken out by anybody until the trade is carried out or closed.
AcceptedOfferStands ==
    \A p \in Players :
        LET q == tradePartner[p] IN
        agreed[p] # {} =>
            /\ tradeState[p] = "accept"
            /\ q \in Traders
            /\ Contents(tradeItem[q]) = agreed[p]

=============================================================================
