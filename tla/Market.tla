------------------------------- MODULE Market -------------------------------
(***************************************************************************)
(* The market of game.cpp and iomarket.cpp.  An offer takes its goods from *)
(* the player when it is made and keeps them in the database until it is   *)
(* accepted, cancelled or expired.  The handlers run on the game thread and*)
(* query the database as they go; only the search for expired offers is    *)
(* left to the database worker, whose answer comes back as a task of the   *)
(* game thread, and may be out of date by then.                            *)
(*                                                                         *)
(* There is one kind of item.  A player's coins are the cash and the bank  *)
(* balance together, the items those in the depot and the inbox; a player  *)
(* who is offline has them in the database, where payments reach them too. *)
(***************************************************************************)
EXTENDS Naturals, Sequences, FiniteSets, Functions

CONSTANTS Players, Account,   \* Account[p]: whose character p is
          Coins, Items,       \* what each player has at the start
          Prices, MaxAmount,  \* what the handlers let through
          MinFee, MaxFee,     \* 20 and 1000 in the code
          MaxOffers,          \* max_offers_per_player, 0 for no limit
          MaxId,              \* bound on the offers made
          MaxChecks           \* bound on the checks under way

ASSUME MarketAssumption ==
    /\ IsFiniteSet(Players)
    /\ {Coins, Items, MaxOffers, MinFee, MaxFee, MaxAmount, MaxId} \subseteq Nat
    /\ MinFee <= MaxFee /\ Prices \subseteq Nat \ {0} /\ MaxChecks \in Nat \ {0}

VARIABLES
    coins, items,        \* per player
    online, inMarket,    \* players
    offers,              \* the table market_offers
    recorded,            \* per offer, the units in the rows for market_history that
                         \* the database worker has been given
    fees,                \* what the market has kept
    asked,               \* checks that wait for the worker
    answers,             \* their rows, as tasks of the game thread
    down                 \* the server has crashed
VARIABLES
    made,                \* history: per offer, its amount when it was made
    raced                \* history: an offer that is in an answer has been accepted in part

goods == <<coins, items>>
checks == <<asked, answers>>
vars == <<goods, online, inMarket, offers, recorded, fees, checks, down, made, raced>>

Ids == 1 .. MaxId
Amounts == 1 .. MaxAmount
Offer == [id : Ids, owner : Players, sale : BOOLEAN, amount : Amounts, price : Prices,
          due : BOOLEAN]

\* What an offer holds: units to sell, or the coins for what it buys.
Units == [o \in Offer |-> o.amount]
Cost == [o \in Offer |-> o.price * o.amount]

Sales(os) == {o \in os : o.sale}
Purchases(os) == {o \in os : ~o.sale}
Of(p, os) == {o \in os : o.owner = p}
WithId(i, os) == {o \in os : o.id = i}

Init ==
    /\ coins = [p \in Players |-> Coins] /\ items = [p \in Players |-> Items]
    /\ online = {} /\ inMarket = {} /\ offers = {} /\ fees = 0
    /\ recorded = [i \in Ids |-> 0] /\ made = <<>>
    /\ asked = 0 /\ answers = <<>> /\ down = FALSE /\ raced = FALSE

Login(p) ==
    /\ ~down /\ p \notin online /\ online' = online \cup {p}
    /\ UNCHANGED <<goods, inMarket, offers, recorded, fees, checks, down, made, raced>>

Logout(p) ==
    /\ ~down /\ p \in online /\ online' = online \ {p} /\ inMarket' = inMarket \ {p}
    /\ UNCHANGED <<goods, offers, recorded, fees, checks, down, made, raced>>

EnterMarket(p) ==
    /\ ~down /\ p \in online \ inMarket /\ inMarket' = inMarket \cup {p}
    /\ UNCHANGED <<goods, online, offers, recorded, fees, checks, down, made, raced>>

LeaveMarket(p) ==
    /\ ~down /\ p \in inMarket /\ inMarket' = inMarket \ {p}
    /\ UNCHANGED <<goods, online, offers, recorded, fees, checks, down, made, raced>>

(***************************************************************************)
(* The three handlers of a player in the market.                           *)
(***************************************************************************)
\* The code divides in floating point and cuts off, which may take one less.
Fee(price, amount) ==
    LET fee == (price * amount) \div 100
    IN  CASE fee < MinFee -> MinFee [] fee > MaxFee -> MaxFee [] OTHER -> fee

CreateUncheckedMutant(p, sale, amount, price) ==
    LET fee == Fee(price, amount)
        cost == fee + (IF sale THEN 0 ELSE price * amount)
    IN  /\ ~down /\ p \in inMarket /\ Len(made) < MaxId
        /\ MaxOffers # 0 => Cardinality(Of(p, offers)) < MaxOffers
        /\ cost <= coins[p]
        /\ coins' = [coins EXCEPT ![p] = @ - cost]
        /\ items' = [items EXCEPT ![p] = IF sale THEN @ - amount ELSE @]
        /\ fees' = fees + fee
        /\ made' = Append(made, amount)
        /\ offers' = offers \cup {[id |-> Len(made'), owner |-> p, sale |-> sale,
                                   amount |-> amount, price |-> price, due |-> FALSE]}
        /\ UNCHANGED <<online, inMarket, recorded, checks, down, raced>>
PlayerCreateMarketOffer(p, sale, amount, price) ==
    LET fee == Fee(price, amount)
        cost == fee + (IF sale THEN 0 ELSE price * amount)
    IN  /\ ~down /\ p \in inMarket /\ Len(made) < MaxId
        /\ MaxOffers # 0 => Cardinality(Of(p, offers)) < MaxOffers
        /\ cost <= coins[p]
        /\ sale => items[p] >= amount
        /\ coins' = [coins EXCEPT ![p] = @ - cost]
        /\ items' = [items EXCEPT ![p] = IF sale THEN @ - amount ELSE @]
        /\ fees' = fees + fee
        /\ made' = Append(made, amount)
        /\ offers' = offers \cup {[id |-> Len(made'), owner |-> p, sale |-> sale,
                                   amount |-> amount, price |-> price, due |-> FALSE]}
        /\ UNCHANGED <<online, inMarket, recorded, checks, down, raced>>

\* Offers end up in the history with the amount they have in the table; the row
\* of the table is deleted at once, that of the history is handed to the worker.
MoveToHistory(os) ==
    /\ offers' = offers \ os
    /\ recorded' = [i \in Ids |-> recorded[i] + SumFunctionOnSet(Units, WithId(i, os))]

\* What the owners of some offers, or rows of offers, get back.
CoinsBack(p, os) == SumFunctionOnSet(Cost, Of(p, Purchases(os)))
ItemsBack(p, os) == SumFunctionOnSet(Units, Of(p, Sales(os)))
GiveBack(os) ==
    /\ coins' = [p \in Players |-> coins[p] + CoinsBack(p, os)]
    /\ items' = [p \in Players |-> items[p] + ItemsBack(p, os)]

PlayerCancelMarketOffer(p, o) ==
    /\ ~down /\ p \in inMarket /\ o.owner = p
    /\ GiveBack({o}) /\ MoveToHistory({o})
    /\ UNCHANGED <<online, inMarket, fees, checks, down, made, raced>>

InAnswer(o) == \E i \in DOMAIN answers : \E row \in answers[i] : row.id = o.id

\* The table and the history after n units of an offer have been accepted.
AcceptedWholeMutant(o, n) ==
    /\ offers' = (offers \ {o}) \cup
           (IF n = o.amount THEN {} ELSE {o})
    /\ recorded' = [recorded EXCEPT ![o.id] = @ + n]
    /\ raced' = (raced \/ (n < o.amount /\ InAnswer(o)))
Accepted(o, n) ==
    /\ offers' = (offers \ {o}) \cup
           (IF n = o.amount THEN {} ELSE {[o EXCEPT !.amount = @ - n]})
    /\ recorded' = [recorded EXCEPT ![o.id] = @ + n]
    /\ raced' = (raced \/ (n < o.amount /\ InAnswer(o)))

MayAccept(p, o, n) ==
    /\ ~down /\ p \in inMarket /\ Account[o.owner] # Account[p] /\ n <= o.amount

PlayerAcceptSale(p, o, n) ==
    LET price == o.price * n
    IN  /\ MayAccept(p, o, n) /\ o.sale /\ coins[p] >= price
        /\ coins' = [coins EXCEPT ![p] = @ - price, ![o.owner] = @ + price]
        /\ items' = [items EXCEPT ![p] = @ + n]
        /\ Accepted(o, n)
        /\ UNCHANGED <<online, inMarket, fees, checks, down, made>>

\* The items that the acceptor gives are put into the acceptor's own inbox.
PlayerAcceptPurchase(p, o, n) ==
    /\ MayAccept(p, o, n) /\ ~o.sale /\ items[p] >= n /\ o.owner \in online
    /\ coins' = [coins EXCEPT ![p] = @ + o.price * n]
    /\ Accepted(o, n)
    /\ UNCHANGED <<items, online, inMarket, fees, checks, down, made>>

\* An owner who is offline is loaded through a null pointer.
PlayerAcceptOffline(p, o, n) ==
    /\ MayAccept(p, o, n) /\ ~o.sale /\ items[p] >= n /\ o.owner \notin online
    /\ down' = TRUE
    /\ UNCHANGED <<goods, online, inMarket, offers, recorded, fees, checks, made, raced>>

(***************************************************************************)
(* Expiry.                                                                 *)
(***************************************************************************)
Due(o) ==
    /\ ~down /\ ~o.due /\ offers' = (offers \ {o}) \cup {[o EXCEPT !.due = TRUE]}
    /\ UNCHANGED <<goods, online, inMarket, recorded, fees, checks, down, made, raced>>

CheckExpiredOffers ==
    /\ ~down /\ asked + Len(answers) < MaxChecks /\ asked' = asked + 1
    /\ UNCHANGED <<goods, online, inMarket, offers, recorded, fees, answers, down, made, raced>>

\* The database worker runs the query and posts its rows.
SelectFreshMutant ==
    /\ ~down /\ asked > 0 /\ asked' = asked - 1
    /\ answers' = Append(answers, {o \in offers : ~o.due})
    /\ UNCHANGED <<goods, online, inMarket, offers, recorded, fees, down, made, raced>>
SelectExpired ==
    /\ ~down /\ asked > 0 /\ asked' = asked - 1
    /\ answers' = Append(answers, {o \in offers : o.due})
    /\ UNCHANGED <<goods, online, inMarket, offers, recorded, fees, down, made, raced>>

\* moveOfferToHistory reads the row again and refuses when it is gone, but the
\* owner gets the amount of the answer.
ProcessAllMutant ==
    /\ ~down /\ answers # <<>> /\ answers' = Tail(answers)
    /\ GiveBack(Head(answers))
    /\ MoveToHistory({o \in offers : \E row \in Head(answers) : row.id = o.id})
    /\ UNCHANGED <<online, inMarket, fees, asked, down, made, raced>>
ProcessExpiredOffers ==
    LET rows == Head(answers)
        live == {o \in offers : \E row \in rows : row.id = o.id}
    IN  /\ ~down /\ answers # <<>> /\ answers' = Tail(answers)
        /\ GiveBack({row \in rows : \E o \in live : row.id = o.id})
        /\ MoveToHistory(live)
        /\ UNCHANGED <<online, inMarket, fees, asked, down, made, raced>>

Next ==
    \/ \E p \in Players : Login(p) \/ Logout(p) \/ EnterMarket(p) \/ LeaveMarket(p)
    \/ \E p \in Players, sale \in BOOLEAN, n \in Amounts, price \in Prices :
           PlayerCreateMarketOffer(p, sale, n, price)
    \/ \E p \in Players, o \in offers : PlayerCancelMarketOffer(p, o)
    \/ \E p \in Players, o \in offers, n \in Amounts :
           \/ PlayerAcceptSale(p, o, n)
           \/ PlayerAcceptPurchase(p, o, n)
           \/ PlayerAcceptOffline(p, o, n)
    \/ \E o \in offers : Due(o)
    \/ CheckExpiredOffers \/ SelectExpired \/ ProcessExpiredOffers

\* The check is an event that asks for itself again; the worker and the game
\* thread run what they have been given.
Fairness ==
    WF_vars(CheckExpiredOffers) /\ WF_vars(SelectExpired) /\ WF_vars(ProcessExpiredOffers)
Spec == Init /\ [][Next]_vars /\ Fairness

-----------------------------------------------------------------------------
\* The types, and no player is ever in debt.
TypeOK ==
    /\ {coins, items} \subseteq [Players -> Nat]
    /\ inMarket \subseteq online /\ online \subseteq Players
    /\ offers \subseteq Offer /\ recorded \in [Ids -> Nat] /\ made \in Seq(Amounts)
    /\ fees \in Nat /\ asked \in Nat /\ answers \in Seq(SUBSET Offer)
    /\ {down, raced} \subseteq BOOLEAN

\* Every unit that an offer was made for is in the market or in the history,
\* once: no order of accepting in part, cancelling and expiring, twice if two
\* checks overlap, records one twice or forgets one.
HistoryAccounts ==
    \A i \in DOMAIN made :
        made[i] = recorded[i] + SumFunctionOnSet(Units, WithId(i, offers))

AllCoins == SumFunctionOnSet(coins, Players) + fees + SumFunctionOnSet(Cost, Purchases(offers))
AllItems == SumFunctionOnSet(items, Players) + SumFunctionOnSet(Units, Sales(offers))
AtFirst(n) == n * Cardinality(Players)

\* The market loses no coin and no item, and makes none up, whoever is offline;
\* but for the race that processExpiredOffers leaves open: an offer that has
\* been accepted in part since the worker's answer is paid back in full.
GoodsKept ==
    /\ AllCoins >= AtFirst(Coins) /\ AllItems >= AtFirst(Items)
    /\ ~raced => AllCoins = AtFirst(Coins) /\ AllItems = AtFirst(Items)

\* An offer that has expired is settled in the end.
ExpiredSettles ==
    \A i \in Ids : (\E o \in offers : o.id = i /\ o.due) ~> (down \/ ~\E o \in offers : o.id = i)
=============================================================================
