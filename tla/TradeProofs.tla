----------------------------- MODULE TradeProofs -----------------------------
(***************************************************************************)
(* Theorems about Trade, for any number of players, items and places.      *)
(* The first part is about who trades with whom: what the hooks close does *)
(* not matter there, whatever set of trades an event closes, it closes     *)
(* both sides of each.  The second is about the tree of items, by          *)
(* induction over its order.  The third is about the offers, where it does *)
(* matter that the hooks close every trade an event disturbs.  The fourth  *)
(* is about what a player has agreed to take.                              *)
(***************************************************************************)
EXTENDS Trade, TLAPS

TradeInv == TypeOK /\ PartnersMutual /\ RegistryExact

\* What may change beside the trades themselves.
Elsewhere ==
    /\ online' \subseteq Players
    /\ pos' \in [Players -> Places]
    /\ loc' \in [Items -> Players \cup Places \cup Bags]
    /\ down' \in BOOLEAN

LEMMA TradeInit == Init => TradeInv
  <1> SUFFICES ASSUME Init PROVE TradeInv
    OBVIOUS
  <1> USE TradeAssumption DEF Init
  <1>1. TypeOK
    BY DEF TypeOK, States
  <1>2. PartnersMutual /\ RegistryExact
    BY DEF PartnersMutual, RegistryExact
  <1> QED  BY <1>1, <1>2 DEF TradeInv

LEMMA PartnersType ==
  ASSUME TypeOK, NEW C \in SUBSET Players
  PROVE  WithPartners(C) \subseteq Players
  BY DEF TypeOK, WithPartners

\* Both sides of a trade are in the set of those that are reset, or none.
LEMMA BothSides ==
  ASSUME TypeOK, PartnersMutual, NEW C \in SUBSET Players,
         NEW p \in Players, tradePartner[p] # Nobody
  PROVE  p \in WithPartners(C) <=> tradePartner[p] \in WithPartners(C)
  <1>1. tradePartner[p] \in Players /\ tradePartner[tradePartner[p]] = p
    BY DEF TypeOK, PartnersMutual
  <1>2. ASSUME NEW q \in WithPartners(C), q \in Players, tradePartner[q] # Nobody
        PROVE  tradePartner[q] \in WithPartners(C)
    <2>1. CASE q \in C
      BY <1>2, <2>1 DEF WithPartners
    <2>2. CASE q \notin C
      <3>1. PICK c \in C : tradePartner[c] = q
        BY <1>2, <2>2 DEF WithPartners
      <3>2. tradePartner[q] = c
        BY <1>2, <3>1, TradeAssumption DEF PartnersMutual, TypeOK
      <3> QED  BY <3>1, <3>2 DEF WithPartners
    <2> QED  BY <2>1, <2>2
  <1>3. p # Nobody
    BY TradeAssumption
  <1> QED  BY <1>1, <1>2, <1>3

LEMMA CloseStep ==
  ASSUME TradeInv, Elsewhere, NEW C \in SUBSET Players, CloseTrades(C),
         \A p \in Players \ online' : p \notin online \/ tradePartner[p] = Nobody
                                      \/ p \in WithPartners(C)
  PROVE  TradeInv'
  <1> DEFINE R == WithPartners(C)
  <1> USE TradeAssumption DEF TradeInv, TypeOK, States
  <1>1. R \subseteq Players
    BY PartnersType
  <1>2. /\ tradeState' = [p \in Players |-> IF p \in R THEN "none" ELSE tradeState[p]]
        /\ tradePartner' = [p \in Players |-> IF p \in R THEN Nobody ELSE tradePartner[p]]
        /\ tradeItem' = [p \in Players |-> IF p \in R THEN Nobody ELSE tradeItem[p]]
        /\ tradeItems' = [i \in Items |->
               IF \E p \in R : tradeItem[p] = i THEN Nobody ELSE tradeItems[i]]
        /\ offered' = [p \in Players |-> IF p \in R THEN {} ELSE offered[p]]
        /\ agreed' = [p \in Players |-> IF p \in R THEN {} ELSE agreed[p]]
    BY DEF CloseTrades
  <1> HIDE DEF R
  <1>3. TypeOK'
    BY <1>2 DEF Elsewhere
  <1>4. ASSUME NEW p \in Players, p \notin R, tradePartner[p] # Nobody
        PROVE  /\ tradePartner[p] \notin R
               /\ {p, tradePartner[p]} \subseteq online'
    <2>1. tradePartner[p] \notin R
      BY <1>4, BothSides DEF R
    <2>2. /\ {p, tradePartner[p]} \subseteq online
          /\ tradePartner[p] \in Players
          /\ tradePartner[tradePartner[p]] = p
      BY <1>4 DEF PartnersMutual
    <2> QED  BY <1>4, <2>1, <2>2 DEF R
  <1>5. PartnersMutual'
    <2> SUFFICES ASSUME NEW p \in Players
                 PROVE  LET q == tradePartner'[p] IN
                        /\ tradeState'[p] = "none" <=> q = Nobody
                        /\ q = Nobody => tradeItem'[p] = Nobody
                        /\ q # Nobody =>
                              /\ q # p
                              /\ tradePartner'[q] = p
                              /\ {p, q} \subseteq online'
                              /\ tradeItem'[p] # Nobody \/ tradeItem'[q] # Nobody
                              /\ tradeState'[p] = "initiated" => tradeItem'[p] # Nobody
                              /\ tradeState'[p] = "acknowledge" => tradeItem'[p] = Nobody
                              /\ ~(tradeState'[p] = "accept" /\ tradeState'[q] = "accept")
      BY DEF PartnersMutual
    <2>1. CASE p \in R
      BY <1>2, <2>1
    <2>2. CASE p \notin R /\ tradePartner[p] = Nobody
      BY <1>2, <2>2 DEF PartnersMutual
    <2>3. CASE p \notin R /\ tradePartner[p] # Nobody
      <3>1. tradePartner[p] \in Players \ R
        BY <1>4, <2>3
      <3> QED  BY <1>2, <1>4, <2>3, <3>1 DEF PartnersMutual
    <2> QED  BY <2>1, <2>2, <2>3
  <1>6. RegistryExact'
    <2> SUFFICES ASSUME NEW i \in Items, NEW p \in Players
                 PROVE  tradeItems'[i] = p <=> tradeItem'[p] = i
      BY DEF RegistryExact
    <2>1. CASE p \in R
      BY <1>2, <2>1 DEF RegistryExact
    <2>2. CASE p \notin R
      BY <1>1, <1>2, <2>2 DEF RegistryExact
    <2> QED  BY <2>1, <2>2
  <1> QED  BY <1>3, <1>5, <1>6

LEMMA ClosedByRemovalType == \A i : ClosedByRemoval(i) \in SUBSET Players
  BY DEF ClosedByRemoval, Traders

LEMMA ClosedByAdditionType == \A c : ClosedByAddition(c) \in SUBSET Players
  BY DEF ClosedByAddition, Traders

\* A request, with the item that is offered.
Requests(p, q, i) ==
    /\ p # q /\ p \in online /\ q \in online /\ Near(pos[p], pos[q], 2)
    /\ MayStart(p, q)
    /\ Reachable(p, i)
    /\ ~AlreadyTraded(i)
    /\ tradePartner' = [tradePartner EXCEPT ![p] = q,
                                            ![q] = IF tradeState[q] = "none" THEN p ELSE @]
    /\ tradeItem' = [tradeItem EXCEPT ![p] = i]
    /\ tradeState' = [tradeState EXCEPT ![p] = "initiated",
                                        ![q] = IF @ = "none" THEN "acknowledge" ELSE @]
    /\ tradeItems' = [tradeItems EXCEPT ![i] = p]
    /\ offered' = [offered EXCEPT ![p] =
                      IF Root(i) \in Players \ {p} THEN {} ELSE Contents(i)]
    /\ UNCHANGED <<online, pos, loc, down, agreed>>

LEMMA RequestOf ==
  ASSUME NEW p, NEW q, RequestTrade(p, q)
  PROVE  \E i \in Items : Requests(p, q, i)
  BY DEF RequestTrade, Requests, Reach

LEMMA RequestStep ==
  ASSUME TradeInv, NEW p \in Players, NEW q \in Players, NEW i \in Items,
         Requests(p, q, i)
  PROVE  TradeInv'
  <1> USE TradeAssumption DEF TradeInv, TypeOK, States
  <1>1. /\ p # q /\ p \in online /\ q \in online
        /\ UNCHANGED <<online, pos, loc, down, agreed>>
        /\ tradePartner' = [tradePartner EXCEPT ![p] = q,
                                                ![q] = IF tradeState[q] = "none" THEN p ELSE @]
        /\ tradeItem' = [tradeItem EXCEPT ![p] = i]
        /\ tradeState' = [tradeState EXCEPT ![p] = "initiated",
                                            ![q] = IF @ = "none" THEN "acknowledge" ELSE @]
        /\ tradeItems' = [tradeItems EXCEPT ![i] = p]
        /\ offered' = [offered EXCEPT ![p] =
                          IF Root(i) \in Players \ {p} THEN {} ELSE Contents(i)]
    BY DEF Requests
  <1>2. tradeItems[i] = Nobody
    BY DEF Requests, AlreadyTraded
  <1>3. tradeState[p] = "none" \/ (tradeState[p] = "acknowledge" /\ tradePartner[p] = q)
    BY DEF Requests, MayStart
  <1>4. tradeState[q] = "none" \/ tradePartner[q] = p
    BY DEF Requests, MayStart
  <1>5. tradeItem[p] = Nobody
    BY <1>3 DEF PartnersMutual
  <1>6. Contents(i) \subseteq Items
    BY DEF Contents
  <1>7. TypeOK'
    BY <1>1, <1>6
  <1>8. /\ tradePartner'[p] = q /\ tradePartner'[q] = p
        /\ tradeItem'[p] = i /\ tradeItem'[q] = tradeItem[q]
        /\ tradeState'[p] = "initiated"
        /\ tradeState'[q] = IF tradeState[q] = "none" THEN "acknowledge" ELSE tradeState[q]
    BY <1>1, <1>4
  <1>9. \A r \in Players \ {p, q} :
          /\ tradePartner'[r] = tradePartner[r]
          /\ tradeItem'[r] = tradeItem[r]
          /\ tradeState'[r] = tradeState[r]
          /\ tradePartner[r] \notin {p, q}
    BY <1>1, <1>3, <1>4 DEF PartnersMutual
  <1>10. tradeState[q] = "none" => tradeItem[q] = Nobody
    BY DEF PartnersMutual
  <1>11. PartnersMutual'
    <2> SUFFICES ASSUME NEW r \in Players
                 PROVE  LET s == tradePartner'[r] IN
                        /\ tradeState'[r] = "none" <=> s = Nobody
                        /\ s = Nobody => tradeItem'[r] = Nobody
                        /\ s # Nobody =>
                              /\ s # r
                              /\ tradePartner'[s] = r
                              /\ {r, s} \subseteq online'
                              /\ tradeItem'[r] # Nobody \/ tradeItem'[s] # Nobody
                              /\ tradeState'[r] = "initiated" => tradeItem'[r] # Nobody
                              /\ tradeState'[r] = "acknowledge" => tradeItem'[r] = Nobody
                              /\ ~(tradeState'[r] = "accept" /\ tradeState'[s] = "accept")
      BY DEF PartnersMutual
    <2>1. CASE r = p
      BY <1>1, <1>8, <2>1
    <2>2. CASE r = q
      BY <1>1, <1>8, <1>10, <2>2 DEF PartnersMutual
    <2>3. CASE r \notin {p, q} /\ tradePartner[r] = Nobody
      BY <1>9, <2>3 DEF PartnersMutual
    <2>4. CASE r \notin {p, q} /\ tradePartner[r] # Nobody
      <3>1. tradePartner[r] \in Players \ {p, q}
        BY <1>9, <2>4
      <3> QED  BY <1>1, <1>9, <2>4, <3>1 DEF PartnersMutual
    <2> QED  BY <2>1, <2>2, <2>3, <2>4
  <1>12. RegistryExact'
    <2> SUFFICES ASSUME NEW j \in Items, NEW r \in Players
                 PROVE  tradeItems'[j] = r <=> tradeItem'[r] = j
      BY DEF RegistryExact
    <2> QED  BY <1>1, <1>2, <1>5 DEF RegistryExact
  <1> QED  BY <1>7, <1>11, <1>12

LEMMA AcceptFirstStep ==
  ASSUME TradeInv, NEW p \in Players, AcceptFirst(p)
  PROVE  TradeInv'
  <1> USE TradeAssumption DEF TradeInv, TypeOK, States
  <1>1. /\ tradeState[p] # "none"
        /\ tradePartner[p] \in Players
        /\ tradeState[tradePartner[p]] # "accept"
        /\ tradeState' = [tradeState EXCEPT ![p] = "accept"]
        /\ UNCHANGED <<online, pos, loc, tradePartner, tradeItem, tradeItems, down, offered>>
    BY DEF AcceptFirst, MayAccept, HasAccepted
  <1> DEFINE q == tradePartner[p]
             S == IF q \in Traders \ Borrowers THEN Contents(tradeItem[q]) ELSE {}
  <1>2. agreed' = [agreed EXCEPT ![p] = S]
    BY DEF AcceptFirst
  <1>3. S \in SUBSET Items
    <2>1. CASE q \in Traders \ Borrowers
      BY <2>1 DEF Contents, Traders
    <2> QED  BY <2>1
  <1> HIDE DEF S
  <1>4. TypeOK' /\ RegistryExact'
    BY <1>1, <1>2, <1>3 DEF RegistryExact
  <1>5. PartnersMutual'
    BY <1>1 DEF PartnersMutual
  <1> QED  BY <1>4, <1>5

LEMMA TradeStep == TradeInv /\ [Next]_vars => TradeInv'
  <1> SUFFICES ASSUME TradeInv, [Next]_vars PROVE TradeInv'
    OBVIOUS
  <1> USE TradeAssumption
  <1>1. ASSUME NEW p \in Players, NEW q \in Players, RequestTrade(p, q)
        PROVE  TradeInv'
    BY <1>1, RequestOf, RequestStep
  <1>2. ASSUME NEW p \in Players, AcceptFirst(p) PROVE TradeInv'
    BY <1>2, AcceptFirstStep
  <1>3. ASSUME NEW C \in SUBSET Players, CloseTrades(C), Elsewhere, online' = online
        PROVE  TradeInv'
    <2>1. \A p \in Players \ online' : p \notin online
      BY <1>3
    <2> QED  BY <1>3, <2>1, CloseStep
  <1>4. ASSUME NEW p \in Players, AcceptFails(p) \/ CloseTrade(p) PROVE TradeInv'
    <2>1. CloseTrades({p}) /\ Elsewhere /\ online' = online
      BY <1>4 DEF AcceptFails, CloseTrade, Elsewhere, TradeInv, TypeOK
    <2> QED  BY <1>3, <2>1
  <1>5. ASSUME NEW p \in Players, NEW moved, EndTrade(p, moved), Elsewhere, online' = online
        PROVE  TradeInv'
    <2> DEFINE C == {p} \cup ((UNION {ClosedByRemoval(i) : i \in moved}) \ {p, tradePartner[p]})
    <2>1. C \in SUBSET Players
      BY ClosedByRemovalType
    <2>2. CloseTrades(C)
      BY <1>5 DEF EndTrade
    <2> QED  BY <1>3, <1>5, <2>1, <2>2
  <1>6. ASSUME NEW p \in Players, NEW roomQ, NEW roomP, Transfer(p, roomQ, roomP)
        PROVE  TradeInv'
    <2>1. tradePartner[p] \in Players
      BY <1>6 DEF Transfer, MayAccept, TradeInv, TypeOK
    <2>2. Elsewhere /\ online' = online
      BY <1>6, <2>1 DEF Transfer, Elsewhere, TradeInv, TypeOK
    <2>3. \E moved : EndTrade(p, moved)
      BY <1>6 DEF Transfer
    <2> QED  BY <1>5, <2>2, <2>3
  <1>7. ASSUME UNCHANGED tradeVars, UNCHANGED online, Elsewhere PROVE TradeInv'
    BY <1>7 DEF TradeInv, TypeOK, PartnersMutual, RegistryExact, tradeVars, Elsewhere
  <1>8. ASSUME NEW p \in Players, NEW x \in Places, Walk(p, x) PROVE TradeInv'
    <2>1. Elsewhere /\ online' = online
      BY <1>8 DEF Walk, Elsewhere, TradeInv, TypeOK
    <2>2. CloseTrades({p}) \/ UNCHANGED tradeVars
      BY <1>8 DEF Walk
    <2> QED  BY <1>3, <1>7, <2>1, <2>2
  <1>9. ASSUME NEW p \in Players, MoveItem(p) PROVE TradeInv'
    <2>1. PICK i \in Items, dest \in {p} \cup Places \cup Bags :
              /\ loc' = [loc EXCEPT ![i] = dest]
              /\ CloseTrades(ClosedByRemoval(i) \cup ClosedByAddition(dest))
              /\ UNCHANGED <<online, pos, down>>
      BY <1>9 DEF MoveItem, Reach
    <2>2. Elsewhere /\ online' = online
      <3>1. loc' \in [Items -> Players \cup Places \cup Bags]
        BY <2>1 DEF TradeInv, TypeOK
      <3> QED  BY <2>1, <3>1 DEF Elsewhere, TradeInv, TypeOK
    <2>3. ClosedByRemoval(i) \cup ClosedByAddition(dest) \in SUBSET Players
      BY ClosedByRemovalType, ClosedByAdditionType
    <2> QED  BY <1>3, <2>1, <2>2, <2>3
  <1>10. ASSUME NEW p \in Players, Logout(p) PROVE TradeInv'
    <2> DEFINE C == IF tradePartner[p] # Nobody THEN {p} ELSE {}
    <2>1. Elsewhere /\ online' = online \ {p} /\ CloseTrades(C) /\ C \in SUBSET Players
      BY <1>10 DEF Logout, Elsewhere, TradeInv, TypeOK
    <2>2. tradePartner[p] # Nobody => p \in WithPartners(C)
      BY DEF WithPartners
    <2>3. \A r \in Players \ online' :
              r \notin online \/ tradePartner[r] = Nobody \/ r \in WithPartners(C)
      BY <2>1, <2>2
    <2> HIDE DEF C
    <2> QED  BY <2>1, <2>3, CloseStep
  <1>11. ASSUME NEW p \in Players, Login(p) PROVE TradeInv'
    BY <1>11 DEF Login, TradeInv, TypeOK, PartnersMutual, RegistryExact, tradeVars
  <1>12. ASSUME NEW p \in Players, AcceptCrashes(p) PROVE TradeInv'
    BY <1>7, <1>12 DEF AcceptCrashes, Elsewhere, TradeInv, TypeOK
  <1>13. CASE UNCHANGED vars
    BY <1>13 DEF vars, TradeInv, TypeOK, PartnersMutual, RegistryExact
  <1> QED  BY <1>1, <1>2, <1>4, <1>6, <1>8, <1>9, <1>10, <1>11, <1>12, <1>13 DEF Next

LEMMA TradeInvariant == Spec => []TradeInv
  BY TradeInit, TradeStep, PTL DEF Spec

\* Type correctness of trades.
THEOREM TradeTypes == Spec => []TypeOK
  BY TradeInvariant, PTL DEF TradeInv

\* A trade has two sides that know each other, whatever happens to it.
THEOREM TradePartnersMutual == Spec => []PartnersMutual
  BY TradeInvariant, PTL DEF TradeInv

\* No item stays in the registry without an offer, or in an offer without
\* an entry: an item cannot be sold twice, nor become untradable.
THEOREM TradeRegistryExact == Spec => []RegistryExact
  BY TradeInvariant, PTL DEF TradeInv

\* Both together: the two players of a trade and the registry agree on it.
THEOREM TradeTwoSided == Spec => []TwoSided
  BY TradePartnersMutual, TradeRegistryExact, PTL DEF TwoSided

-----------------------------------------------------------------------------
(***************************************************************************)
(* The tree of items, for any function f that says what holds each item:   *)
(* the operators of Trade are these ones at loc, before and after a step.  *)
(***************************************************************************)
Above(f, i) ==
    LET up[x \in Items] ==
            IF f[x] \notin Items THEN {} ELSE {f[x]} \cup up[f[x]]
    IN  up[i]

Top(f, i) == CHOOSE x \in {i} \cup Above(f, i) : f[x] \notin Items

LEMMA AboveIsAncestors ==
    /\ \A i : Ancestors(i) = Above(loc, i)
    /\ \A i : Ancestors(i)' = Above(loc', i)
    /\ \A i : Root(i) = loc[Top(loc, i)]
    /\ \A i : Root(i)' = loc'[Top(loc', i)]
  BY DEF Ancestors, Above, Root, Top

\* The recursive definition has a solution, the least sets closed under f.
LEMMA AboveUnfold ==
  ASSUME NEW f, NEW i \in Items
  PROVE  Above(f, i) = IF f[i] \notin Items THEN {} ELSE {f[i]} \cup Above(f, f[i])
  <1> DEFINE Closed(x, S) == /\ f[x] \in Items => f[x] \in S
                             /\ \A y \in S : f[y] \in Items => f[y] \in S
             Least(x) == {c \in Items : \A S \in SUBSET Items : Closed(x, S) => c \in S}
             Solves(g) == g = [x \in Items |->
                                 IF f[x] \notin Items THEN {} ELSE {f[x]} \cup g[f[x]]]
             g0 == [x \in Items |-> Least(x)]
  <1>1. ASSUME NEW x \in Items, f[x] \notin Items PROVE Least(x) = {}
    <2>1. Closed(x, {}) /\ {} \in SUBSET Items
      BY <1>1
    <2> QED  BY <2>1
  <1>2. ASSUME NEW x \in Items, f[x] \in Items PROVE Least(x) = {f[x]} \cup Least(f[x])
    <2>1. ASSUME NEW S \in SUBSET Items, Closed(x, S) PROVE Closed(f[x], S) /\ f[x] \in S
      BY <1>2, <2>1
    <2>2. {f[x]} \cup Least(f[x]) \subseteq Least(x)
      BY <1>2, <2>1
    <2>3. ASSUME NEW c \in Least(x), c # f[x] PROVE c \in Least(f[x])
      <3> SUFFICES ASSUME NEW S \in SUBSET Items, Closed(f[x], S) PROVE c \in S
        OBVIOUS
      <3>1. Closed(x, S \cup {f[x]}) /\ S \cup {f[x]} \in SUBSET Items
        BY <1>2
      <3>2. c \in S \cup {f[x]}
        BY <2>3, <3>1
      <3> QED  BY <2>3, <3>2
    <2> HIDE DEF Least
    <2> QED  BY <2>2, <2>3
  <1>3. Solves(g0)
    <2> HIDE DEF Least
    <2> QED  BY <1>1, <1>2
  <1> DEFINE up == CHOOSE g : Solves(g)
  <1>4. Solves(up)
    <2> HIDE DEF g0, Solves
    <2> QED  BY <1>3
  <1>5. \A x \in Items : Above(f, x) = up[x]
    BY DEF Above
  <1> HIDE DEF up
  <1>6. up[i] = IF f[i] \notin Items THEN {} ELSE {f[i]} \cup up[f[i]]
    BY <1>4
  <1> QED  BY <1>5, <1>6

LEMMA AboveItems ==
  ASSUME NEW f, Rooted(f), NEW i \in Items
  PROVE  Above(f, i) \subseteq Items
  <1> DEFINE S == {x \in Items : ~(Above(f, x) \subseteq Items)}
  <1> SUFFICES ASSUME S # {} PROVE FALSE
    OBVIOUS
  <1>1. PICK x \in S : f[x] \notin S
    BY DEF Rooted
  <1> QED  BY <1>1, AboveUnfold

LEMMA AboveTransitive ==
  ASSUME NEW f, Rooted(f), NEW i \in Items, NEW c \in Above(f, i)
  PROVE  Above(f, c) \subseteq Above(f, i)
  <1> DEFINE S == {x \in Items : c \in Above(f, x) /\ ~(Above(f, c) \subseteq Above(f, x))}
  <1> SUFFICES ASSUME S # {} PROVE FALSE
    OBVIOUS
  <1>1. PICK x \in S : f[x] \notin S
    BY DEF Rooted
  <1>2. f[x] \in Items /\ Above(f, x) = {f[x]} \cup Above(f, f[x])
    BY <1>1, AboveUnfold
  <1> QED  BY <1>1, <1>2

LEMMA NotInsideItself ==
  ASSUME NEW f, Rooted(f), NEW i \in Items
  PROVE  i \notin Above(f, i)
  <1> DEFINE S == {x \in Items : x \in Above(f, x)}
  <1> SUFFICES ASSUME S # {} PROVE FALSE
    OBVIOUS
  <1>1. PICK x \in S : f[x] \notin S
    BY DEF Rooted
  <1>2. f[x] \in Items /\ Above(f, x) = {f[x]} \cup Above(f, f[x])
    BY <1>1, AboveUnfold
  <1>3. x # f[x]
    BY <1>1
  <1>4. x \in Above(f, f[x])
    BY <1>1, <1>2, <1>3
  <1>5. Above(f, x) \subseteq Above(f, f[x])
    BY <1>2, <1>4, AboveTransitive
  <1> QED  BY <1>1, <1>2, <1>5

\* There is one outermost container, so all that lies inside another item
\* has the same root as that item.
LEMMA OneTop ==
  ASSUME NEW f, Rooted(f), NEW i \in Items
  PROVE  \E t \in Items : {x \in {i} \cup Above(f, i) : f[x] \notin Items} = {t}
  <1> DEFINE Tops(x) == {y \in {x} \cup Above(f, x) : f[y] \notin Items}
             S == {x \in Items : ~ \E t \in Items : Tops(x) = {t}}
  <1> SUFFICES ASSUME S # {} PROVE FALSE
    OBVIOUS
  <1>1. PICK x \in S : f[x] \notin S
    BY DEF Rooted
  <1>2. CASE f[x] \notin Items
    <2>1. Above(f, x) = {}
      BY <1>1, <1>2, AboveUnfold
    <2>2. Tops(x) = {x}
      BY <1>2, <2>1
    <2> QED  BY <1>1, <2>2
  <1>3. CASE f[x] \in Items
    <2>1. Above(f, x) = {f[x]} \cup Above(f, f[x])
      BY <1>1, <1>3, AboveUnfold
    <2>2. Tops(x) = Tops(f[x])
      BY <1>3, <2>1
    <2> QED  BY <1>1, <1>3, <2>2
  <1> QED  BY <1>2, <1>3

LEMMA TopUnfold ==
  ASSUME NEW f, Rooted(f), NEW i \in Items
  PROVE  /\ Top(f, i) \in Items
         /\ Top(f, i) \in {i} \cup Above(f, i)
         /\ f[Top(f, i)] \notin Items
         /\ Top(f, i) = IF f[i] \notin Items THEN i ELSE Top(f, f[i])
  <1> DEFINE Tops(x) == {y \in {x} \cup Above(f, x) : f[y] \notin Items}
  <1>1. ASSUME NEW x \in Items, NEW t \in Items, Tops(x) = {t} PROVE Top(f, x) = t
    <2>1. \A y : (y \in {x} \cup Above(f, x) /\ f[y] \notin Items) <=> y = t
      BY <1>1
    <2> QED  BY <2>1 DEF Top
  <1>2. PICK t \in Items : Tops(i) = {t}
    BY OneTop
  <1>3. Top(f, i) = t
    BY <1>1, <1>2
  <1>4. CASE f[i] \notin Items
    BY <1>2, <1>3, <1>4
  <1>5. CASE f[i] \in Items
    <2>1. PICK u \in Items : Tops(f[i]) = {u}
      BY <1>5, OneTop
    <2>2. Tops(i) = Tops(f[i])
      BY <1>5, AboveUnfold
    <2>3. Top(f, f[i]) = u
      BY <1>1, <1>5, <2>1
    <2> QED  BY <1>2, <1>3, <1>5, <2>1, <2>2, <2>3
  <1> QED  BY <1>4, <1>5

LEMMA SameTop ==
  ASSUME NEW f, Rooted(f), NEW i \in Items, NEW c \in Above(f, i)
  PROVE  Top(f, c) = Top(f, i)
  <1> DEFINE S == {x \in Items : c \in Above(f, x) /\ Top(f, c) # Top(f, x)}
  <1> SUFFICES ASSUME S # {} PROVE FALSE
    OBVIOUS
  <1>1. PICK x \in S : f[x] \notin S
    BY DEF Rooted
  <1>2. f[x] \in Items /\ Above(f, x) = {f[x]} \cup Above(f, f[x])
    BY <1>1, AboveUnfold
  <1>3. Top(f, x) = Top(f, f[x])
    BY <1>1, <1>2, TopUnfold
  <1> QED  BY <1>1, <1>2, <1>3

(* One item a moves to d, which neither is a nor lies inside it: f before,  *)
(* g after.                                                                 *)
Beneath(f, a) == {a} \cup {j \in Items : a \in Above(f, j)}

Moves(f, g, a, d) ==
    /\ f \in [Items -> Players \cup Places \cup Bags]
    /\ Rooted(f)
    /\ d \notin Beneath(f, a)
    /\ g = [f EXCEPT ![a] = d]

LEMMA MoveRooted ==
  ASSUME NEW f, NEW g, NEW a \in Items, NEW d, Moves(f, g, a, d)
  PROVE  Rooted(g)
  <1> USE DEF Moves
  <1> SUFFICES ASSUME NEW S \in SUBSET Items, S # {} PROVE \E i \in S : g[i] \notin S
    BY DEF Rooted
  <1> DEFINE T == S \ Beneath(f, a)
  <1>1. CASE T # {}
    <2>1. PICK i \in T : f[i] \notin T
      BY <1>1 DEF Rooted
    <2>2. i # a /\ g[i] = f[i]
      BY <2>1 DEF Beneath
    <2>3. f[i] \notin Beneath(f, a)
      <3> SUFFICES ASSUME f[i] \in Beneath(f, a) PROVE FALSE
        OBVIOUS
      <3>1. f[i] \in Items
        BY DEF Beneath
      <3>2. Above(f, i) = {f[i]} \cup Above(f, f[i])
        BY <3>1, AboveUnfold
      <3> QED  BY <2>1, <3>2 DEF Beneath
    <2> QED  BY <2>1, <2>2, <2>3
  <1>2. CASE T = {} /\ a \in S
    BY <1>2
  <1>3. CASE a \notin S
    <2>1. PICK i \in S : f[i] \notin S
      BY DEF Rooted
    <2> QED  BY <1>3, <2>1
  <1> QED  BY <1>1, <1>2, <1>3

\* What does not lie inside the moved item stays where it is.
LEMMA MoveKeepsPlace ==
  ASSUME NEW f, NEW g, NEW a \in Items, NEW d, Moves(f, g, a, d),
         NEW t \in Items, t \notin Beneath(f, a)
  PROVE  /\ Above(g, t) = Above(f, t)
         /\ Top(g, t) = Top(f, t)
         /\ g[Top(g, t)] = f[Top(f, t)]
  <1> USE DEF Moves
  <1> DEFINE S == {x \in Items : /\ x \notin Beneath(f, a)
                                 /\ \/ Above(g, x) # Above(f, x)
                                    \/ Top(g, x) # Top(f, x)}
  <1>1. Rooted(g)
    BY MoveRooted
  <1>2. \A x \in Items : Top(g, x) = IF g[x] \notin Items THEN x ELSE Top(g, g[x])
    <2> HIDE DEF Moves
    <2> QED  BY <1>1, TopUnfold
  <1>3. S = {}
    <2> SUFFICES ASSUME S # {} PROVE FALSE
      OBVIOUS
    <2>1. PICK x \in S : f[x] \notin S
      BY DEF Rooted
    <2>2. g[x] = f[x]
      BY <2>1 DEF Beneath
    <2>3. CASE f[x] \in Items
      <3>1. Above(f, x) = {f[x]} \cup Above(f, f[x])
        BY <2>1, <2>3, AboveUnfold
      <3>2. f[x] \notin Beneath(f, a)
        BY <2>1, <3>1 DEF Beneath
      <3>3. Above(g, f[x]) = Above(f, f[x]) /\ Top(g, f[x]) = Top(f, f[x])
        BY <2>1, <2>3, <3>2
      <3>4. Above(g, x) = {g[x]} \cup Above(g, g[x])
        BY <2>1, <2>2, <2>3, AboveUnfold
      <3>5. Top(g, x) = Top(g, g[x])
        BY <1>2, <2>1, <2>2, <2>3
      <3>6. Top(f, x) = Top(f, f[x])
        BY <2>1, <2>3, TopUnfold
      <3> QED  BY <2>1, <2>2, <3>1, <3>3, <3>4, <3>5, <3>6
    <2>4. CASE f[x] \notin Items
      <3>1. Above(f, x) = {} /\ Above(g, x) = {}
        BY <2>1, <2>2, <2>4, AboveUnfold
      <3>2. Top(f, x) = x /\ Top(g, x) = x
        BY <1>2, <2>1, <2>2, <2>4, TopUnfold
      <3> QED  BY <2>1, <3>1, <3>2
    <2> QED  BY <2>3, <2>4
  <1>4. Top(f, t) # a
    BY TopUnfold DEF Beneath
  <1>5. Top(f, t) \in Items
    BY TopUnfold
  <1>6. Above(g, t) = Above(f, t) /\ Top(g, t) = Top(f, t)
    <2> HIDE DEF Moves
    <2> QED  BY <1>3
  <1>7. \A x \in Items : x # a => g[x] = f[x]
    OBVIOUS
  <1> HIDE DEF Moves
  <1> QED  BY <1>4, <1>5, <1>6, <1>7

\* The contents of t change only if what moves was inside t, or gets there.
LEMMA MoveKeepsContents ==
  ASSUME NEW f, NEW g, NEW a \in Items, NEW d, Moves(f, g, a, d),
         NEW t \in Items, t \notin Above(f, a), d \notin Beneath(f, t)
  PROVE  Beneath(g, t) = Beneath(f, t)
  <1> DEFINE S == {x \in Items : t \in Above(f, x) /\ t \notin Above(g, x)}
             T == {x \in Items : t \in Above(g, x) /\ t \notin Above(f, x)}
  <1>1. Rooted(g)
    BY MoveRooted
  <1>2. \A x \in Items : x # a => g[x] = f[x]
    BY DEF Moves
  <1>3. g[a] = d /\ Rooted(f)
    BY DEF Moves
  <1>4. \A x \in Items : Above(f, x) = IF f[x] \notin Items THEN {} ELSE {f[x]} \cup Above(f, f[x])
    BY AboveUnfold
  <1>5. \A x \in Items : Above(g, x) = IF g[x] \notin Items THEN {} ELSE {g[x]} \cup Above(g, g[x])
    BY AboveUnfold
  <1>6. S = {}
    <2> SUFFICES ASSUME S # {} PROVE FALSE
      OBVIOUS
    <2>1. PICK x \in S : f[x] \notin S
      BY <1>3 DEF Rooted
    <2>2. x # a /\ g[x] = f[x]
      BY <1>2, <2>1
    <2> QED  BY <1>4, <1>5, <2>1, <2>2
  <1>7. T = {}
    <2> SUFFICES ASSUME T # {} PROVE FALSE
      OBVIOUS
    <2>1. PICK x \in T : g[x] \notin T
      BY <1>1 DEF Rooted
    <2>2. CASE x = a
      BY <1>3, <1>5, <2>1, <2>2 DEF Beneath
    <2>3. CASE x # a
      BY <1>2, <1>4, <1>5, <2>1, <2>3
    <2> QED  BY <2>2, <2>3
  <1> HIDE DEF S, T
  <1>8. \A x \in Items : t \in Above(f, x) <=> t \in Above(g, x)
    BY <1>6, <1>7 DEF S, T
  <1> QED  BY <1>8 DEF Beneath

-----------------------------------------------------------------------------
(* The offers: what they hold, where they are, and whom they belong to.     *)
\* In the trader's own inventory, or near it on a tile.
InReach(f, ps, p, i) ==
    LET r == f[Top(f, i)] IN r = p \/ (r \in Places /\ Near(r, ps[p], 1))

Keepers == Traders \ Borrowers   \* whose offer was not with a third player
AtHand == \A p \in Keepers : InReach(loc, pos, p, tradeItem[p])
PartnersNear == \A p \in Players : tradePartner[p] # Nobody => Near(pos[p], pos[tradePartner[p]], 2)
Agreement ==
    \A p \in Players : agreed[p] # {} =>
        /\ tradeState[p] = "accept"
        /\ tradePartner[p] \in Traders
        /\ agreed[p] = offered[tradePartner[p]]

Offers == OffersKept /\ AtHand /\ PartnersNear
OfferInv == TradeInv /\ Rooted(loc) /\ Offers /\ Agreement

LEMMA TreeOperators ==
    /\ \A i, c : Inside(i, c) <=> c \in Above(loc, i)
    /\ \A i : Contents(i) = Beneath(loc, i)
    /\ \A i : Contents(i)' = Beneath(loc', i)
    /\ \A i : Root(i) = loc[Top(loc, i)]
    /\ \A i : Root(i)' = loc'[Top(loc', i)]
  BY AboveIsAncestors DEF Inside, Contents, Beneath

LEMMA OfferInit == Init => OfferInv
  <1> SUFFICES ASSUME Init PROVE OfferInv
    OBVIOUS
  <1>1. \A p \in Players : tradeItem[p] = Nobody /\ tradePartner[p] = Nobody /\ agreed[p] = {}
    BY DEF Init
  <1>2. Rooted(loc)
    BY TradeAssumption DEF Init
  <1> QED  BY <1>1, <1>2, TradeInit DEF OfferInv, Offers, OffersKept, OffersApart, OfferUnchanged,
                                        Traders, Keepers, AtHand, PartnersNear, Agreement

\* An offer that is not closed is undisturbed: the same items in the same
\* containers, still near its owner, who is still near the partner.
Undisturbed(p) ==
    /\ \A i \in Items : tradeItem[p] = i /\ p \in Keepers =>
          /\ Beneath(loc', i) = Beneath(loc, i)
          /\ Above(loc', i) = Above(loc, i)
          /\ InReach(loc', pos', p, i)
    /\ tradePartner[p] # Nobody => Near(pos'[p], pos'[tradePartner[p]], 2)

LEMMA CloseKeepsOffers ==
  ASSUME OfferInv, NEW C \in SUBSET Players, CloseTrades(C),
         \A p \in Players \ WithPartners(C) : Undisturbed(p)
  PROVE  Offers'
  <1> DEFINE R == WithPartners(C)
  <1>1. /\ tradePartner' = [p \in Players |-> IF p \in R THEN Nobody ELSE tradePartner[p]]
        /\ tradeItem' = [p \in Players |-> IF p \in R THEN Nobody ELSE tradeItem[p]]
        /\ offered' = [p \in Players |-> IF p \in R THEN {} ELSE offered[p]]
    BY DEF CloseTrades
  <1> HIDE DEF R
  <1>2. ASSUME NEW p \in Traders'
        PROVE  /\ p \in Traders \ R /\ p \in Players /\ tradeItem[p] \in Items
               /\ tradeItem'[p] = tradeItem[p] /\ offered'[p] = offered[p]
               /\ p \in Keepers' <=> p \in Keepers
               /\ p \in Borrowers' <=> p \in Borrowers
    <2>1. p \in Players \ R /\ tradeItem'[p] = tradeItem[p] /\ offered'[p] = offered[p]
          /\ tradeItem[p] # Nobody
      BY <1>1, <1>2 DEF Traders
    <2>2. tradeItem[p] \in Items
      BY <2>1 DEF OfferInv, TradeInv, TypeOK
    <2> QED  BY <1>2, <2>1, <2>2 DEF Traders, Borrowers, Keepers
  <1>3. ASSUME NEW p \in Keepers'
        PROVE  /\ Beneath(loc', tradeItem[p]) = Beneath(loc, tradeItem[p])
               /\ Above(loc', tradeItem[p]) = Above(loc, tradeItem[p])
               /\ InReach(loc', pos', p, tradeItem[p])
    <2>1. p \in Traders' /\ p \in Keepers
      BY <1>2, <1>3 DEF Keepers
    <2>2. Undisturbed(p)
      BY <1>2, <2>1 DEF R
    <2> QED  BY <1>2, <2>1, <2>2 DEF Undisturbed
  <1>4. OffersApart'
    <2> SUFFICES ASSUME NEW p \in Traders', NEW q \in Traders', p # q,
                        tradeItem'[q] \in Beneath(loc', tradeItem'[p]),
                        p \in Keepers' \/ q \in Keepers'
                 PROVE  FALSE
      BY AboveIsAncestors DEF OffersApart, Keepers, Contents, Inside, Beneath
    <2>1. tradeItem[q] \notin Beneath(loc, tradeItem[p])
      BY <1>2, TreeOperators DEF OfferInv, Offers, OffersKept, OffersApart, Keepers
    <2>2. CASE p \in Keepers'
      BY <1>2, <1>3, <2>1, <2>2
    <2>3. CASE q \in Keepers'
      BY <1>2, <1>3, <2>1, <2>3 DEF Beneath
    <2> QED  BY <2>2, <2>3
  <1>5. OfferUnchanged'
    <2> SUFFICES ASSUME NEW p \in Keepers'
                 PROVE  Beneath(loc', tradeItem'[p]) = offered'[p]
      BY AboveIsAncestors DEF OfferUnchanged, Keepers, Contents, Inside, Beneath
    <2>1. Beneath(loc, tradeItem[p]) = offered[p] /\ p \in Traders'
      BY <1>2, TreeOperators DEF OfferInv, Offers, OffersKept, OfferUnchanged, Keepers
    <2> QED  BY <1>2, <1>3, <2>1
  <1>6. AtHand'
    <2> SUFFICES ASSUME NEW p \in Keepers'
                 PROVE  InReach(loc', pos', p, tradeItem'[p])
      BY DEF AtHand, InReach, Top, Above, Near
    <2>1. p \in Traders'
      BY DEF Keepers
    <2> QED  BY <1>2, <1>3, <2>1
  <1>7. PartnersNear'
    <2> SUFFICES ASSUME NEW p \in Players, tradePartner'[p] # Nobody
                 PROVE  Near(pos'[p], pos'[tradePartner'[p]], 2)
      BY DEF PartnersNear, Near
    <2>1. p \notin R /\ tradePartner'[p] = tradePartner[p]
      BY <1>1
    <2> QED  BY <2>1 DEF Undisturbed, R
  <1> QED  BY <1>4, <1>5, <1>6, <1>7 DEF Offers, OffersKept

\* Walking moves no item, and what the walker carries stays with it.
LEMMA WalkKeepsOffers ==
  ASSUME OfferInv, NEW p \in Players, NEW x \in Places, Walk(p, x)
  PROVE  Offers'
  <1> USE TradeAssumption
  <1>1. /\ loc' = loc /\ online' = online /\ x \in Int
        /\ pos' = [pos EXCEPT ![p] = x]
        /\ pos \in [Players -> Places]
    BY DEF Walk, OfferInv, TradeInv, TypeOK
  <1>2. ASSUME NEW r \in Players, r # p, tradePartner[r] # p
        PROVE  Undisturbed(r)
    <2>1. ASSUME NEW i \in Items, tradeItem[r] = i, r \in Keepers
          PROVE  InReach(loc', pos', r, i)
      <3>1. InReach(loc, pos, r, i)
        BY <2>1 DEF OfferInv, Offers, AtHand
      <3> QED  BY <1>1, <1>2, <3>1 DEF InReach
    <2>2. tradePartner[r] # Nobody => Near(pos'[r], pos'[tradePartner[r]], 2)
      <3>1. tradePartner[r] # Nobody => tradePartner[r] \in Players
        BY DEF OfferInv, TradeInv, TypeOK
      <3> QED  BY <1>1, <1>2, <3>1 DEF OfferInv, Offers, PartnersNear
    <2> QED  BY <1>1, <2>1, <2>2 DEF Undisturbed
  <1>3. CASE LeavesTrade(p, x)
    <2>1. CloseTrades({p})
      BY <1>3 DEF Walk
    <2>2. \A r \in Players \ WithPartners({p}) : r # p /\ tradePartner[r] # p
      BY DEF WithPartners, OfferInv, TradeInv, PartnersMutual
    <2> QED  BY <1>2, <2>1, <2>2, CloseKeepsOffers
  <1>4. CASE ~LeavesTrade(p, x)
    <2>1. UNCHANGED <<tradePartner, tradeItem, tradeState, offered>>
      BY <1>4 DEF Walk, tradeVars
    <2>2. OffersKept'
      BY <1>1, <2>1, TreeOperators DEF OfferInv, Offers, OffersKept, OffersApart, OfferUnchanged,
                                       Traders, Borrowers
    <2>3. ASSUME NEW r \in Players, tradePartner[r] # Nobody
          PROVE  Near(pos'[r], pos'[tradePartner[r]], 2)
      <3>1. /\ tradePartner[r] \in Players /\ tradePartner[r] # r
            /\ tradePartner[tradePartner[r]] = r
            /\ Near(pos[r], pos[tradePartner[r]], 2)
        BY <2>3 DEF OfferInv, TradeInv, TypeOK, PartnersMutual, Offers, PartnersNear
      <3>2. CASE r = p
        <4>1. Near(pos[tradePartner[p]], x, 2)
          BY <1>4, <2>3, <3>2 DEF LeavesTrade
        <4> QED  BY <1>1, <3>1, <3>2, <4>1 DEF Near
      <3>3. CASE tradePartner[r] = p
        <4>1. Near(pos[r], x, 2)
          BY <1>4, <3>1, <3>3 DEF LeavesTrade
        <4> QED  BY <1>1, <3>1, <3>3, <4>1
      <3>4. CASE r # p /\ tradePartner[r] # p
        BY <1>1, <3>1, <3>4
      <3> QED  BY <3>2, <3>3, <3>4
    <2>4. ASSUME NEW r \in Keepers
          PROVE  InReach(loc', pos', r, tradeItem[r])
      <3>1. InReach(loc, pos, r, tradeItem[r]) /\ r \in Players /\ tradeItem[r] # Nobody
        BY DEF OfferInv, Offers, AtHand, Keepers, Traders
      <3>2. CASE r # p
        BY <1>1, <3>1, <3>2 DEF InReach
      <3>3. CASE r = p /\ Root(tradeItem[p]) = p
        BY <1>1, <3>3, TreeOperators DEF InReach
      <3>4. CASE r = p /\ Root(tradeItem[p]) # p
        <4>1. Root(tradeItem[p]) \in Places
          BY <3>1, <3>4, TreeOperators DEF InReach
        <4>2. Near(Position(tradeItem[p]), x, 1)
          BY <1>4, <3>1, <3>4 DEF LeavesTrade
        <4>3. Position(tradeItem[p]) = Root(tradeItem[p])
          BY <4>1 DEF Position
        <4> QED  BY <1>1, <3>4, <4>1, <4>2, <4>3, TreeOperators DEF InReach
      <3> QED  BY <3>2, <3>3, <3>4
    <2>5. PartnersNear'
      BY <2>1, <2>3 DEF PartnersNear, Near
    <2>6. AtHand'
      <3>1. Keepers' = Keepers
        BY <2>1 DEF Keepers, Traders, Borrowers
      <3>2. \A r \in Keepers : InReach(loc', pos', r, tradeItem'[r])
        BY <2>1, <2>4
      <3> QED  BY <3>1, <3>2 DEF AtHand, InReach, Top, Above, Near
    <2> QED  BY <2>2, <2>5, <2>6 DEF Offers
  <1> QED  BY <1>3, <1>4

\* The steps that only close trades.
LEMMA PlainCloseKeepsOffers ==
  ASSUME OfferInv, NEW C \in SUBSET Players, CloseTrades(C), UNCHANGED <<pos, loc>>
  PROVE  Offers'
  <1>1. ASSUME NEW p \in Players PROVE Undisturbed(p)
    <2>1. ASSUME NEW i \in Items, tradeItem[p] = i, p \in Keepers PROVE InReach(loc', pos', p, i)
      BY <2>1 DEF InReach, OfferInv, Offers, AtHand
    <2> QED  BY <2>1 DEF Undisturbed, OfferInv, Offers, PartnersNear
  <1> QED  BY <1>1, CloseKeepsOffers

\* A new offer is apart from all others: the registry has them all.
LEMMA RequestKeepsOffers ==
  ASSUME OfferInv, NEW p \in Players, NEW q \in Players, NEW i \in Items,
         Requests(p, q, i)
  PROVE  Offers'
  <1> USE TradeAssumption DEF OfferInv, TradeInv, TypeOK
  <1> DEFINE lent == Root(i) \in Players \ {p}
  <1>1. /\ p # q /\ Near(pos[p], pos[q], 2) /\ Reachable(p, i)
        /\ UNCHANGED <<online, pos, loc>>
        /\ tradePartner' = [tradePartner EXCEPT ![p] = q,
                                                ![q] = IF tradeState[q] = "none" THEN p ELSE @]
        /\ tradeItem' = [tradeItem EXCEPT ![p] = i]
        /\ offered' = [offered EXCEPT ![p] = IF lent THEN {} ELSE Contents(i)]
    BY DEF Requests
  <1>2. \A t : Contents(t)' = Contents(t)
    BY <1>1, TreeOperators
  <1>3. ASSUME NEW r \in Traders, r # p
        PROVE  /\ tradeItem[r] \in Items
               /\ tradeItem[r] \notin Contents(i) /\ i \notin Contents(tradeItem[r])
    <2>1. tradeItem[r] \in Items /\ r \in Players
      BY DEF Traders
    <2>2. tradeItems[tradeItem[r]] = r
      BY <2>1 DEF RegistryExact
    <2>3. tradeItem[r] # i /\ ~Holds(i, tradeItem[r]) /\ ~Holds(tradeItem[r], i)
      BY <2>1, <2>2 DEF Requests, AlreadyTraded
    <2> QED  BY <2>1, <2>3 DEF Holds, Contents
  <1>4. \A r \in Players : r # p => /\ tradeItem'[r] = tradeItem[r]
                                    /\ offered'[r] = offered[r]
                                    /\ r \in Traders' <=> r \in Traders
                                    /\ r \in Keepers' <=> r \in Keepers
                                    /\ r \in Borrowers' <=> r \in Borrowers
    BY <1>1 DEF Traders, Keepers, Borrowers
  <1>5. tradeItem'[p] = i /\ Traders' \subseteq Players /\ Traders \subseteq Players
    BY <1>1 DEF Traders
  <1>6. p \in Keepers' => offered'[p] = Contents(i) /\ InReach(loc, pos, p, i)
    <2> SUFFICES ASSUME p \in Keepers'
                 PROVE  offered'[p] = Contents(i) /\ InReach(loc, pos, p, i)
      OBVIOUS
    <2>1. ~lent /\ offered'[p] = Contents(i)
      BY <1>1 DEF Keepers, Borrowers
    <2>2. Root(i) = p \/ Root(i) \in Places
      BY <1>1, <2>1 DEF Reachable
    <2>3. CASE Root(i) = p
      BY <2>1, <2>3, TreeOperators DEF InReach
    <2>4. CASE Root(i) \in Places
      <3>1. Position(i) = Root(i)
        BY <2>4 DEF Position
      <3>2. Near(Root(i), pos[p], 1)
        BY <1>1, <3>1 DEF Reachable
      <3> QED  BY <2>1, <2>4, <3>2, TreeOperators DEF InReach
    <2> QED  BY <2>2, <2>3, <2>4
  <1> HIDE DEF lent
  <1>7. OffersApart'
    <2> SUFFICES ASSUME NEW r \in Traders', NEW s \in Traders', r # s,
                        tradeItem'[s] \in Contents(tradeItem'[r])
                 PROVE  {r, s} \subseteq Borrowers'
      BY <1>2, TreeOperators, <1>1 DEF OffersApart
    <2>1. CASE r = p
      BY <1>3, <1>4, <1>5, <2>1
    <2>2. CASE s = p
      BY <1>3, <1>4, <1>5, <2>2
    <2>3. CASE r # p /\ s # p
      <3>1. r \in Traders /\ s \in Traders /\ tradeItem[s] \in Contents(tradeItem[r])
        BY <1>4, <1>5, <2>3
      <3>2. {r, s} \subseteq Borrowers
        BY <3>1 DEF Offers, OffersKept, OffersApart
      <3> QED  BY <1>4, <1>5, <2>3, <3>2
    <2> QED  BY <2>1, <2>2, <2>3
  <1>8. OfferUnchanged'
    <2> SUFFICES ASSUME NEW r \in Keepers'
                 PROVE  Contents(tradeItem'[r]) = offered'[r]
      BY <1>1, TreeOperators DEF OfferUnchanged, Keepers
    <2>1. CASE r = p
      BY <1>5, <1>6, <2>1
    <2>2. CASE r # p
      <3>1. r \in Keepers /\ r \in Players
        BY <1>4, <1>5, <2>2 DEF Keepers
      <3>2. Contents(tradeItem[r]) = offered[r]
        BY <3>1 DEF Offers, OffersKept, OfferUnchanged, Keepers
      <3> QED  BY <1>4, <2>2, <3>1, <3>2
    <2> QED  BY <2>1, <2>2
  <1>9. AtHand'
    <2> SUFFICES ASSUME NEW r \in Keepers'
                 PROVE  InReach(loc', pos', r, tradeItem'[r])
      BY DEF AtHand, InReach, Top, Above, Near
    <2>1. CASE r = p
      BY <1>1, <1>5, <1>6, <2>1
    <2>2. CASE r # p
      <3>1. r \in Keepers /\ r \in Players
        BY <1>4, <1>5, <2>2 DEF Keepers
      <3> QED  BY <1>1, <1>4, <2>2, <3>1 DEF Offers, AtHand
    <2> QED  BY <2>1, <2>2
  <1>10. PartnersNear'
    <2> SUFFICES ASSUME NEW r \in Players
                 PROVE  tradePartner'[r] # Nobody => Near(pos[r], pos[tradePartner'[r]], 2)
      BY <1>1 DEF PartnersNear, Near
    <2>1. pos[p] \in Int /\ pos[q] \in Int
      OBVIOUS
    <2>2. Near(pos[q], pos[p], 2)
      BY <1>1, <2>1 DEF Near
    <2> QED  BY <1>1, <2>2 DEF Offers, PartnersNear
  <1> QED  BY <1>7, <1>8, <1>9, <1>10 DEF Offers, OffersKept

\* What an offer that exists is: an item owned by somebody in the game, and
\* near it unless it lay with a third player.
LEMMA TraderFacts ==
  ASSUME OfferInv, NEW r \in Keepers
  PROVE  /\ r \in Traders /\ r \in online /\ r \in Players /\ tradeItem[r] # Nobody
         /\ tradeItem[r] \in Items
         /\ InReach(loc, pos, r, tradeItem[r])
         /\ Near(pos[r], Position(tradeItem[r]), 1)
         /\ tradePartner[r] \in Players
  <1> USE TradeAssumption
  <1>1. /\ r \in Traders /\ r \in online /\ r \in Players /\ tradeItem[r] # Nobody
        /\ tradeItem[r] \in Items /\ tradePartner[r] \in Players
    BY DEF OfferInv, TradeInv, TypeOK, PartnersMutual, Traders, Keepers
  <1>2. InReach(loc, pos, r, tradeItem[r])
    BY DEF OfferInv, Offers, AtHand
  <1>3. pos[r] \in Int
    BY <1>1 DEF OfferInv, TradeInv, TypeOK
  <1>4. Near(pos[r], Position(tradeItem[r]), 1)
    <2> DEFINE x == Root(tradeItem[r])
    <2>1. x = r \/ (x \in Places /\ Near(x, pos[r], 1))
      BY <1>2, TreeOperators DEF InReach
    <2>2. CASE x = r
      BY <1>1, <1>3, <2>2 DEF Position, Near
    <2>3. CASE x \in Places /\ Near(x, pos[r], 1)
      <3>1. Position(tradeItem[r]) = x /\ x \in Int
        BY <2>3 DEF Position
      <3> HIDE DEF x
      <3> QED  BY <1>3, <2>3, <3>1 DEF Near
    <2> QED  BY <2>1, <2>2, <2>3
  <1> QED  BY <1>1, <1>2, <1>4

\* All that lies inside one item is at one position.
LEMMA PositionInside ==
  ASSUME OfferInv, NEW t \in Items, NEW j \in Beneath(loc, t)
  PROVE  Position(j) = Position(t)
  <1>1. Root(j) = Root(t)
    <2>1. CASE j = t
      BY <2>1
    <2>2. CASE j # t
      <3>1. j \in Items /\ t \in Above(loc, j)
        BY <2>2 DEF Beneath
      <3>2. Top(loc, t) = Top(loc, j)
        BY <3>1, SameTop DEF OfferInv
      <3> QED  BY <3>2, TreeOperators
    <2> QED  BY <2>1, <2>2
  <1> QED  BY <1>1 DEF Position

\* The hooks close every trade whose offer holds, is or lies in the item that
\* leaves its place.
LEMMA RemovalCloses ==
  ASSUME OfferInv, NEW i \in Items, NEW r \in Keepers,
         tradeItem[r] \in Beneath(loc, i) \/ i \in Beneath(loc, tradeItem[r])
  PROVE  r \in ClosedByRemoval(i)
  <1> USE TradeAssumption
  <1> DEFINE t == tradeItem[r]
  <1>1. r \in Traders /\ r \in online /\ r \in Players /\ t \in Items /\ InReach(loc, pos, r, t)
        /\ Near(pos[r], Position(t), 1)
    BY TraderFacts
  <1>2. loc[i] \in Players \cup Places \cup Items
    BY DEF OfferInv, TradeInv, TypeOK
  <1> HIDE DEF t
  <1>3. Rooted(loc)
    BY DEF OfferInv
  <1>4. CASE i = t \/ t \in Above(loc, i)
    <2>1. CheckTradeState(r, i)
      BY <1>4, TreeOperators DEF CheckTradeState, t
    <2>2. ASSUME loc[i] \in Items PROVE Near(pos[r], Position(loc[i]), 1)
      <3>1. Above(loc, i) = {loc[i]} \cup Above(loc, loc[i])
        BY <2>2, AboveUnfold
      <3>2. Position(i) = Position(t)
        BY <1>1, <1>4, PositionInside DEF Beneath
      <3>3. Position(loc[i]) = Position(i)
        BY <2>2, <3>1, PositionInside DEF Beneath
      <3> QED  BY <1>1, <3>2, <3>3
    <2>3. ASSUME loc[i] \in Items PROVE r \in ClosedByRemoval(i)
      BY <1>1, <2>1, <2>2, <2>3 DEF ClosedByRemoval, RemovedFromBag
    <2>4. ASSUME loc[i] \in Places PROVE r \in ClosedByRemoval(i)
      BY <1>1, <2>1, <2>4 DEF ClosedByRemoval, RemovedFromOutside
    <2>5. ASSUME loc[i] \in Players PROVE r \in ClosedByRemoval(i)
      <3>1. loc[i] \notin Items /\ loc[i] \notin Places
        BY <2>5
      <3>2. Top(loc, i) = i
        BY <1>3, <3>1, TopUnfold
      <3>3. Top(loc, t) = i
        BY <1>1, <1>3, <1>4, <3>2, SameTop
      <3>4. loc[i] = r
        BY <1>1, <3>1, <3>3 DEF InReach
      <3> QED  BY <1>1, <2>1, <3>4 DEF ClosedByRemoval, RemovedFromOutside
    <2> QED  BY <1>2, <2>3, <2>4, <2>5
  <1>5. CASE i \in Above(loc, t)
    <2>1. Holds(i, t)
      BY <1>1, <1>5, TreeOperators DEF Holds
    <2>2. Top(loc, i) = Top(loc, t)
      BY <1>1, <1>3, <1>5, SameTop
    <2>3. ASSUME loc[i] \in Items PROVE r \in ClosedByRemoval(i)
      <3>1. Above(loc, i) = {loc[i]} \cup Above(loc, loc[i])
        BY <2>3, AboveUnfold
      <3>2. Position(i) = Position(t)
        BY <2>2, TreeOperators DEF Position
      <3>3. Position(loc[i]) = Position(i)
        BY <2>3, <3>1, PositionInside DEF Beneath
      <3>4. loc[i] \in Above(loc, t)
        BY <1>1, <1>3, <1>5, <3>1, AboveTransitive
      <3>5. Holds(loc[i], t)
        BY <1>1, <3>4, TreeOperators DEF Holds
      <3>6. loc[t] \in Items \ {loc[i]}
        <4>1. loc[t] \in Items /\ Above(loc, t) = {loc[t]} \cup Above(loc, loc[t])
          BY <1>1, <1>5, AboveUnfold
        <4>2. i # loc[i] /\ i \notin Above(loc, loc[i])
          BY <1>3, <3>1, NotInsideItself
        <4> QED  BY <1>5, <4>1, <4>2
      <3> QED  BY <1>1, <2>3, <3>2, <3>3, <3>5, <3>6 DEF ClosedByRemoval, RemovedFromBag, t
    <2>4. ASSUME loc[i] \in Places PROVE r \in ClosedByRemoval(i)
      BY <1>1, <2>1, <2>4 DEF ClosedByRemoval, RemovedFromOutside, t
    <2>5. ASSUME loc[i] \in Players PROVE r \in ClosedByRemoval(i)
      <3>1. loc[i] \notin Items /\ loc[i] \notin Places
        BY <2>5
      <3>2. Top(loc, t) = i
        BY <1>3, <2>2, <3>1, TopUnfold
      <3>3. loc[i] = r
        BY <1>1, <3>1, <3>2 DEF InReach
      <3> QED  BY <1>1, <2>1, <3>3 DEF ClosedByRemoval, RemovedFromOutside, t
    <2> QED  BY <1>2, <2>3, <2>4, <2>5
  <1> QED  BY <1>4, <1>5 DEF Beneath, t

\* ... and every trade whose offer receives an item.
LEMMA AdditionCloses ==
  ASSUME OfferInv, NEW r \in Keepers,
         NEW c \in Beneath(loc, tradeItem[r])
  PROVE  r \in ClosedByAddition(c)
  <1>1. /\ r \in Traders /\ r \in online /\ r \in Players /\ tradeItem[r] \in Items
        /\ Near(pos[r], Position(tradeItem[r]), 1)
    BY TraderFacts
  <1>2. c \in Items /\ Position(c) = Position(tradeItem[r])
    BY <1>1, PositionInside DEF Beneath
  <1> QED  BY <1>1, <1>2, TreeOperators DEF ClosedByAddition, Beneath

LEMMA MoveKeepsOffers ==
  ASSUME OfferInv, NEW p \in Players, MoveItem(p)
  PROVE  Rooted(loc') /\ Offers'
  <1> USE TradeAssumption
  <1>1. PICK i \in Items, dest \in {p} \cup Places \cup Bags :
            /\ dest \in Bags => dest \notin Contents(i)
            /\ loc' = [loc EXCEPT ![i] = dest]
            /\ CloseTrades(ClosedByRemoval(i) \cup ClosedByAddition(dest))
            /\ pos' = pos
    BY DEF MoveItem, Reach
  <1> DEFINE C == ClosedByRemoval(i) \cup ClosedByAddition(dest)
  <1>2. /\ loc \in [Items -> Players \cup Places \cup Bags] /\ Rooted(loc)
        /\ C \in SUBSET Players
    BY ClosedByRemovalType, ClosedByAdditionType DEF OfferInv, TradeInv, TypeOK
  <1>3. dest \notin Beneath(loc, i)
    <2>1. Beneath(loc, i) \subseteq Items
      BY DEF Beneath
    <2> QED  BY <1>1, <2>1, TreeOperators
  <1>4. Moves(loc, loc', i, dest)
    BY <1>1, <1>2, <1>3 DEF Moves
  <1>5. ASSUME NEW r \in Players \ WithPartners(C) PROVE Undisturbed(r)
    <2>1. ASSUME NEW t \in Items, tradeItem[r] = t, r \in Keepers
          PROVE  /\ Beneath(loc', t) = Beneath(loc, t)
                 /\ Above(loc', t) = Above(loc, t)
                 /\ InReach(loc', pos', r, t)
      <3>1. r \notin C
        BY DEF WithPartners
      <3>2. t \notin Beneath(loc, i) /\ i \notin Beneath(loc, t) /\ dest \notin Beneath(loc, t)
        BY <2>1, <3>1, RemovalCloses, AdditionCloses
      <3>3. t \notin Above(loc, i)
        BY <3>2 DEF Beneath
      <3>4. Beneath(loc', t) = Beneath(loc, t)
        BY <1>4, <3>2, <3>3, MoveKeepsContents
      <3>5. Above(loc', t) = Above(loc, t) /\ loc'[Top(loc', t)] = loc[Top(loc, t)]
        BY <1>4, <3>2, MoveKeepsPlace
      <3>6. InReach(loc, pos, r, t)
        BY <2>1, TraderFacts
      <3> QED  BY <1>1, <3>4, <3>5, <3>6 DEF InReach
    <2> QED  BY <1>1, <2>1 DEF Undisturbed, OfferInv, Offers, PartnersNear
  <1>6. Rooted(loc')
    BY <1>4, MoveRooted
  <1>7. CloseTrades(C)
    BY <1>1
  <1> HIDE DEF C
  <1> QED  BY <1>2, <1>5, <1>6, <1>7, CloseKeepsOffers

\* Giving an item away leaves an offer that is apart from it as it was.
LEMMA GiveKeepsOffers ==
  ASSUME NEW f, NEW g, NEW a \in Items, NEW q \in Players, Moves(f, g, a, q),
         NEW t \in Items, t \notin Beneath(f, a), a \notin Beneath(f, t)
  PROVE  /\ Beneath(g, t) = Beneath(f, t)
         /\ Above(g, t) = Above(f, t)
         /\ g[Top(g, t)] = f[Top(f, t)]
  <1>1. q \notin Beneath(f, t)
    BY TradeAssumption DEF Beneath
  <1>2. t \notin Above(f, a)
    BY DEF Beneath
  <1> QED  BY <1>1, <1>2, MoveKeepsPlace, MoveKeepsContents

LEMMA TransferKeepsOffers ==
  ASSUME OfferInv, NEW p \in Players, NEW roomQ \in Rooms, NEW roomP \in Rooms,
         Transfer(p, roomQ, roomP)
  PROVE  Rooted(loc') /\ Offers'
  <1> USE TradeAssumption
  <1> DEFINE q == tradePartner[p]
             a == tradeItem[p]
             b == tradeItem[q]
  <1>1. /\ p \in Players /\ q \in Players /\ p # q
        /\ a \in Items /\ b \in Items /\ p \in Traders /\ q \in Traders
        /\ pos' = pos
    BY DEF Transfer, MayAccept, OfferInv, TradeInv, TypeOK, PartnersMutual, Traders
  <1>2. loc \in [Items -> Players \cup Places \cup Bags] /\ Rooted(loc)
    BY DEF OfferInv, TradeInv, TypeOK
  <1>3. PICK moved : EndTrade(p, moved)
    BY DEF Transfer
  <1> DEFINE C == {p} \cup ((UNION {ClosedByRemoval(i) : i \in moved}) \ {p, q})
  <1>4. C \in SUBSET Players /\ CloseTrades(C) /\ p \in WithPartners(C) /\ q \in WithPartners(C)
    BY <1>1, <1>3, ClosedByRemovalType DEF EndTrade, WithPartners
  <1> DEFINE g == [loc EXCEPT ![a] = q]
             h == [g EXCEPT ![b] = p]
  <1>5. loc' = loc \/ loc' = g \/ loc' = h
    BY DEF Transfer
  <1> HIDE DEF C, q, a, b
  <1>6. Moves(loc, g, a, q)
    BY <1>1, <1>2 DEF Moves, Beneath
  <1>7. Moves(g, h, b, p)
    <2>1. g \in [Items -> Players \cup Places \cup Bags]
      BY <1>1, <1>2
    <2>2. Rooted(g)
      BY <1>1, <1>6, MoveRooted
    <2> HIDE DEF g
    <2> QED  BY <1>1, <2>1, <2>2 DEF Moves, Beneath
  <1> HIDE DEF g, h
  <1>8. ASSUME NEW r \in Players \ WithPartners(C) PROVE Undisturbed(r)
    <2>1. ASSUME NEW t \in Items, tradeItem[r] = t, r \in Keepers
          PROVE  /\ Beneath(loc', t) = Beneath(loc, t)
                 /\ Above(loc', t) = Above(loc, t)
                 /\ InReach(loc', pos', r, t)
      <3>1. r \in Traders /\ r \notin Borrowers /\ r # p /\ r # q /\ InReach(loc, pos, r, t)
        BY <1>4, <2>1, TraderFacts DEF Keepers
      <3>2. /\ t \notin Beneath(loc, a) /\ a \notin Beneath(loc, t)
            /\ t \notin Beneath(loc, b) /\ b \notin Beneath(loc, t)
        BY <1>1, <2>1, <3>1, TreeOperators DEF OfferInv, Offers, OffersKept, OffersApart, a, b
      <3>3. /\ Beneath(g, t) = Beneath(loc, t) /\ Above(g, t) = Above(loc, t)
            /\ g[Top(g, t)] = loc[Top(loc, t)]
        BY <1>1, <1>6, <3>2, GiveKeepsOffers
      <3>4. t \notin Beneath(g, b) /\ b \notin Beneath(g, t)
        BY <3>2, <3>3 DEF Beneath
      <3>5. /\ Beneath(h, t) = Beneath(g, t) /\ Above(h, t) = Above(g, t)
            /\ h[Top(h, t)] = g[Top(g, t)]
        BY <1>1, <1>7, <3>4, GiveKeepsOffers
      <3>6. /\ Beneath(loc', t) = Beneath(loc, t) /\ Above(loc', t) = Above(loc, t)
            /\ loc'[Top(loc', t)] = loc[Top(loc, t)]
        BY <1>5, <3>3, <3>5
      <3> QED  BY <1>1, <3>1, <3>6 DEF InReach
    <2> QED  BY <1>1, <2>1 DEF Undisturbed, OfferInv, Offers, PartnersNear
  <1>9. Rooted(loc')
    BY <1>1, <1>2, <1>5, <1>6, <1>7, MoveRooted
  <1> QED  BY <1>4, <1>8, <1>9, CloseKeepsOffers

-----------------------------------------------------------------------------
(* What a player has agreed to take.                                        *)

\* A trade that is closed forgets both sides' agreements, one that stays open
\* keeps both.
LEMMA CloseKeepsAgreement ==
  ASSUME OfferInv, NEW C \in SUBSET Players, CloseTrades(C)
  PROVE  Agreement'
  <1> USE TradeAssumption
  <1> DEFINE R == WithPartners(C)
  <1>1. /\ tradeState' = [p \in Players |-> IF p \in R THEN "none" ELSE tradeState[p]]
        /\ tradePartner' = [p \in Players |-> IF p \in R THEN Nobody ELSE tradePartner[p]]
        /\ tradeItem' = [p \in Players |-> IF p \in R THEN Nobody ELSE tradeItem[p]]
        /\ offered' = [p \in Players |-> IF p \in R THEN {} ELSE offered[p]]
        /\ agreed' = [p \in Players |-> IF p \in R THEN {} ELSE agreed[p]]
    BY DEF CloseTrades
  <1> SUFFICES ASSUME NEW p \in Players, agreed'[p] # {}
               PROVE  /\ tradeState'[p] = "accept"
                      /\ tradePartner'[p] \in Traders'
                      /\ agreed'[p] = offered'[tradePartner'[p]]
    BY DEF Agreement
  <1> HIDE DEF R
  <1>2. p \notin R /\ agreed[p] # {}
    BY <1>1
  <1>3. tradeState[p] = "accept" /\ tradePartner[p] \in Traders /\ agreed[p] = offered[tradePartner[p]]
    BY <1>2 DEF OfferInv, Agreement
  <1>4. tradePartner[p] \in Players /\ tradePartner[p] # Nobody
    BY <1>3 DEF Traders
  <1>5. tradePartner[p] \notin R
    BY <1>2, <1>4, BothSides DEF OfferInv, TradeInv, R
  <1> QED  BY <1>1, <1>2, <1>3, <1>4, <1>5 DEF Traders

\* Nobody who has accepted is asked for an offer again: whoever makes a new
\* one had made none, so the partner has agreed to nothing yet.
LEMMA RequestKeepsAgreement ==
  ASSUME OfferInv, NEW p \in Players, NEW q \in Players, NEW i \in Items,
         Requests(p, q, i)
  PROVE  Agreement'
  <1> USE TradeAssumption DEF OfferInv, TradeInv, TypeOK
  <1>1. /\ p # q /\ agreed' = agreed
        /\ tradePartner' = [tradePartner EXCEPT ![p] = q,
                                                ![q] = IF tradeState[q] = "none" THEN p ELSE @]
        /\ tradeItem' = [tradeItem EXCEPT ![p] = i]
        /\ tradeState' = [tradeState EXCEPT ![p] = "initiated",
                                            ![q] = IF @ = "none" THEN "acknowledge" ELSE @]
        /\ \A r \in Players \ {p} : offered'[r] = offered[r]
    BY DEF Requests
  <1>2. /\ tradeState[p] \in {"none", "acknowledge"}
        /\ tradeState[q] = "none" \/ tradePartner[q] = p
    BY DEF Requests, MayStart
  <1>3. p \notin Traders
    BY <1>2 DEF PartnersMutual, Traders
  <1> SUFFICES ASSUME NEW r \in Players, agreed[r] # {}
               PROVE  /\ tradeState'[r] = "accept"
                      /\ tradePartner'[r] \in Traders'
                      /\ agreed[r] = offered'[tradePartner'[r]]
    BY <1>1 DEF Agreement
  <1>4. tradeState[r] = "accept" /\ tradePartner[r] \in Traders /\ agreed[r] = offered[tradePartner[r]]
    BY DEF Agreement
  <1>5. r # p /\ tradePartner[r] # p /\ tradePartner[r] \in Players
    BY <1>2, <1>3, <1>4 DEF Traders
  <1>6. r # q
    BY <1>2, <1>4, <1>5
  <1>7. tradeState'[r] = "accept" /\ tradePartner'[r] = tradePartner[r]
    BY <1>1, <1>4, <1>5, <1>6
  <1>8. tradeItem'[tradePartner[r]] = tradeItem[tradePartner[r]] /\ offered'[tradePartner[r]] = offered[tradePartner[r]]
    BY <1>1, <1>5
  <1> QED  BY <1>4, <1>5, <1>7, <1>8 DEF Traders

\* What is accepted is what was offered.
LEMMA AcceptKeepsAgreement ==
  ASSUME OfferInv, NEW p \in Players, AcceptFirst(p)
  PROVE  Agreement'
  <1> USE TradeAssumption DEF OfferInv, TradeInv, TypeOK
  <1> DEFINE q == tradePartner[p]
  <1>1. /\ tradeState' = [tradeState EXCEPT ![p] = "accept"]
        /\ agreed' = [agreed EXCEPT ![p] = IF q \in Keepers THEN Contents(tradeItem[q]) ELSE {}]
        /\ UNCHANGED <<tradePartner, tradeItem, offered>>
    BY DEF AcceptFirst, Keepers
  <1>2. Traders' = Traders
    BY <1>1 DEF Traders
  <1>3. q \in Keepers => q \in Traders /\ Contents(tradeItem[q]) = offered[q]
    BY DEF Offers, OffersKept, OfferUnchanged, Keepers
  <1> SUFFICES ASSUME NEW r \in Players, agreed'[r] # {}
               PROVE  /\ tradeState'[r] = "accept"
                      /\ tradePartner[r] \in Traders
                      /\ agreed'[r] = offered[tradePartner[r]]
    BY <1>1, <1>2 DEF Agreement
  <1>4. CASE r = p
    BY <1>1, <1>3, <1>4
  <1>5. CASE r # p
    BY <1>1, <1>5 DEF Agreement
  <1> QED  BY <1>4, <1>5

LEMMA OfferStep == OfferInv /\ [Next]_vars => OfferInv'
  <1> SUFFICES ASSUME OfferInv, [Next]_vars PROVE OfferInv'
    OBVIOUS
  <1>1. TradeInv'
    BY TradeStep DEF OfferInv
  <1>2. ASSUME UNCHANGED loc PROVE Rooted(loc')
    BY <1>2 DEF OfferInv
  <1> DEFINE Kept == Rooted(loc') /\ Offers' /\ Agreement'
  <1>3. Kept
    <2>1. ASSUME NEW p \in Players, NEW q \in Players, RequestTrade(p, q) PROVE Kept
      <3>1. PICK i \in Items : Requests(p, q, i)
        BY <2>1, RequestOf
      <3> QED  BY <1>2, <3>1, RequestKeepsOffers, RequestKeepsAgreement DEF Requests
    <2>2. ASSUME UNCHANGED <<pos, loc, tradePartner, tradeItem, offered>> PROVE Offers'
      <3>1. OffersKept'
        BY <2>2, TreeOperators DEF OfferInv, Offers, OffersKept, OffersApart, OfferUnchanged,
                                   Traders, Borrowers
      <3>2. Keepers' = Keepers
        BY <2>2 DEF Keepers, Traders, Borrowers
      <3>3. \A p \in Keepers' : InReach(loc', pos', p, tradeItem'[p])
        BY <2>2, <3>2 DEF OfferInv, Offers, AtHand
      <3>4. AtHand'
        BY <3>3 DEF AtHand, InReach, Top, Above, Near
      <3>5. PartnersNear'
        BY <2>2 DEF OfferInv, Offers, PartnersNear, Near
      <3> QED  BY <3>1, <3>4, <3>5 DEF Offers
    <2>3. ASSUME UNCHANGED <<tradeState, tradePartner, tradeItem, offered, agreed>> PROVE Agreement'
      BY <2>3 DEF OfferInv, Agreement, Traders
    <2>4. ASSUME NEW C \in SUBSET Players, CloseTrades(C), UNCHANGED <<pos, loc>> PROVE Kept
      BY <1>2, <2>4, PlainCloseKeepsOffers, CloseKeepsAgreement
    <2>5. ASSUME NEW p \in Players, AcceptFirst(p) PROVE Kept
      BY <1>2, <2>2, <2>5, AcceptKeepsAgreement DEF AcceptFirst
    <2>6. ASSUME NEW p \in Players, AcceptFails(p) \/ CloseTrade(p) PROVE Kept
      BY <2>4, <2>6 DEF AcceptFails, CloseTrade
    <2>7. ASSUME NEW p \in Players, NEW roomQ \in Rooms, NEW roomP \in Rooms,
                 Transfer(p, roomQ, roomP)
          PROVE  Kept
      <3>1. PICK moved : EndTrade(p, moved)
        BY <2>7 DEF Transfer
      <3>2. {p} \cup ((UNION {ClosedByRemoval(i) : i \in moved}) \ {p, tradePartner[p]})
              \in SUBSET Players
        BY ClosedByRemovalType
      <3>3. Agreement'
        BY <3>1, <3>2, CloseKeepsAgreement DEF EndTrade
      <3> QED  BY <2>7, <3>3, TransferKeepsOffers
    <2>8. ASSUME NEW p \in Players, NEW x \in Places, Walk(p, x) PROVE Kept
      <3>1. CloseTrades({p}) \/ UNCHANGED tradeVars
        BY <2>8 DEF Walk
      <3>2. Agreement'
        BY <2>3, <3>1, CloseKeepsAgreement DEF tradeVars
      <3> QED  BY <1>2, <2>8, <3>2, WalkKeepsOffers DEF Walk
    <2>9. ASSUME NEW p \in Players, MoveItem(p) PROVE Kept
      <3>1. PICK i, dest : CloseTrades(ClosedByRemoval(i) \cup ClosedByAddition(dest))
        BY <2>9 DEF MoveItem
      <3>2. ClosedByRemoval(i) \cup ClosedByAddition(dest) \in SUBSET Players
        BY ClosedByRemovalType, ClosedByAdditionType
      <3>3. Agreement'
        BY <3>1, <3>2, CloseKeepsAgreement
      <3> QED  BY <2>9, <3>3, MoveKeepsOffers
    <2>10. ASSUME NEW p \in Players, Logout(p) PROVE Kept
      <3> DEFINE C == IF tradePartner[p] # Nobody THEN {p} ELSE {}
      <3>1. C \in SUBSET Players
        OBVIOUS
      <3> QED  BY <2>4, <2>10, <3>1 DEF Logout
    <2>11. ASSUME NEW p \in Players, Login(p) \/ AcceptCrashes(p) PROVE Kept
      BY <1>2, <2>2, <2>3, <2>11 DEF Login, AcceptCrashes, tradeVars
    <2>12. CASE UNCHANGED vars
      BY <1>2, <2>2, <2>3, <2>12 DEF vars
    <2> HIDE DEF Kept
    <2> QED  BY <2>1, <2>5, <2>6, <2>7, <2>8, <2>9, <2>10, <2>11, <2>12 DEF Next
  <1> QED  BY <1>1, <1>3 DEF OfferInv

LEMMA OfferInvariant == Spec => []OfferInv
  BY OfferInit, OfferStep, PTL DEF Spec

\* An item offered in one trade holds no item of another, lies in none, and
\* is at every depth what it was when it was offered: every change of its
\* contents, its place or its containers has closed the trade.  Only what lay
\* with a third player when it was offered is excepted.
THEOREM TradeOffersKept == Spec => []OffersKept
  BY OfferInvariant, PTL DEF OfferInv, Offers

LEMMA NearAtHand == OfferInv => TradersNear
  <1> SUFFICES ASSUME OfferInv PROVE TradersNear
    OBVIOUS
  <1>1. ASSUME NEW p \in Keepers PROVE Near(Position(tradeItem[p]), pos[p], 1)
    <2>1. Near(pos[p], Position(tradeItem[p]), 1)
      BY TraderFacts
    <2> QED  BY <2>1 DEF Near
  <1> QED  BY <1>1 DEF TradersNear, OfferInv, Offers, PartnersNear, Keepers

\* Partners stay within two squares, and each within one of its own offer
\* unless that lay with a third player, although the hooks look at the one who
\* moves only.
THEOREM TradeTradersNear == Spec => []TradersNear
  BY OfferInvariant, NearAtHand, PTL

LEMMA AgreementStands == OfferInv => AcceptedOfferStands
  <1> SUFFICES ASSUME OfferInv, NEW p \in Players, agreed[p] # {}
               PROVE  /\ tradeState[p] = "accept"
                      /\ tradePartner[p] \in Traders
                      /\ Contents(tradeItem[tradePartner[p]]) = agreed[p]
    BY DEF AcceptedOfferStands
  <1>1. /\ tradeState[p] = "accept" /\ tradePartner[p] \in Traders
        /\ agreed[p] = offered[tradePartner[p]]
    BY DEF OfferInv, Agreement
  <1>2. tradePartner[p] \in Traders \ Borrowers
    BY <1>1 DEF Borrowers
  <1> QED  BY <1>1, <1>2 DEF OfferInv, Offers, OffersKept, OfferUnchanged

\* Once a player has accepted an offer the partner can neither replace it nor
\* alter it, and nobody else can: it stands until the trade is over.
THEOREM TradeAcceptedOfferStands == Spec => []AcceptedOfferStands
  BY OfferInvariant, AgreementStands, PTL
=============================================================================
