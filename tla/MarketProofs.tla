---------------------------- MODULE MarketProofs ----------------------------
(***************************************************************************)
(* Theorems about Market, for any number of players, offers and checks and *)
(* any prices and amounts.                                                 *)
(***************************************************************************)
EXTENDS Market, FiniteSetTheorems, TLAPS

(***************************************************************************)
(* Sums.  SumFunctionOnSet folds over a set in some order; it counts the   *)
(* units under the function, so what holds of a sum follows from what      *)
(* holds of cardinalities.                                                 *)
(***************************************************************************)

\* Induction over the subsets of a finite set.
LEMMA SmallestSubset ==
  ASSUME NEW S, IsFiniteSet(S), NEW T \in SUBSET (SUBSET S), T # {}
  PROVE  \E s \in T : \A x \in s : s \ {x} \notin T
  <1>1. IsWellFoundedOn(StrictSubsetOrdering(S), SUBSET S)
    BY FS_StrictSubsetOrderingWellFounded, FS_FiniteSubsetsOfFinite
  <1>2. PICK s \in T : \A t \in T : <<t, s>> \notin StrictSubsetOrdering(S)
    BY <1>1, WFMin
  <1>3. ASSUME NEW x \in s PROVE s \ {x} \notin T
    <2>1. <<s \ {x}, s>> \in StrictSubsetOrdering(S)
      BY <1>3 DEF StrictSubsetOrdering
    <2> QED  BY <1>2, <2>1
  <1> QED  BY <1>3

Column(f, x) == {x} \X (1 .. f[x])
UnitsUnder(f, S) == {u \in S \X Nat : u[2] \in 1 .. f[u[1]]}

Summable(f, S) == IsFiniteSet(S) /\ \A x \in S : f[x] \in Nat

LEMMA ColumnCount ==
  ASSUME NEW f, NEW x, f[x] \in Nat
  PROVE  IsFiniteSet(Column(f, x)) /\ Cardinality(Column(f, x)) = f[x]
  <1>1. IsFiniteSet(1 .. f[x]) /\ Cardinality(1 .. f[x]) = f[x]
    BY SMTT(30), FS_Interval
  <1>2. IsFiniteSet({x}) /\ Cardinality({x}) = 1
    BY FS_Singleton
  <1>3. /\ IsFiniteSet({x} \X (1 .. f[x]))
        /\ Cardinality({x} \X (1 .. f[x])) = Cardinality({x}) * Cardinality(1 .. f[x])
    BY <1>1, <1>2, FS_Product
  <1> QED  BY <1>1, <1>2, <1>3 DEF Column

LEMMA UnitsRemove ==
  ASSUME NEW f, NEW S, NEW x \in S, f[x] \in Nat
  PROVE  /\ UnitsUnder(f, S) = UnitsUnder(f, S \ {x}) \cup Column(f, x)
         /\ UnitsUnder(f, S \ {x}) \cap Column(f, x) = {}
  BY DEF UnitsUnder, Column

LEMMA UnitsFinite ==
  ASSUME NEW f, NEW S, Summable(f, S)
  PROVE  IsFiniteSet(UnitsUnder(f, S))
  <1> DEFINE T == {s \in SUBSET S : ~IsFiniteSet(UnitsUnder(f, s))}
  <1> SUFFICES ASSUME T # {} PROVE FALSE
    OBVIOUS
  <1>1. PICK s \in T : \A x \in s : s \ {x} \notin T
    BY SmallestSubset DEF Summable
  <1>2. CASE s = {}
    <2>1. UnitsUnder(f, s) = {}
      BY <1>2 DEF UnitsUnder
    <2> QED  BY <1>1, <2>1, FS_EmptySet
  <1>3. CASE s # {}
    <2>1. PICK x \in s : TRUE
      BY <1>3
    <2>2. f[x] \in Nat /\ IsFiniteSet(UnitsUnder(f, s \ {x}))
      BY <1>1, <2>1 DEF Summable
    <2>3. IsFiniteSet(UnitsUnder(f, s \ {x}) \cup Column(f, x))
      BY <2>2, ColumnCount, FS_Union
    <2>4. UnitsUnder(f, s) = UnitsUnder(f, s \ {x}) \cup Column(f, x)
      BY <2>1, <2>2, UnitsRemove
    <2> QED  BY <1>1, <2>3, <2>4
  <1> QED  BY <1>2, <1>3

LEMMA CountRemove ==
  ASSUME NEW f, NEW S, Summable(f, S), NEW x \in S
  PROVE  Cardinality(UnitsUnder(f, S)) = f[x] + Cardinality(UnitsUnder(f, S \ {x}))
  <1>1. IsFiniteSet(S \ {x}) /\ f[x] \in Nat
    BY FS_RemoveElement DEF Summable
  <1>2. Summable(f, S \ {x})
    BY <1>1 DEF Summable
  <1> DEFINE U == UnitsUnder(f, S \ {x})
             C == Column(f, x)
  <1>3. /\ IsFiniteSet(U) /\ IsFiniteSet(C) /\ Cardinality(C) = f[x]
        /\ UnitsUnder(f, S) = U \cup C /\ U \cap C = {}
    BY <1>1, <1>2, UnitsFinite, ColumnCount, UnitsRemove
  <1>4. Cardinality(U) \in Nat /\ Cardinality(U \cap C) = 0
    BY <1>3, FS_EmptySet, FS_CardinalityType
  <1>5. Cardinality(U \cup C) = Cardinality(U) + Cardinality(C) - Cardinality(U \cap C)
    BY <1>3, FS_Union
  <1> HIDE DEF U, C
  <1>6. Cardinality(UnitsUnder(f, S)) = Cardinality(U) + f[x]
    BY <1>1, <1>3, <1>4, <1>5
  <1> QED  BY <1>1, <1>4, <1>6 DEF U

LEMMA SumIsCount ==
  ASSUME NEW f, NEW S, Summable(f, S)
  PROVE  SumFunctionOnSet(f, S) = Cardinality(UnitsUnder(f, S))
  <1> DEFINE c(s) == CHOOSE x \in s : TRUE
             Solves(g) == g = [s \in SUBSET S |->
                                 IF s = {} THEN 0 ELSE f[c(s)] + g[s \ {c(s)}]]
             g0 == [s \in SUBSET S |-> Cardinality(UnitsUnder(f, s))]
  <1>1. ASSUME NEW s \in SUBSET S PROVE s # {} => c(s) \in s
    OBVIOUS
  <1>2. ASSUME NEW s \in SUBSET S
        PROVE  g0[s] = IF s = {} THEN 0 ELSE f[c(s)] + g0[s \ {c(s)}]
    <2>1. CASE s = {}
      <3>1. UnitsUnder(f, s) = {}
        BY <2>1 DEF UnitsUnder
      <3> QED  BY <2>1, <3>1, FS_EmptySet
    <2>2. CASE s # {}
      <3>1. c(s) \in s
        BY <2>2, <1>1
      <3> HIDE DEF c
      <3>2. Summable(f, s)
        BY FS_Subset DEF Summable
      <3> QED  BY <2>2, <3>1, <3>2, CountRemove
    <2> QED  BY <2>1, <2>2
  <1>3. Solves(g0)
    <2> HIDE DEF c
    <2>1. g0 = [s \in SUBSET S |-> g0[s]]
      OBVIOUS
    <2>2. [s \in SUBSET S |-> g0[s]]
             = [s \in SUBSET S |-> IF s = {} THEN 0 ELSE f[c(s)] + g0[s \ {c(s)}]]
      <3> HIDE DEF g0
      <3> QED  BY <1>2
    <2> HIDE DEF g0
    <2> QED  BY <2>1, <2>2
  <1>4. ASSUME NEW g, Solves(g) PROVE g[S] = g0[S]
    <2> DEFINE T == {s \in SUBSET S : g[s] # g0[s]}
    <2> SUFFICES ASSUME T # {} PROVE FALSE
      OBVIOUS
    <2>1. PICK s \in T : \A x \in s : s \ {x} \notin T
      BY SmallestSubset DEF Summable
    <2> HIDE DEF c, g0
    <2>2. g[s] = IF s = {} THEN 0 ELSE f[c(s)] + g[s \ {c(s)}]
      BY <1>4, <2>1
    <2>3. s # {} => c(s) \in s
      BY <1>1, <2>1
    <2> QED  BY <1>2, <2>1, <2>2, <2>3
  <1> DEFINE iter == CHOOSE g : Solves(g)
  <1>5. Solves(iter)
    <2> HIDE DEF Solves, g0
    <2> QED  BY <1>3
  <1>6. SumFunctionOnSet(f, S) = iter[S]
    BY DEF SumFunctionOnSet, FoldFunctionOnSet, MapThenFoldSet
  <1> HIDE DEF Solves, iter
  <1> QED  BY <1>4, <1>5, <1>6

\* What the proofs below use.
LEMMA SumType ==
  ASSUME NEW f, NEW S, Summable(f, S)
  PROVE  SumFunctionOnSet(f, S) \in Nat
  BY SumIsCount, UnitsFinite, FS_CardinalityType

LEMMA SumEmpty ==
  ASSUME NEW f
  PROVE  SumFunctionOnSet(f, {}) = 0
  <1>1. Summable(f, {})
    BY FS_EmptySet DEF Summable
  <1>2. UnitsUnder(f, {}) = {}
    BY DEF UnitsUnder
  <1> QED  BY <1>1, <1>2, SumIsCount, FS_EmptySet

LEMMA SumRemove ==
  ASSUME NEW f, NEW S, Summable(f, S), NEW x \in S
  PROVE  /\ Summable(f, S \ {x})
         /\ SumFunctionOnSet(f, S) = f[x] + SumFunctionOnSet(f, S \ {x})
  <1>1. Summable(f, S \ {x})
    BY FS_RemoveElement DEF Summable
  <1> QED  BY <1>1, SumIsCount, CountRemove

LEMMA SumSame ==
  ASSUME NEW f, NEW g, NEW S, Summable(f, S), \A x \in S : f[x] = g[x]
  PROVE  Summable(g, S) /\ SumFunctionOnSet(f, S) = SumFunctionOnSet(g, S)
  <1>1. Summable(g, S)
    BY DEF Summable
  <1>2. UnitsUnder(f, S) = UnitsUnder(g, S)
    BY DEF UnitsUnder
  <1> QED  BY <1>1, <1>2, SumIsCount

LEMMA SumPlus ==
  ASSUME NEW f, NEW g, NEW h, NEW S, Summable(f, S), Summable(g, S),
         \A x \in S : h[x] = f[x] + g[x]
  PROVE  /\ Summable(h, S)
         /\ SumFunctionOnSet(h, S) = SumFunctionOnSet(f, S) + SumFunctionOnSet(g, S)
  <1>1. \A s \in SUBSET S : Summable(f, s) /\ Summable(g, s) /\ Summable(h, s)
    BY FS_Subset DEF Summable
  <1> DEFINE T == {s \in SUBSET S : SumFunctionOnSet(h, s)
                      # SumFunctionOnSet(f, s) + SumFunctionOnSet(g, s)}
  <1>2. ASSUME T # {} PROVE FALSE
    <2>1. PICK s \in T : \A x \in s : s \ {x} \notin T
      BY <1>2, SmallestSubset DEF Summable
    <2>2. CASE s = {}
      BY <2>1, <2>2, SumEmpty
    <2>3. CASE s # {}
      <3>1. PICK x \in s : TRUE
        BY <2>3
      <3> DEFINE r == s \ {x}
      <3>2. /\ SumFunctionOnSet(h, s) = h[x] + SumFunctionOnSet(h, r)
            /\ SumFunctionOnSet(f, s) = f[x] + SumFunctionOnSet(f, r)
            /\ SumFunctionOnSet(g, s) = g[x] + SumFunctionOnSet(g, r)
        BY <1>1, <2>1, <3>1, SumRemove
      <3>3. SumFunctionOnSet(h, r) = SumFunctionOnSet(f, r) + SumFunctionOnSet(g, r)
        BY <2>1, <3>1
      <3>4. /\ SumFunctionOnSet(f, r) \in Nat /\ SumFunctionOnSet(g, r) \in Nat
            /\ f[x] \in Nat /\ g[x] \in Nat /\ h[x] = f[x] + g[x]
        BY <1>1, <2>1, <3>1, SumType DEF Summable
      <3> HIDE DEF r
      <3> QED  BY <2>1, <3>2, <3>3, <3>4
    <2> QED  BY <2>2, <2>3
  <1> QED  BY <1>1, <1>2

\* Values change at one place.
LEMMA SumChange ==
  ASSUME NEW f, NEW g, NEW S, Summable(f, S), NEW x \in S, g[x] \in Nat,
         \A y \in S \ {x} : g[y] = f[y]
  PROVE  /\ Summable(g, S)
         /\ SumFunctionOnSet(g, S) + f[x] = SumFunctionOnSet(f, S) + g[x]
  <1>1. Summable(g, S)
    BY DEF Summable
  <1>2. /\ SumFunctionOnSet(f, S) = f[x] + SumFunctionOnSet(f, S \ {x})
        /\ SumFunctionOnSet(g, S) = g[x] + SumFunctionOnSet(g, S \ {x})
        /\ Summable(f, S \ {x})
    BY <1>1, SumRemove
  <1>3. SumFunctionOnSet(f, S \ {x}) = SumFunctionOnSet(g, S \ {x})
    BY <1>2, SumSame
  <1>4. f[x] \in Nat /\ SumFunctionOnSet(f, S \ {x}) \in Nat
    BY <1>2, SumType DEF Summable
  <1> QED  BY <1>1, <1>2, <1>3, <1>4

\* A set that falls into two parts.
LEMMA SumUnion ==
  ASSUME NEW f, NEW S, NEW T, Summable(f, S), Summable(f, T), S \cap T = {}
  PROVE  /\ Summable(f, S \cup T)
         /\ SumFunctionOnSet(f, S \cup T) = SumFunctionOnSet(f, S) + SumFunctionOnSet(f, T)
  <1>1. Summable(f, S \cup T)
    BY FS_Union DEF Summable
  <1>2. UnitsUnder(f, S \cup T) = UnitsUnder(f, S) \cup UnitsUnder(f, T) /\ UnitsUnder(f, S) \cap UnitsUnder(f, T) = {}
    BY DEF UnitsUnder
  <1> DEFINE U == UnitsUnder(f, S)
             V == UnitsUnder(f, T)
  <1>3. IsFiniteSet(U) /\ IsFiniteSet(V) /\ U \cap V = {} /\ UnitsUnder(f, S \cup T) = U \cup V
    BY <1>2, UnitsFinite
  <1>4. SumFunctionOnSet(f, S) = Cardinality(U) /\ SumFunctionOnSet(f, T) = Cardinality(V)
        /\ SumFunctionOnSet(f, S \cup T) = Cardinality(U \cup V)
    BY <1>1, <1>3, SumIsCount
  <1> HIDE DEF U, V
  <1>5. Cardinality(U \cap V) = 0 /\ Cardinality(U) \in Nat /\ Cardinality(V) \in Nat
    BY <1>3, FS_EmptySet, FS_CardinalityType
  <1>6. Cardinality(U \cup V) = Cardinality(U) + Cardinality(V) - Cardinality(U \cap V)
    BY <1>3, FS_Union
  <1> QED  BY <1>1, <1>4, <1>5, <1>6

LEMMA SumSplit ==
  ASSUME NEW f, NEW S, Summable(f, S), NEW T \in SUBSET S
  PROVE  /\ Summable(f, T) /\ Summable(f, S \ T)
         /\ SumFunctionOnSet(f, S) = SumFunctionOnSet(f, T) + SumFunctionOnSet(f, S \ T)
  <1>1. Summable(f, T) /\ Summable(f, S \ T)
    BY FS_Subset, FS_Difference DEF Summable
  <1>2. T \cup (S \ T) = S /\ T \cap (S \ T) = {}
    OBVIOUS
  <1> DEFINE U == S \ T
  <1> HIDE DEF U
  <1>3. SumFunctionOnSet(f, T \cup U) = SumFunctionOnSet(f, T) + SumFunctionOnSet(f, U)
    BY <1>1, <1>2, SumUnion DEF U
  <1> QED  BY <1>1, <1>2, <1>3 DEF U

LEMMA SumOne ==
  ASSUME NEW f, NEW x, f[x] \in Nat
  PROVE  Summable(f, {x}) /\ SumFunctionOnSet(f, {x}) = f[x]
  <1>1. Summable(f, {x})
    BY FS_Singleton DEF Summable
  <1>2. {x} \ {x} = {}
    OBVIOUS
  <1>3. SumFunctionOnSet(f, {x}) = f[x] + SumFunctionOnSet(f, {})
    BY <1>1, <1>2, SumRemove
  <1> QED  BY <1>1, <1>3, SumEmpty

\* One element gives way to others, or to none.
LEMMA SumReplace ==
  ASSUME NEW f, NEW S, Summable(f, S), NEW x \in S,
         NEW R, Summable(f, R), R \cap (S \ {x}) = {}
  PROVE  /\ Summable(f, (S \ {x}) \cup R)
         /\ SumFunctionOnSet(f, (S \ {x}) \cup R) + f[x]
               = SumFunctionOnSet(f, S) + SumFunctionOnSet(f, R)
  <1> DEFINE U == S \ {x}
  <1>1. Summable(f, U) /\ SumFunctionOnSet(f, S) = f[x] + SumFunctionOnSet(f, U)
    BY SumRemove
  <1>2. U \cap R = {}
    OBVIOUS
  <1> HIDE DEF U
  <1>3. /\ Summable(f, U \cup R)
        /\ SumFunctionOnSet(f, U \cup R) = SumFunctionOnSet(f, U) + SumFunctionOnSet(f, R)
    BY <1>1, <1>2, SumUnion
  <1>4. /\ f[x] \in Nat /\ SumFunctionOnSet(f, U) \in Nat /\ SumFunctionOnSet(f, R) \in Nat
    BY <1>1, SumType DEF Summable
  <1>5. /\ Summable(f, U \cup R)
        /\ SumFunctionOnSet(f, U \cup R) + f[x] = SumFunctionOnSet(f, S) + SumFunctionOnSet(f, R)
    BY <1>1, <1>3, <1>4
  <1> QED  BY <1>5 DEF U

\* What is matched, one to one, by something at least as large, sums to no more.
LEMMA SumMatched ==
  ASSUME NEW f, NEW S, Summable(f, S), NEW g, NEW T, Summable(g, T),
         NEW m \in [T -> S], \A x, y \in T : m[x] = m[y] => x = y,
         \A x \in T : g[x] <= f[m[x]]
  PROVE  SumFunctionOnSet(g, T) <= SumFunctionOnSet(f, S)
  <1> DEFINE A == UnitsUnder(g, T)
             B == UnitsUnder(f, S)
             h == [u \in A |-> <<m[u[1]], u[2]>>]
  <1>1. ASSUME NEW u \in A PROVE h[u] \in B
    <2>1. u[1] \in T /\ u[2] \in 1 .. g[u[1]] /\ m[u[1]] \in S /\ u[2] \in Nat
      BY DEF UnitsUnder
    <2>2. g[u[1]] \in Nat /\ f[m[u[1]]] \in Nat /\ g[u[1]] <= f[m[u[1]]]
      BY <2>1 DEF Summable
    <2> QED  BY <2>1, <2>2 DEF UnitsUnder
  <1>2. ASSUME NEW u \in A, NEW v \in A, h[u] = h[v] PROVE u = v
    <2>1. u \in T \X Nat /\ v \in T \X Nat
      BY DEF UnitsUnder
    <2> QED  BY <1>2, <2>1
  <1> HIDE DEF h
  <1>3. h \in [A -> B]
    BY <1>1 DEF h
  <1>4. h \in Injection(A, B)
    BY <1>2, <1>3 DEF Injection, IsInjective
  <1>5. IsFiniteSet(B)
    BY UnitsFinite
  <1>6. Cardinality(A) <= Cardinality(B)
    BY <1>4, <1>5, FS_Injection
  <1> QED  BY <1>6, SumIsCount

\* What each player gets of some goods adds up to all of them.
LEMMA SumShares ==
  ASSUME NEW f, NEW R \in SUBSET Offer, Summable(f, R)
  PROVE  LET share == [p \in Players |-> SumFunctionOnSet(f, Of(p, R))] IN
         /\ Summable(share, Players)
         /\ SumFunctionOnSet(share, Players) = SumFunctionOnSet(f, R)
  <1> DEFINE share(r) == [p \in Players |-> SumFunctionOnSet(f, Of(p, r))]
             T == {r \in SUBSET R : SumFunctionOnSet(share(r), Players) # SumFunctionOnSet(f, r)}
  <1>1. ASSUME NEW r \in SUBSET R
        PROVE  /\ Summable(f, r) /\ Summable(share(r), Players)
               /\ \A p \in Players : share(r)[p] \in Nat
    <2>1. \A q \in SUBSET R : Summable(f, q)
      BY SumSplit
    <2>2. \A p : Of(p, r) \in SUBSET R
      BY DEF Of
    <2>3. \A p \in Players : share(r)[p] \in Nat
      BY <2>1, <2>2, SumType
    <2> QED  BY <2>1, <2>3, MarketAssumption DEF Summable
  <1>2. ASSUME T # {} PROVE FALSE
    <2>1. PICK r \in T : \A x \in r : r \ {x} \notin T
      BY <1>2, SmallestSubset DEF Summable
    <2>2. CASE r = {}
      <3>1. \A p \in Players : share(r)[p] = 0
        <4>1. \A p : Of(p, r) = {}
          BY <2>2 DEF Of
        <4> QED  BY <4>1, SumEmpty
      <3> DEFINE z == [p \in Players |-> 0]
                 s == share(r)
      <3>2. Summable(z, Players) /\ \A p \in Players : z[p] = z[p] + z[p]
        BY MarketAssumption DEF Summable
      <3>3. SumFunctionOnSet(z, Players) = SumFunctionOnSet(z, Players) + SumFunctionOnSet(z, Players)
        <4> HIDE DEF z
        <4> QED  BY <3>2, SumPlus
      <3>4. \A p \in Players : s[p] = z[p]
        BY <3>1
      <3>5. Summable(s, Players)
        BY <1>1, <2>1
      <3> HIDE DEF z, s
      <3>6. SumFunctionOnSet(z, Players) = 0
        BY <3>2, <3>3, SumType
      <3>7. SumFunctionOnSet(s, Players) = 0
        BY <3>4, <3>5, <3>6, SumSame
      <3> QED  BY <2>1, <2>2, <3>7, SumEmpty DEF s
    <2>3. CASE r # {}
      <3>1. PICK x \in r : TRUE
        BY <2>3
      <3> DEFINE q == r \ {x}
                 s == share(r)
                 t == share(q)
                 p == x.owner
      <3>2. p \in Players /\ r \in SUBSET R /\ q \in SUBSET R /\ q \notin T
        BY <2>1, <3>1 DEF Offer
      <3>3. /\ Summable(f, r) /\ Summable(f, q) /\ Summable(s, Players) /\ Summable(t, Players)
            /\ f[x] \in Nat
        BY <1>1, <3>1, <3>2 DEF Summable
      <3>4. \A a \in Players \ {p} : s[a] = t[a]
        <4>1. \A a \in Players \ {p} : Of(a, r) = Of(a, q)
          BY DEF Of
        <4> QED  BY <4>1
      <3>5. s[p] = f[x] + t[p]
        <4>1. Of(p, q) = Of(p, r) \ {x} /\ x \in Of(p, r) /\ Of(p, r) \in SUBSET R
          BY <3>1, <3>2 DEF Of
        <4>2. Summable(f, Of(p, r))
          BY <1>1, <4>1
        <4>3. SumFunctionOnSet(f, Of(p, r)) = f[x] + SumFunctionOnSet(f, Of(p, q))
          BY <4>1, <4>2, SumRemove
        <4> QED  BY <3>2, <4>3
      <3>6. SumFunctionOnSet(f, r) = f[x] + SumFunctionOnSet(f, q)
        BY <3>1, <3>3, SumRemove
      <3>7. SumFunctionOnSet(t, Players) = SumFunctionOnSet(f, q)
        BY <3>2
      <3>8. SumFunctionOnSet(s, Players) # SumFunctionOnSet(f, r)
        BY <2>1
      <3>9. t[p] \in Nat /\ s[p] \in Nat
        BY <3>2, <3>3 DEF Summable
      <3> HIDE DEF q, s, t, p
      <3>10. SumFunctionOnSet(s, Players) + t[p] = SumFunctionOnSet(t, Players) + s[p]
        BY <3>2, <3>3, <3>4, <3>9, SumChange
      <3>11. SumFunctionOnSet(s, Players) \in Nat /\ SumFunctionOnSet(f, q) \in Nat
        BY <3>3, SumType
      <3> QED  BY <3>3, <3>5, <3>6, <3>7, <3>8, <3>9, <3>10, <3>11
    <2> QED  BY <2>2, <2>3
  <1>3. SumFunctionOnSet(share(R), Players) = SumFunctionOnSet(f, R)
    <2> HIDE DEF share
    <2> QED  BY <1>2
  <1> QED  BY <1>1, <1>3

-----------------------------------------------------------------------------
(***************************************************************************)
(* The inductive invariant.  Ids are not used again, so that a row of an   *)
(* answer and an offer of the same id are the same offer, at two times.    *)
(***************************************************************************)

\* Offers, or rows that were offers when they were read.
Table(os) ==
    /\ os \in SUBSET Offer /\ IsFiniteSet(os)
    /\ \A o \in os : o.id <= Len(made)
    /\ \A o, q \in os : o.id = q.id => o = q

\* An offer that is still there is at most what its row says, and exactly
\* that if there has been no race.
Agrees(rows) ==
    \A row \in rows, o \in offers : row.id = o.id =>
        /\ row.owner = o.owner /\ row.sale = o.sale /\ row.price = o.price
        /\ row.due = o.due /\ o.due
        /\ o.amount <= row.amount
        /\ ~raced => o.amount = row.amount

Tables ==
    /\ TypeOK
    /\ Len(made) <= MaxId
    /\ Table(offers)
    /\ \A k \in 1 .. Len(answers) : Table(answers[k]) /\ Agrees(answers[k])

\* The history has nothing of the offers to come.
Records == HistoryAccounts /\ \A i \in Ids : i > Len(made) => recorded[i] = 0

MarketInv == Tables /\ Records /\ GoodsKept

LEMMA Constants ==
    /\ Coins \in Nat /\ Items \in Nat /\ MaxAmount \in Nat /\ MaxId \in Nat
    /\ MinFee \in Nat /\ MaxFee \in Nat /\ MaxOffers \in Nat /\ Prices \subseteq Nat \ {0}
    /\ IsFiniteSet(Players) /\ Ids \subseteq Nat /\ Amounts \subseteq Nat \ {0}
  BY MarketAssumption DEF Ids, Amounts

LEMMA OfferFields ==
  ASSUME NEW o \in Offer
  PROVE  /\ o.id \in Ids /\ o.owner \in Players /\ o.sale \in BOOLEAN
         /\ o.amount \in Nat \ {0} /\ o.price \in Nat \ {0}
         /\ Units[o] = o.amount /\ Cost[o] = o.price * o.amount
         /\ Units[o] \in Nat /\ Cost[o] \in Nat
  <1>1. o.amount \in Nat \ {0} /\ o.price \in Nat \ {0}
    BY Constants DEF Offer
  <1>2. o.price * o.amount \in Nat
    BY <1>1
  <1> QED  BY <1>1, <1>2 DEF Offer, Units, Cost

LEMMA OfferSums ==
  ASSUME NEW os \in SUBSET Offer, IsFiniteSet(os)
  PROVE  /\ Summable(Units, os) /\ Summable(Cost, os)
         /\ Sales(os) \in SUBSET os /\ Purchases(os) \in SUBSET os
         /\ Summable(Units, Sales(os)) /\ Summable(Cost, Purchases(os))
         /\ \A i : WithId(i, os) \in SUBSET os /\ Summable(Units, WithId(i, os))
         /\ \A p : Of(p, os) \in SUBSET os
  <1>1. Sales(os) \in SUBSET os /\ Purchases(os) \in SUBSET os
        /\ \A i : WithId(i, os) \in SUBSET os /\ Of(i, os) \in SUBSET os
    BY DEF Sales, Purchases, WithId, Of
  <1>2. Summable(Units, os) /\ Summable(Cost, os)
    BY OfferFields DEF Summable
  <1> QED  BY <1>1, <1>2, SumSplit

\* The sum of equal shares.
LEMMA SumEach ==
  ASSUME NEW n \in Nat
  PROVE  /\ Summable([p \in Players |-> n], Players)
         /\ SumFunctionOnSet([p \in Players |-> n], Players) = n * Cardinality(Players)
  <1> DEFINE f == [p \in Players |-> n]
             T == {s \in SUBSET Players : SumFunctionOnSet(f, s) # n * Cardinality(s)}
  <1>1. \A s \in SUBSET Players : IsFiniteSet(s) /\ Summable(f, s)
    BY MarketAssumption, FS_Subset DEF Summable
  <1>2. ASSUME T # {} PROVE FALSE
    <2>1. PICK s \in T : \A x \in s : s \ {x} \notin T
      BY <1>2, SmallestSubset, MarketAssumption
    <2>2. CASE s = {}
      BY <2>1, <2>2, SumEmpty, FS_EmptySet
    <2>3. CASE s # {}
      <3>1. PICK x \in s : TRUE
        BY <2>3
      <3> DEFINE r == s \ {x}
      <3>2. SumFunctionOnSet(f, r) = n * Cardinality(r) /\ f[x] = n
        BY <2>1, <3>1
      <3>3. SumFunctionOnSet(f, s) = f[x] + SumFunctionOnSet(f, r)
        BY <1>1, <2>1, <3>1, SumRemove
      <3>4. Cardinality(r) = Cardinality(s) - 1 /\ Cardinality(r) \in Nat /\ Cardinality(s) \in Nat
        BY <1>1, <2>1, <3>1, FS_RemoveElement, FS_CardinalityType
      <3> HIDE DEF f, r
      <3>5. SumFunctionOnSet(f, s) = n + n * (Cardinality(s) - 1)
        BY <3>2, <3>3, <3>4
      <3>6. n * (Cardinality(s) - 1) = n * Cardinality(s) - n /\ n * Cardinality(s) \in Int
        BY <3>4
      <3>7. SumFunctionOnSet(f, s) = n * Cardinality(s)
        BY <3>5, <3>6
      <3> QED  BY <2>1, <3>7 DEF f
    <2> QED  BY <2>2, <2>3
  <1> HIDE DEF f
  <1> QED  BY <1>1, <1>2 DEF f

LEMMA MarketInit == Init => MarketInv
  <1> SUFFICES ASSUME Init PROVE MarketInv
    OBVIOUS
  <1> USE MarketAssumption
  <1>1. /\ coins = [p \in Players |-> Coins] /\ items = [p \in Players |-> Items]
        /\ offers = {} /\ made = <<>> /\ answers = <<>> /\ fees = 0
        /\ recorded = [i \in Ids |-> 0] /\ asked = 0 /\ online = {} /\ inMarket = {}
        /\ down = FALSE /\ raced = FALSE
    BY DEF Init
  <1>2. TypeOK
    <2>1. coins \in [Players -> Nat] /\ items \in [Players -> Nat] /\ recorded \in [Ids -> Nat]
      BY <1>1, Constants
    <2>2. made \in Seq(Amounts) /\ answers \in Seq(SUBSET Offer)
      BY <1>1
    <2>3. offers \subseteq Offer /\ inMarket \subseteq online /\ online \subseteq Players
      BY <1>1
    <2>4. fees \in Nat /\ asked \in Nat /\ down \in BOOLEAN /\ raced \in BOOLEAN
      BY <1>1
    <2> QED  BY <2>1, <2>2, <2>3, <2>4 DEF TypeOK
  <1>3. Tables
    BY <1>1, <1>2, FS_EmptySet DEF Tables, Table
  <1>4. Records
    BY <1>1 DEF Records, HistoryAccounts
  <1>5. Sales(offers) = {} /\ Purchases(offers) = {}
    BY <1>1 DEF Sales, Purchases
  <1>6. GoodsKept
    <2>1. SumFunctionOnSet(coins, Players) = AtFirst(Coins) /\ SumFunctionOnSet(coins, Players) \in Nat
      BY <1>1, Constants, SumEach, SumType DEF AtFirst
    <2>2. SumFunctionOnSet(items, Players) = AtFirst(Items) /\ SumFunctionOnSet(items, Players) \in Nat
      BY <1>1, Constants, SumEach, SumType DEF AtFirst
    <2>3. SumFunctionOnSet(Cost, Purchases(offers)) = 0 /\ SumFunctionOnSet(Units, Sales(offers)) = 0
      BY <1>5, SumEmpty
    <2>4. AllCoins = AtFirst(Coins) /\ AllItems = AtFirst(Items)
      BY <1>1, <2>1, <2>2, <2>3 DEF AllCoins, AllItems
    <2> QED  BY <2>1, <2>2, <2>4 DEF GoodsKept
  <1> QED  BY <1>3, <1>4, <1>6 DEF MarketInv

\* The types that SMT needs one by one.
LEMMA Types ==
  ASSUME TypeOK
  PROVE  /\ coins \in [Players -> Nat] /\ items \in [Players -> Nat]
         /\ recorded \in [Ids -> Nat] /\ made \in Seq(Amounts) /\ fees \in Nat
         /\ Len(made) \in Nat /\ Summable(coins, Players) /\ Summable(items, Players)
         /\ SumFunctionOnSet(coins, Players) \in Nat /\ SumFunctionOnSet(items, Players) \in Nat
  <1>1. coins \in [Players -> Nat] /\ items \in [Players -> Nat]
    BY DEF TypeOK
  <1>2. Summable(coins, Players) /\ Summable(items, Players)
    BY <1>1, MarketAssumption DEF Summable
  <1> QED  BY <1>1, <1>2, SumType DEF TypeOK

\* Steps that leave the market as it is.
LEMMA QuietStep ==
  ASSUME MarketInv, UNCHANGED <<goods, offers, recorded, fees, answers, made, raced>>, TypeOK'
  PROVE  MarketInv'
  BY DEF MarketInv, Tables, Table, Agrees, Records, HistoryAccounts, GoodsKept,
         AllCoins, AllItems, goods

(* What the parts of a step do to the sums.                                 *)
LEMMA OneChanges ==
  ASSUME NEW c \in [Players -> Nat], NEW d \in [Players -> Nat], NEW p \in Players,
         \A q \in Players \ {p} : d[q] = c[q]
  PROVE  /\ SumFunctionOnSet(d, Players) + c[p] = SumFunctionOnSet(c, Players) + d[p]
         /\ SumFunctionOnSet(d, Players) \in Nat /\ SumFunctionOnSet(c, Players) \in Nat
  <1>1. Summable(c, Players) /\ Summable(d, Players) /\ d[p] \in Nat
    BY MarketAssumption DEF Summable
  <1> QED  BY <1>1, SumChange, SumType

Gains(d, c, p, v) == d = [c EXCEPT ![p] = @ + v]
Loses(d, c, p, v) == d = [c EXCEPT ![p] = @ - v]

LEMMA Gain ==
  ASSUME NEW c \in [Players -> Nat], NEW p \in Players, NEW v \in Nat,
         NEW d, Gains(d, c, p, v)
  PROVE  /\ d \in [Players -> Nat]
         /\ SumFunctionOnSet(d, Players) = SumFunctionOnSet(c, Players) + v
  <1>1. d \in [Players -> Nat] /\ d[p] = c[p] + v /\ \A q \in Players \ {p} : d[q] = c[q]
    BY DEF Gains
  <1>2. /\ SumFunctionOnSet(d, Players) + c[p] = SumFunctionOnSet(c, Players) + d[p]
        /\ SumFunctionOnSet(d, Players) \in Nat /\ SumFunctionOnSet(c, Players) \in Nat
    BY <1>1, OneChanges
  <1> QED  BY <1>1, <1>2

LEMMA Lose ==
  ASSUME NEW c \in [Players -> Nat], NEW p \in Players, NEW v \in Nat, v <= c[p],
         NEW d, Loses(d, c, p, v)
  PROVE  /\ d \in [Players -> Nat]
         /\ SumFunctionOnSet(d, Players) + v = SumFunctionOnSet(c, Players)
  <1>1. d \in [Players -> Nat] /\ d[p] = c[p] - v /\ \A q \in Players \ {p} : d[q] = c[q]
    BY DEF Loses
  <1>2. /\ SumFunctionOnSet(d, Players) + c[p] = SumFunctionOnSet(c, Players) + d[p]
        /\ SumFunctionOnSet(d, Players) \in Nat /\ SumFunctionOnSet(c, Players) \in Nat
    BY <1>1, OneChanges
  <1> QED  BY <1>1, <1>2

LEMMA GiveBackSums ==
  ASSUME TypeOK, NEW rows \in SUBSET Offer, IsFiniteSet(rows), GiveBack(rows)
  PROVE  /\ coins' \in [Players -> Nat] /\ items' \in [Players -> Nat]
         /\ SumFunctionOnSet(coins', Players)
               = SumFunctionOnSet(coins, Players) + SumFunctionOnSet(Cost, Purchases(rows))
         /\ SumFunctionOnSet(items', Players)
               = SumFunctionOnSet(items, Players) + SumFunctionOnSet(Units, Sales(rows))
  <1>1. ASSUME NEW c \in [Players -> Nat], NEW f, NEW R \in SUBSET Offer, Summable(f, R),
               NEW d, d = [p \in Players |-> c[p] + SumFunctionOnSet(f, Of(p, R))]
        PROVE  /\ d \in [Players -> Nat]
               /\ SumFunctionOnSet(d, Players) = SumFunctionOnSet(c, Players) + SumFunctionOnSet(f, R)
    <2> DEFINE share == [p \in Players |-> SumFunctionOnSet(f, Of(p, R))]
    <2>1. Summable(share, Players) /\ SumFunctionOnSet(share, Players) = SumFunctionOnSet(f, R)
      BY <1>1, SumShares
    <2>2. Summable(c, Players)
      BY MarketAssumption DEF Summable
    <2>3. \A p \in Players : d[p] = c[p] + share[p]
      BY <1>1
    <2> HIDE DEF share
    <2>4. /\ Summable(d, Players)
          /\ SumFunctionOnSet(d, Players) = SumFunctionOnSet(c, Players) + SumFunctionOnSet(share, Players)
      BY <2>1, <2>2, <2>3, SumPlus
    <2>5. d \in [Players -> Nat]
      <3>1. \A p \in Players : d[p] \in Nat
        BY <2>4 DEF Summable
      <3>2. d = [p \in Players |-> d[p]]
        BY <1>1
      <3> QED  BY <3>1, <3>2
    <2> QED  BY <2>1, <2>4, <2>5
  <1>2. /\ Summable(Cost, Purchases(rows)) /\ Summable(Units, Sales(rows))
        /\ Purchases(rows) \in SUBSET Offer /\ Sales(rows) \in SUBSET Offer
    BY OfferSums
  <1>3. /\ coins' = [p \in Players |-> coins[p] + SumFunctionOnSet(Cost, Of(p, Purchases(rows)))]
        /\ items' = [p \in Players |-> items[p] + SumFunctionOnSet(Units, Of(p, Sales(rows)))]
    BY DEF GiveBack, CoinsBack, ItemsBack
  <1>4. coins \in [Players -> Nat] /\ items \in [Players -> Nat]
    BY Types
  <1>5. /\ coins' \in [Players -> Nat]
        /\ SumFunctionOnSet(coins', Players)
              = SumFunctionOnSet(coins, Players) + SumFunctionOnSet(Cost, Purchases(rows))
    BY <1>1, <1>2, <1>3, <1>4
  <1>6. /\ items' \in [Players -> Nat]
        /\ SumFunctionOnSet(items', Players)
              = SumFunctionOnSet(items, Players) + SumFunctionOnSet(Units, Sales(rows))
    BY <1>1, <1>2, <1>3, <1>4
  <1> QED  BY <1>5, <1>6

LEMMA HistoryMove ==
  ASSUME Tables, Records, NEW os \in SUBSET offers, MoveToHistory(os), made' = made
  PROVE  /\ offers' = offers \ os /\ offers' \subseteq offers
         /\ recorded' \in [Ids -> Nat] /\ Records'
         /\ SumFunctionOnSet(Cost, Purchases(offers))
               = SumFunctionOnSet(Cost, Purchases(os)) + SumFunctionOnSet(Cost, Purchases(offers'))
         /\ SumFunctionOnSet(Units, Sales(offers))
               = SumFunctionOnSet(Units, Sales(os)) + SumFunctionOnSet(Units, Sales(offers'))
         /\ SumFunctionOnSet(Cost, Purchases(offers')) \in Nat
         /\ SumFunctionOnSet(Units, Sales(offers')) \in Nat
         /\ SumFunctionOnSet(Cost, Purchases(os)) \in Nat
         /\ SumFunctionOnSet(Units, Sales(os)) \in Nat
  <1>1. /\ offers' = offers \ os
        /\ recorded' = [i \in Ids |-> recorded[i] + SumFunctionOnSet(Units, WithId(i, os))]
    BY DEF MoveToHistory
  <1>2. /\ offers \in SUBSET Offer /\ IsFiniteSet(offers) /\ TypeOK /\ Len(made) <= MaxId
        /\ os \in SUBSET Offer /\ IsFiniteSet(os)
        /\ \A o \in offers : o.id <= Len(made)
    BY FS_Subset DEF Tables, Table
  <1>3. /\ Summable(Cost, Purchases(offers)) /\ Summable(Units, Sales(offers))
        /\ \A i : Summable(Units, WithId(i, offers)) /\ Summable(Units, WithId(i, os))
    BY <1>2, OfferSums
  <1>4. /\ Purchases(os) \in SUBSET Purchases(offers)
        /\ Purchases(offers) \ Purchases(os) = Purchases(offers')
        /\ Sales(os) \in SUBSET Sales(offers)
        /\ Sales(offers) \ Sales(os) = Sales(offers')
        /\ \A i : WithId(i, os) \in SUBSET WithId(i, offers)
        /\ \A i : WithId(i, offers) \ WithId(i, os) = WithId(i, offers')
    BY <1>1 DEF Purchases, Sales, WithId
  <1>5. ASSUME NEW f, NEW S, Summable(f, S), NEW T \in SUBSET S
        PROVE  /\ SumFunctionOnSet(f, S) = SumFunctionOnSet(f, T) + SumFunctionOnSet(f, S \ T)
               /\ SumFunctionOnSet(f, T) \in Nat /\ SumFunctionOnSet(f, S \ T) \in Nat
    <2>1. /\ SumFunctionOnSet(f, S) = SumFunctionOnSet(f, T) + SumFunctionOnSet(f, S \ T)
          /\ Summable(f, T) /\ Summable(f, S \ T)
      BY <1>5, SumSplit
    <2> QED  BY <2>1, SumType
  <1>6. /\ SumFunctionOnSet(Cost, Purchases(offers))
              = SumFunctionOnSet(Cost, Purchases(os)) + SumFunctionOnSet(Cost, Purchases(offers'))
        /\ SumFunctionOnSet(Cost, Purchases(offers')) \in Nat
        /\ SumFunctionOnSet(Cost, Purchases(os)) \in Nat
    BY <1>3, <1>4, <1>5
  <1>7. /\ SumFunctionOnSet(Units, Sales(offers))
              = SumFunctionOnSet(Units, Sales(os)) + SumFunctionOnSet(Units, Sales(offers'))
        /\ SumFunctionOnSet(Units, Sales(offers')) \in Nat
        /\ SumFunctionOnSet(Units, Sales(os)) \in Nat
    BY <1>3, <1>4, <1>5
  <1>8. \A i : /\ SumFunctionOnSet(Units, WithId(i, offers))
                     = SumFunctionOnSet(Units, WithId(i, os)) + SumFunctionOnSet(Units, WithId(i, offers'))
               /\ SumFunctionOnSet(Units, WithId(i, offers')) \in Nat
               /\ SumFunctionOnSet(Units, WithId(i, os)) \in Nat
    BY <1>3, <1>4, <1>5
  <1>9. recorded \in [Ids -> Nat] /\ made \in Seq(Amounts) /\ Len(made) \in Nat
    BY <1>2, Types
  <1>10. recorded' \in [Ids -> Nat]
    BY <1>1, <1>8, <1>9
  <1>11. HistoryAccounts'
    <2> SUFFICES ASSUME NEW i \in DOMAIN made
                 PROVE  made[i] = recorded'[i] + SumFunctionOnSet(Units, WithId(i, offers'))
      BY DEF HistoryAccounts
    <2>1. i \in Ids
      BY <1>2, <1>9, Constants DEF Ids
    <2>2. made[i] = recorded[i] + SumFunctionOnSet(Units, WithId(i, offers))
      BY DEF Records, HistoryAccounts
    <2>3. recorded'[i] = recorded[i] + SumFunctionOnSet(Units, WithId(i, os)) /\ recorded[i] \in Nat
      BY <1>1, <1>9, <2>1
    <2> QED  BY <1>8, <2>2, <2>3
  <1>12. ASSUME NEW i \in Ids, i > Len(made) PROVE recorded'[i] = 0
    <2>1. WithId(i, os) = {}
      <3>1. \A o \in os : o.id <= Len(made) /\ o.id \in Nat
        BY <1>2, OfferFields, Constants
      <3>2. i \in Nat
        BY Constants
      <3> QED  BY <1>9, <1>12, <3>1, <3>2 DEF WithId
    <2>2. SumFunctionOnSet(Units, WithId(i, os)) = 0
      BY <2>1, SumEmpty
    <2>3. recorded[i] = 0
      BY <1>12 DEF Records
    <2> QED  BY <1>1, <2>2, <2>3
  <1> QED  BY <1>1, <1>6, <1>7, <1>10, <1>11, <1>12 DEF Records

\* One offer o of os gives n units, and R is what is left of it.
UniqueIds(os) == \A x, y \in os : x.id = y.id => x = y

Left(o, n, R) ==
    IF n = o.amount THEN R = {}
    ELSE \E q \in Offer :
             /\ R = {q} /\ q.id = o.id /\ q.owner = o.owner /\ q.sale = o.sale
             /\ q.price = o.price /\ q.amount = o.amount - n

Shrinks(os, ns, o, n) ==
    /\ ns \in SUBSET Offer /\ IsFiniteSet(ns) /\ UniqueIds(ns)
    /\ \A i : i # o.id => WithId(i, ns) = WithId(i, os)
    /\ SumFunctionOnSet(Units, WithId(o.id, ns)) + n = SumFunctionOnSet(Units, WithId(o.id, os))
    /\ o.sale => /\ SumFunctionOnSet(Units, Sales(ns)) + n = SumFunctionOnSet(Units, Sales(os))
                 /\ Purchases(ns) = Purchases(os)
    /\ ~o.sale => /\ SumFunctionOnSet(Cost, Purchases(ns)) + o.price * n
                        = SumFunctionOnSet(Cost, Purchases(os))
                  /\ Sales(ns) = Sales(os)
    /\ \A S \in {os, ns} : /\ SumFunctionOnSet(Units, Sales(S)) \in Nat
                           /\ SumFunctionOnSet(Cost, Purchases(S)) \in Nat
                           /\ \A i : SumFunctionOnSet(Units, WithId(i, S)) \in Nat

LEMMA OfferShrinks ==
  ASSUME NEW os \in SUBSET Offer, IsFiniteSet(os), UniqueIds(os),
         NEW o \in os, NEW n \in Nat, n <= o.amount,
         NEW R, Left(o, n, R), NEW ns, ns = (os \ {o}) \cup R
  PROVE  Shrinks(os, ns, o, n)
  <1>1. /\ o \in Offer /\ o.amount \in Nat /\ o.price \in Nat /\ Units[o] = o.amount
        /\ Cost[o] = o.price * o.amount
    BY OfferFields
  <1>2. /\ R \in SUBSET Offer /\ IsFiniteSet(R) /\ R \cap (os \ {o}) = {}
        /\ \A x \in R : x.id = o.id /\ x.sale = o.sale
    <2>1. R \in SUBSET Offer /\ \A x \in R : x.id = o.id /\ x.sale = o.sale
      BY DEF Left
    <2>2. IsFiniteSet(R)
      BY FS_EmptySet, FS_Singleton DEF Left
    <2>3. R \cap (os \ {o}) = {}
      BY <2>1 DEF UniqueIds
    <2> QED  BY <2>1, <2>2, <2>3
  <1>3. ns \in SUBSET Offer /\ IsFiniteSet(ns)
    <2>1. IsFiniteSet(os \ {o})
      BY FS_RemoveElement
    <2>2. IsFiniteSet((os \ {o}) \cup R)
      BY <1>2, <2>1, FS_Union
    <2> QED  BY <1>2, <2>2
  <1>4. UniqueIds(ns)
    <2>1. \A x, y \in R : x = y
      BY DEF Left
    <2> QED  BY <1>2, <2>1 DEF UniqueIds
  <1>5. /\ Summable(Units, R) /\ SumFunctionOnSet(Units, R) = o.amount - n
        /\ Summable(Cost, R) /\ SumFunctionOnSet(Cost, R) = o.price * (o.amount - n)
    <2>1. Summable(Units, R) /\ Summable(Cost, R)
      BY <1>2, OfferSums
    <2>2. CASE n = o.amount
      <3>1. R = {} /\ o.amount - n = 0 /\ o.price * (o.amount - n) = 0
        BY <1>1, <2>2 DEF Left
      <3> QED  BY <2>1, <3>1, SumEmpty
    <2>3. CASE n # o.amount
      <3>1. PICK q \in Offer : R = {q} /\ q.price = o.price /\ q.amount = o.amount - n
        BY <2>3 DEF Left
      <3>2. /\ Units[q] = o.amount - n /\ Cost[q] = o.price * (o.amount - n)
            /\ Units[q] \in Nat /\ Cost[q] \in Nat
        BY <3>1, OfferFields
      <3>3. SumFunctionOnSet(Units, {q}) = Units[q] /\ SumFunctionOnSet(Cost, {q}) = Cost[q]
        BY <3>2, SumOne
      <3> QED  BY <2>1, <3>1, <3>2, <3>3
    <2> QED  BY <2>2, <2>3
  <1>6. ASSUME NEW f, NEW S \in SUBSET os, Summable(f, S), o \in S, Summable(f, R)
        PROVE  SumFunctionOnSet(f, (S \ {o}) \cup R) + f[o]
                  = SumFunctionOnSet(f, S) + SumFunctionOnSet(f, R)
    <2>1. R \cap (S \ {o}) = {}
      BY <1>2
    <2> QED  BY <1>6, <2>1, SumReplace
  <1>7. \A S : S \in SUBSET Offer /\ IsFiniteSet(S) =>
            /\ SumFunctionOnSet(Units, Sales(S)) \in Nat
            /\ SumFunctionOnSet(Cost, Purchases(S)) \in Nat
            /\ \A i : SumFunctionOnSet(Units, WithId(i, S)) \in Nat
    BY OfferSums, SumType
  <1>8. /\ \A i : i # o.id => WithId(i, ns) = WithId(i, os)
        /\ WithId(o.id, ns) = (WithId(o.id, os) \ {o}) \cup R /\ o \in WithId(o.id, os)
    BY <1>2 DEF WithId
  <1>9. \A S \in {WithId(o.id, os), Sales(os)} :
            Summable(Units, S) /\ S \in SUBSET os /\ SumFunctionOnSet(Units, S) \in Nat
    BY OfferSums, SumType
  <1>10. SumFunctionOnSet(Units, WithId(o.id, ns)) + n = SumFunctionOnSet(Units, WithId(o.id, os))
    <2>1. Summable(Units, WithId(o.id, ns))
      BY <1>3, OfferSums
    <2>2. /\ SumFunctionOnSet(Units, WithId(o.id, ns)) \in Nat
          /\ SumFunctionOnSet(Units, WithId(o.id, os)) \in Nat
      BY <1>9, <2>1, SumType
    <2>3. SumFunctionOnSet(Units, WithId(o.id, ns)) + o.amount
             = SumFunctionOnSet(Units, WithId(o.id, os)) + (o.amount - n)
      BY <1>1, <1>5, <1>6, <1>8, <1>9
    <2> QED  BY <1>1, <2>2, <2>3
  <1>11. ASSUME o.sale
         PROVE  /\ SumFunctionOnSet(Units, Sales(ns)) + n = SumFunctionOnSet(Units, Sales(os))
                /\ Purchases(ns) = Purchases(os)
    <2>1. Sales(ns) = (Sales(os) \ {o}) \cup R /\ o \in Sales(os) /\ Purchases(ns) = Purchases(os)
      BY <1>2, <1>11 DEF Sales, Purchases
    <2>2. SumFunctionOnSet(Units, Sales(ns)) \in Nat /\ SumFunctionOnSet(Units, Sales(os)) \in Nat
      BY <1>3, OfferSums, SumType
    <2>3. SumFunctionOnSet(Units, Sales(ns)) + o.amount
             = SumFunctionOnSet(Units, Sales(os)) + (o.amount - n)
      BY <1>1, <1>5, <1>6, <1>9, <2>1
    <2>4. \A a, b, c \in Nat : a + c = b + (c - n) => a + n = b
      OBVIOUS
    <2>5. SumFunctionOnSet(Units, Sales(ns)) + n = SumFunctionOnSet(Units, Sales(os))
      BY ZenonT(30), <1>1, <2>2, <2>3, <2>4
    <2> QED  BY <2>1, <2>5
  <1>12. ASSUME ~o.sale
         PROVE  /\ SumFunctionOnSet(Cost, Purchases(ns)) + o.price * n
                      = SumFunctionOnSet(Cost, Purchases(os))
                /\ Sales(ns) = Sales(os)
    <2>1. /\ Purchases(ns) = (Purchases(os) \ {o}) \cup R /\ o \in Purchases(os)
          /\ Sales(ns) = Sales(os)
      BY <1>2, <1>12 DEF Sales, Purchases
    <2>2. /\ SumFunctionOnSet(Cost, Purchases(ns)) \in Nat
          /\ SumFunctionOnSet(Cost, Purchases(os)) \in Nat
      BY <1>3, OfferSums, SumType
    <2>3. Summable(Cost, Purchases(os)) /\ Purchases(os) \in SUBSET os
      BY OfferSums
    <2>4. SumFunctionOnSet(Cost, Purchases(ns)) + o.price * o.amount
             = SumFunctionOnSet(Cost, Purchases(os)) + o.price * (o.amount - n)
      BY <1>1, <1>5, <1>6, <2>1, <2>3
    <2>5. /\ o.price * (o.amount - n) = o.price * o.amount - o.price * n
          /\ o.price * o.amount \in Nat /\ o.price * n \in Nat
      BY <1>1
    <2> QED  BY <2>1, <2>2, <2>4, <2>5
  <1> QED  BY <1>3, <1>4, <1>7, <1>8, <1>10, <1>11, <1>12 DEF Shrinks

\* What a step that leaves the types alone keeps of them.
LEMMA QuietActions ==
  ASSUME MarketInv,
         \/ \E p \in Players : Login(p) \/ Logout(p) \/ EnterMarket(p) \/ LeaveMarket(p)
         \/ \E p \in Players, o \in offers, n \in Amounts : PlayerAcceptOffline(p, o, n)
         \/ CheckExpiredOffers
         \/ UNCHANGED vars
  PROVE  MarketInv'
  <1>1. UNCHANGED <<goods, offers, recorded, fees, answers, made, raced>>
    BY DEF Login, Logout, EnterMarket, LeaveMarket, PlayerAcceptOffline,
           CheckExpiredOffers, vars, goods, checks
  <1>2. /\ coins' = coins /\ items' = items /\ offers' = offers /\ recorded' = recorded
        /\ fees' = fees /\ answers' = answers /\ made' = made /\ raced' = raced
    BY <1>1 DEF goods
  <1>3. /\ inMarket \subseteq online /\ online \subseteq Players /\ down \in BOOLEAN
        /\ asked \in Nat /\ TypeOK
    BY DEF MarketInv, Tables, TypeOK
  <1>4. inMarket' \subseteq online' /\ online' \subseteq Players
    BY <1>3 DEF Login, Logout, EnterMarket, LeaveMarket, PlayerAcceptOffline,
                CheckExpiredOffers, vars, checks
  <1>5. asked' \in Nat
    BY <1>3 DEF Login, Logout, EnterMarket, LeaveMarket, PlayerAcceptOffline,
                CheckExpiredOffers, vars, checks
  <1>6. down' \in BOOLEAN
    BY <1>3 DEF Login, Logout, EnterMarket, LeaveMarket, PlayerAcceptOffline,
                CheckExpiredOffers, vars, checks
  <1>7. TypeOK'
    BY <1>2, <1>3, <1>4, <1>5, <1>6 DEF TypeOK
  <1> QED  BY <1>1, <1>7, QuietStep

\* The rows are the offers that are due, as they are now.
LEMMA SelectExpiredStep == MarketInv /\ SelectExpired => MarketInv'
  <1> SUFFICES ASSUME MarketInv, SelectExpired PROVE MarketInv'
    OBVIOUS
  <1> DEFINE rows == {o \in offers : o.due}
  <1>1. /\ asked' = asked - 1 /\ asked > 0 /\ answers' = Append(answers, rows)
        /\ coins' = coins /\ items' = items /\ offers' = offers /\ recorded' = recorded
        /\ fees' = fees /\ made' = made /\ raced' = raced /\ online' = online
        /\ inMarket' = inMarket /\ down' = down
    BY DEF SelectExpired, goods
  <1>2. /\ TypeOK /\ Table(offers) /\ offers \subseteq Offer /\ answers \in Seq(SUBSET Offer)
        /\ asked \in Nat
        /\ \A k \in 1 .. Len(answers) : Table(answers[k]) /\ Agrees(answers[k])
    BY DEF MarketInv, Tables, TypeOK
  <1>3. Table(rows) /\ Agrees(rows)
    <2>1. rows \in SUBSET offers /\ IsFiniteSet(rows)
      BY <1>2, FS_Subset DEF Table
    <2>2. Table(rows)
      BY <1>2, <2>1 DEF Table
    <2>3. ASSUME NEW row \in rows, NEW o \in offers, row.id = o.id
          PROVE  row = o /\ o.due /\ o.amount \in Nat
      BY <1>2, <2>3, OfferFields DEF Table
    <2> QED  BY <2>2, <2>3 DEF Agrees
  <1>4. rows \in SUBSET Offer
    BY <1>3 DEF Table
  <1> HIDE DEF rows
  <1>5. asked' \in Nat /\ answers' \in Seq(SUBSET Offer)
    BY <1>1, <1>2, <1>4
  <1>6. TypeOK'
    BY <1>1, <1>2, <1>5 DEF TypeOK
  <1>7. ASSUME NEW k \in 1 .. Len(answers') PROVE Table(answers'[k]) /\ Agrees(answers'[k])
    <2>1. CASE k = Len(answers) + 1
      BY <1>1, <1>2, <1>3, <1>4, <2>1
    <2>2. CASE k # Len(answers) + 1
      BY <1>1, <1>2, <1>4, <1>7, <2>2
    <2> QED  BY <2>1, <2>2
  <1>8. Tables'
    <2>1. ASSUME NEW k \in 1 .. Len(answers')
          PROVE  (Table(answers[k]) /\ Agrees(answers[k]))'
      <3>1. Table(answers'[k]) /\ Agrees(answers'[k])
        BY <1>7
      <3> QED  BY <1>1, <3>1 DEF Table, Agrees
    <2>2. Table(offers)' /\ (Len(made) <= MaxId)'
      BY <1>1 DEF MarketInv, Tables, Table
    <2> QED  BY <1>6, <2>1, <2>2 DEF Tables
  <1>9. Records' /\ GoodsKept'
    BY <1>1 DEF MarketInv, Records, HistoryAccounts, GoodsKept, AllCoins, AllItems
  <1> QED  BY <1>8, <1>9 DEF MarketInv

\* The same offer, due.
LEMMA DueStep == ASSUME MarketInv, NEW o \in offers, Due(o) PROVE MarketInv'
  <1> DEFINE q == [o EXCEPT !.due = TRUE]
  <1>1. /\ offers' = (offers \ {o}) \cup {q} /\ o.due = FALSE
        /\ coins' = coins /\ items' = items /\ recorded' = recorded
        /\ fees' = fees /\ made' = made /\ raced' = raced /\ online' = online
        /\ inMarket' = inMarket /\ down' = down /\ answers' = answers /\ asked' = asked
    <2>1. o.due \in BOOLEAN
      BY DEF MarketInv, Tables, TypeOK, Offer
    <2> QED  BY <2>1 DEF Due, goods, checks
  <1>2. /\ TypeOK /\ Table(offers) /\ offers \in SUBSET Offer /\ IsFiniteSet(offers)
        /\ \A k \in 1 .. Len(answers) : Table(answers[k]) /\ Agrees(answers[k])
        /\ Len(made) <= MaxId
    BY DEF MarketInv, Tables, TypeOK, Table
  <1>3. /\ q \in Offer /\ q.id = o.id /\ q.owner = o.owner /\ q.sale = o.sale
        /\ q.price = o.price /\ q.amount = o.amount
    BY <1>2 DEF Offer
  <1> HIDE DEF q
  <1>4. o.amount # 0 /\ o.amount \in Nat /\ o.price \in Nat
    BY <1>2, OfferFields
  <1>5. Left(o, 0, {q})
    BY <1>3, <1>4 DEF Left
  <1>6. Shrinks(offers, offers', o, 0)
    <2>1. UniqueIds(offers)
      BY <1>2 DEF Table, UniqueIds
    <2> QED  BY <1>1, <1>2, <1>4, <1>5, <2>1, OfferShrinks
  <1>7. offers' \in SUBSET Offer /\ IsFiniteSet(offers') /\ UniqueIds(offers')
    BY <1>6 DEF Shrinks
  <1>8. /\ SumFunctionOnSet(Units, Sales(offers')) = SumFunctionOnSet(Units, Sales(offers))
        /\ SumFunctionOnSet(Cost, Purchases(offers')) = SumFunctionOnSet(Cost, Purchases(offers))
    <2>1. o.price * 0 = 0
      BY <1>4
    <2>2. o.sale \in BOOLEAN
      BY <1>2, OfferFields
    <2> QED  BY <1>6, <2>1, <2>2 DEF Shrinks
  <1>9. \A i : SumFunctionOnSet(Units, WithId(i, offers')) = SumFunctionOnSet(Units, WithId(i, offers))
    <2>1. SumFunctionOnSet(Units, WithId(o.id, offers')) = SumFunctionOnSet(Units, WithId(o.id, offers))
      BY <1>6 DEF Shrinks
    <2> QED  BY <1>6, <2>1 DEF Shrinks
  <1>10. TypeOK'
    BY <1>1, <1>2, <1>7 DEF TypeOK
  <1>11. Table(offers)'
    <2>1. \A x \in offers' : x.id <= Len(made)
      BY <1>1, <1>2, <1>3 DEF Table
    <2> QED  BY <1>1, <1>7, <2>1 DEF Table, UniqueIds
  <1>12. ASSUME NEW k \in 1 .. Len(answers) PROVE (Table(answers[k]) /\ Agrees(answers[k]))'
    <2>1. Table(answers[k]) /\ Agrees(answers[k])
      BY <1>2
    <2>2. \A row \in answers[k] : row.id # o.id
      BY <1>1, <2>1 DEF Agrees
    <2>3. ASSUME NEW row \in answers[k], NEW x \in offers', row.id = x.id PROVE x \in offers
      BY <1>1, <1>3, <2>2, <2>3
    <2> QED  BY <1>1, <2>1, <2>3 DEF Agrees, Table
  <1>13. Tables'
    BY <1>1, <1>2, <1>10, <1>11, <1>12 DEF Tables
  <1>14. Records'
    BY <1>1, <1>9 DEF MarketInv, Records, HistoryAccounts
  <1>15. GoodsKept'
    BY <1>1, <1>8 DEF MarketInv, GoodsKept, AllCoins, AllItems
  <1> QED  BY <1>13, <1>14, <1>15 DEF MarketInv

LEMMA FeeType == \A price, amount \in Nat : Fee(price, amount) \in Nat
  <1> SUFFICES ASSUME NEW price \in Nat, NEW amount \in Nat PROVE Fee(price, amount) \in Nat
    OBVIOUS
  <1> DEFINE c == price * amount
             fee == c \div 100
  <1>1. c \in Nat
    OBVIOUS
  <1> HIDE DEF c
  <1>2. fee \in Nat
    BY <1>1
  <1>3. MinFee \in Nat /\ MaxFee \in Nat
    BY Constants
  <1>4. Fee(price, amount) = CASE fee < MinFee -> MinFee [] fee > MaxFee -> MaxFee [] OTHER -> fee
    BY DEF Fee, c
  <1> HIDE DEF fee
  <1>5. \/ Fee(price, amount) = MinFee \/ Fee(price, amount) = MaxFee \/ Fee(price, amount) = fee
    BY <1>4
  <1> QED  BY <1>2, <1>3, <1>5

\* One more offer, with an id of its own.
Grows(os, ns, new) ==
    /\ ns \in SUBSET Offer /\ IsFiniteSet(ns)
    /\ \A i : i # new.id => WithId(i, ns) = WithId(i, os)
    /\ SumFunctionOnSet(Units, WithId(new.id, ns)) = new.amount
    /\ new.sale => /\ SumFunctionOnSet(Units, Sales(ns))
                          = SumFunctionOnSet(Units, Sales(os)) + new.amount
                   /\ Purchases(ns) = Purchases(os)
    /\ ~new.sale => /\ SumFunctionOnSet(Cost, Purchases(ns))
                          = SumFunctionOnSet(Cost, Purchases(os)) + new.price * new.amount
                    /\ Sales(ns) = Sales(os)

LEMMA OneMore ==
  ASSUME NEW os \in SUBSET Offer, IsFiniteSet(os), NEW new \in Offer,
         \A x \in os : x.id # new.id, NEW ns, ns = os \cup {new}
  PROVE  Grows(os, ns, new)
  <1>1. /\ Units[new] = new.amount /\ Cost[new] = new.price * new.amount
        /\ Units[new] \in Nat /\ Cost[new] \in Nat
    BY OfferFields
  <1>2. /\ Summable(Units, {new}) /\ SumFunctionOnSet(Units, {new}) = Units[new]
        /\ Summable(Cost, {new}) /\ SumFunctionOnSet(Cost, {new}) = Cost[new]
    BY <1>1, SumOne
  <1>3. ns \in SUBSET Offer /\ IsFiniteSet(ns)
    <2>1. IsFiniteSet({new})
      BY FS_Singleton
    <2> QED  BY <2>1, FS_Union
  <1>4. ASSUME NEW f, NEW S \in SUBSET os, Summable(f, S), Summable(f, {new})
        PROVE  SumFunctionOnSet(f, S \cup {new})
                  = SumFunctionOnSet(f, S) + SumFunctionOnSet(f, {new})
    <2>1. S \cap {new} = {}
      OBVIOUS
    <2> QED  BY <1>4, <2>1, SumUnion
  <1>5. Summable(Units, Sales(os)) /\ Summable(Cost, Purchases(os))
        /\ Sales(os) \in SUBSET os /\ Purchases(os) \in SUBSET os
    BY OfferSums
  <1>6. \A i : i # new.id => WithId(i, ns) = WithId(i, os)
    BY DEF WithId
  <1>7. SumFunctionOnSet(Units, WithId(new.id, ns)) = new.amount
    <2>1. WithId(new.id, ns) = {new}
      BY DEF WithId
    <2> QED  BY <1>1, <1>2, <2>1
  <1>8. ASSUME new.sale
        PROVE  /\ SumFunctionOnSet(Units, Sales(ns))
                     = SumFunctionOnSet(Units, Sales(os)) + new.amount
               /\ Purchases(ns) = Purchases(os)
    <2>1. Sales(ns) = Sales(os) \cup {new} /\ Purchases(ns) = Purchases(os)
      BY <1>8 DEF Sales, Purchases
    <2>2. SumFunctionOnSet(Units, Sales(os) \cup {new})
             = SumFunctionOnSet(Units, Sales(os)) + SumFunctionOnSet(Units, {new})
      BY <1>2, <1>4, <1>5
    <2> QED  BY <1>1, <1>2, <2>1, <2>2
  <1>9. ASSUME ~new.sale
        PROVE  /\ SumFunctionOnSet(Cost, Purchases(ns))
                     = SumFunctionOnSet(Cost, Purchases(os)) + new.price * new.amount
               /\ Sales(ns) = Sales(os)
    <2>1. Purchases(ns) = Purchases(os) \cup {new} /\ Sales(ns) = Sales(os)
      BY <1>9 DEF Sales, Purchases
    <2>2. SumFunctionOnSet(Cost, Purchases(os) \cup {new})
             = SumFunctionOnSet(Cost, Purchases(os)) + SumFunctionOnSet(Cost, {new})
      BY <1>2, <1>4, <1>5
    <2> QED  BY <1>1, <1>2, <2>1, <2>2
  <1> QED  BY <1>3, <1>6, <1>7, <1>8, <1>9 DEF Grows

\* What the table and the answers keep when units of one offer are accepted.
LEMMA AcceptedKeeps ==
  ASSUME MarketInv, NEW o \in offers, NEW n \in Amounts, n <= o.amount, Accepted(o, n),
         coins' \in [Players -> Nat], items' \in [Players -> Nat],
         UNCHANGED <<online, inMarket, fees, checks, down, made>>
  PROVE  Tables' /\ Records' /\ Shrinks(offers, offers', o, n) /\ (raced => raced')
  <1> DEFINE q == [o EXCEPT !.amount = @ - n]
             R == IF n = o.amount THEN {} ELSE {q}
  <1>1. /\ offers' = (offers \ {o}) \cup R
        /\ recorded' = [recorded EXCEPT ![o.id] = @ + n]
        /\ raced' = (raced \/ (n < o.amount /\ InAnswer(o)))
    BY DEF Accepted
  <1>2. /\ fees' = fees /\ made' = made /\ online' = online /\ inMarket' = inMarket
        /\ down' = down /\ answers' = answers /\ asked' = asked
    BY DEF checks
  <1>3. /\ TypeOK /\ Table(offers) /\ offers \in SUBSET Offer /\ IsFiniteSet(offers)
        /\ \A k \in 1 .. Len(answers) : Table(answers[k]) /\ Agrees(answers[k])
        /\ Len(made) <= MaxId /\ Len(made) \in Nat /\ raced \in BOOLEAN
        /\ o \in Offer /\ o.id <= Len(made) /\ recorded \in [Ids -> Nat]
    BY DEF MarketInv, Tables, TypeOK, Table
  <1>4. o.amount \in Nat \ {0} /\ o.id \in Ids /\ n \in Nat \ {0} /\ o.id \in Nat
    BY <1>3, OfferFields, Constants
  <1>5. n # o.amount =>
            /\ q \in Offer /\ q.id = o.id /\ q.owner = o.owner /\ q.sale = o.sale
            /\ q.price = o.price /\ q.due = o.due /\ q.amount = o.amount - n
    <2> SUFFICES ASSUME n # o.amount
                 PROVE  /\ q \in Offer /\ q.id = o.id /\ q.owner = o.owner /\ q.sale = o.sale
                        /\ q.price = o.price /\ q.due = o.due /\ q.amount = o.amount - n
      OBVIOUS
    <2>1. o.amount - n \in Amounts
      <3>1. o.amount \in Amounts
        BY <1>3 DEF Offer
      <3> QED  BY <1>4, <3>1, Constants DEF Amounts
    <2> QED  BY <1>3, <2>1 DEF Offer
  <1>6. \A x \in R : n # o.amount /\ x = q
    OBVIOUS
  <1> HIDE DEF q
  <1>7. Left(o, n, R)
    BY <1>5 DEF Left
  <1> HIDE DEF R
  <1>8. Shrinks(offers, offers', o, n)
    <2>1. UniqueIds(offers)
      BY <1>3 DEF Table, UniqueIds
    <2> QED  BY <1>1, <1>3, <1>4, <1>7, <2>1, OfferShrinks
  <1>9. offers' \in SUBSET Offer /\ IsFiniteSet(offers') /\ UniqueIds(offers')
    BY <1>8 DEF Shrinks
  <1>10. /\ recorded' \in [Ids -> Nat] /\ recorded'[o.id] = recorded[o.id] + n
         /\ \A i \in Ids \ {o.id} : recorded'[i] = recorded[i]
    BY <1>1, <1>3, <1>4
  <1>11. raced' \in BOOLEAN /\ (raced => raced')
    BY <1>1, <1>3 DEF InAnswer
  <1>12. TypeOK'
    BY <1>2, <1>3, <1>9, <1>10, <1>11 DEF TypeOK
  <1>13. Table(offers)'
    <2>1. \A x \in offers' : x.id <= Len(made)
      BY <1>1, <1>3, <1>5, <1>6 DEF Table
    <2> QED  BY <1>2, <1>9, <2>1 DEF Table, UniqueIds
  <1>14. ASSUME NEW k \in 1 .. Len(answers) PROVE (Table(answers[k]) /\ Agrees(answers[k]))'
    <2>1. Table(answers[k]) /\ Agrees(answers[k]) /\ answers \in Seq(SUBSET Offer)
      BY <1>3 DEF TypeOK
    <2>2. ASSUME NEW row \in answers[k], NEW x \in offers', row.id = x.id
          PROVE  /\ row.owner = x.owner /\ row.sale = x.sale /\ row.price = x.price
                 /\ row.due = x.due /\ x.due
                 /\ x.amount <= row.amount
                 /\ ~raced' => x.amount = row.amount
      <3>1. CASE x \in offers
        BY <1>11, <2>1, <2>2, <3>1 DEF Agrees
      <3>2. CASE x \notin offers
        <4>1. x = q /\ n # o.amount
          BY <1>1, <1>6, <3>2
        <4>2. /\ row.id = o.id /\ row.owner = o.owner /\ row.sale = o.sale
              /\ row.price = o.price /\ row.due = o.due /\ o.due /\ o.amount <= row.amount
          BY <1>5, <2>1, <2>2, <4>1 DEF Agrees
        <4>3. raced'
          <5>1. n < o.amount
            BY <1>4, <4>1
          <5>2. k \in DOMAIN answers
            BY <2>1
          <5> QED  BY <1>1, <4>2, <5>1, <5>2 DEF InAnswer
        <4>4. q.amount <= row.amount
          <5>1. row \in Offer
            BY <2>1, <2>2 DEF Table
          <5>2. row.amount \in Nat
            BY <5>1, OfferFields
          <5>3. q.amount = o.amount - n /\ o.amount <= row.amount
            BY <1>5, <4>1, <4>2
          <5> QED  BY <1>4, <5>2, <5>3
        <4> QED  BY <1>5, <4>1, <4>2, <4>3, <4>4
      <3> QED  BY <3>1, <3>2
    <2> QED  BY <1>2, <2>1, <2>2 DEF Agrees, Table
  <1>15. Tables'
    BY <1>2, <1>3, <1>12, <1>13, <1>14 DEF Tables
  <1>16. HistoryAccounts'
    <2> SUFFICES ASSUME NEW i \in DOMAIN made
                 PROVE  made[i] = recorded'[i] + SumFunctionOnSet(Units, WithId(i, offers'))
      BY <1>2 DEF HistoryAccounts
    <2>1. made[i] = recorded[i] + SumFunctionOnSet(Units, WithId(i, offers)) /\ i \in Ids
      <3>1. made \in Seq(Amounts) /\ MaxId \in Nat
        BY <1>3, Constants DEF TypeOK
      <3> QED  BY <1>3, <3>1 DEF MarketInv, Records, HistoryAccounts, Ids
    <2>2. CASE i = o.id
      <3>1. /\ SumFunctionOnSet(Units, WithId(i, offers')) + n
                  = SumFunctionOnSet(Units, WithId(i, offers))
            /\ SumFunctionOnSet(Units, WithId(i, offers')) \in Nat
            /\ SumFunctionOnSet(Units, WithId(i, offers)) \in Nat
        BY <1>8, <2>2 DEF Shrinks
      <3>2. recorded[i] \in Nat /\ recorded'[i] = recorded[i] + n
        BY <1>3, <1>10, <2>1, <2>2
      <3> QED  BY <1>4, <2>1, <3>1, <3>2
    <2>3. CASE i # o.id
      <3>1. WithId(i, offers') = WithId(i, offers)
        BY <1>8, <2>3 DEF Shrinks
      <3> QED  BY <1>10, <2>1, <2>3, <3>1
    <2> QED  BY <2>2, <2>3
  <1>17. Records'
    <2>1. \A i \in Ids : i > Len(made) => i # o.id /\ recorded[i] = 0
      BY <1>3, <1>4 DEF MarketInv, Records, Ids
    <2> QED  BY <1>2, <1>10, <1>16, <2>1 DEF Records
  <1> QED  BY <1>8, <1>11, <1>15, <1>17

\* Goods that only change hands.
LEMMA GoodsMoved ==
  ASSUME GoodsKept, AllCoins' = AllCoins, AllItems' = AllItems, raced => raced'
  PROVE  GoodsKept'
  BY DEF GoodsKept, AtFirst

LEMMA AcceptSaleStep ==
  ASSUME MarketInv, NEW p \in Players, NEW o \in offers, NEW n \in Amounts,
         PlayerAcceptSale(p, o, n)
  PROVE  MarketInv'
  <1>1. o \in Offer /\ o.price * n \in Nat
    <2>1. o \in Offer
      BY DEF MarketInv, Tables, TypeOK
    <2> QED  BY <2>1, OfferFields, Constants
  <1> PICK price \in Nat : price = o.price * n
    BY <1>1
  <1> DEFINE d == [coins EXCEPT ![p] = @ - price]
  <1>2. /\ n <= o.amount /\ o.sale /\ coins[p] >= price /\ o.owner # p
        /\ coins' = [coins EXCEPT ![p] = @ - price, ![o.owner] = @ + price]
        /\ items' = [items EXCEPT ![p] = @ + n]
        /\ Accepted(o, n) /\ UNCHANGED <<online, inMarket, fees, checks, down, made>>
    BY DEF PlayerAcceptSale, MayAccept
  <1>3. /\ coins \in [Players -> Nat] /\ items \in [Players -> Nat] /\ fees \in Nat
        /\ SumFunctionOnSet(coins, Players) \in Nat /\ SumFunctionOnSet(items, Players) \in Nat
        /\ o \in Offer
    BY Types DEF MarketInv, Tables, TypeOK
  <1>4. price \in Nat /\ o.owner \in Players /\ n \in Nat
    BY <1>3, OfferFields, Constants
  <1>5. /\ Gains(coins', d, o.owner, price) /\ Loses(d, coins, p, price) /\ price <= coins[p]
        /\ Gains(items', items, p, n)
    BY <1>2, <1>3, <1>4 DEF Gains, Loses
  <1>6. d \in [Players -> Nat]
        /\ SumFunctionOnSet(d, Players) + price = SumFunctionOnSet(coins, Players)
    BY <1>3, <1>4, <1>5, Lose
  <1> HIDE DEF d
  <1>7. /\ coins' \in [Players -> Nat]
        /\ SumFunctionOnSet(coins', Players) = SumFunctionOnSet(d, Players) + price
    BY <1>4, <1>5, <1>6, Gain
  <1>8. /\ items' \in [Players -> Nat]
        /\ SumFunctionOnSet(items', Players) = SumFunctionOnSet(items, Players) + n
    BY <1>3, <1>4, <1>5, Gain
  <1>9. Tables' /\ Records' /\ Shrinks(offers, offers', o, n) /\ (raced => raced')
    BY <1>2, <1>7, <1>8, AcceptedKeeps
  <1>10. /\ SumFunctionOnSet(Units, Sales(offers')) + n = SumFunctionOnSet(Units, Sales(offers))
        /\ SumFunctionOnSet(Units, Sales(offers')) \in Nat
        /\ SumFunctionOnSet(Units, Sales(offers)) \in Nat
        /\ Purchases(offers') = Purchases(offers)
    BY <1>2, <1>9 DEF Shrinks
  <1>11. AllItems' = AllItems
    BY <1>3, <1>4, <1>8, <1>10 DEF AllItems
  <1>12. AllCoins' = AllCoins
    <2>1. SumFunctionOnSet(coins', Players) = SumFunctionOnSet(coins, Players)
      BY <1>6, <1>7
    <2> QED  BY <1>2, <1>10, <2>1 DEF AllCoins
  <1>13. GoodsKept'
    BY <1>9, <1>11, <1>12, GoodsMoved DEF MarketInv
  <1> QED  BY <1>9, <1>13 DEF MarketInv

LEMMA AcceptPurchaseStep ==
  ASSUME MarketInv, NEW p \in Players, NEW o \in offers, NEW n \in Amounts,
         PlayerAcceptPurchase(p, o, n)
  PROVE  MarketInv'
  <1>1. o \in Offer /\ o.price * n \in Nat
    <2>1. o \in Offer
      BY DEF MarketInv, Tables, TypeOK
    <2> QED  BY <2>1, OfferFields, Constants
  <1> PICK price \in Nat : price = o.price * n
    BY <1>1
  <1>2. /\ n <= o.amount /\ ~o.sale
        /\ coins' = [coins EXCEPT ![p] = @ + price] /\ items' = items
        /\ Accepted(o, n) /\ UNCHANGED <<online, inMarket, fees, checks, down, made>>
    BY DEF PlayerAcceptPurchase, MayAccept
  <1>3. /\ coins \in [Players -> Nat] /\ items \in [Players -> Nat] /\ fees \in Nat
        /\ SumFunctionOnSet(coins, Players) \in Nat /\ o \in Offer
    BY Types DEF MarketInv, Tables, TypeOK
  <1>4. Gains(coins', coins, p, price)
    BY <1>2 DEF Gains
  <1>5. price = o.price * n
    OBVIOUS
  <1>6. /\ coins' \in [Players -> Nat]
        /\ SumFunctionOnSet(coins', Players) = SumFunctionOnSet(coins, Players) + price
    BY <1>3, <1>4, Gain
  <1>7. Tables' /\ Records' /\ Shrinks(offers, offers', o, n) /\ (raced => raced')
    <2>1. items' \in [Players -> Nat]
      BY <1>2, <1>3
    <2> QED  BY <1>2, <1>6, <2>1, AcceptedKeeps
  <1>8. /\ SumFunctionOnSet(Cost, Purchases(offers')) + price
              = SumFunctionOnSet(Cost, Purchases(offers))
        /\ SumFunctionOnSet(Cost, Purchases(offers')) \in Nat
        /\ SumFunctionOnSet(Cost, Purchases(offers)) \in Nat
        /\ Sales(offers') = Sales(offers)
    BY <1>2, <1>5, <1>7 DEF Shrinks
  <1>9. AllItems' = AllItems
    BY <1>2, <1>8 DEF AllItems
  <1>10. AllCoins' = AllCoins
    <2>1. fees' = fees
      BY <1>2
    <2> QED  BY <1>3, <1>4, <1>6, <1>8, <2>1 DEF AllCoins
  <1>11. GoodsKept'
    BY <1>7, <1>9, <1>10, GoodsMoved DEF MarketInv
  <1> QED  BY <1>7, <1>11 DEF MarketInv

LEMMA CreateStep ==
  ASSUME MarketInv, NEW p \in Players, NEW sale \in BOOLEAN, NEW amount \in Amounts,
         NEW price \in Prices, PlayerCreateMarketOffer(p, sale, amount, price)
  PROVE  MarketInv'
  <1>1. amount \in Nat \ {0} /\ price \in Nat \ {0} /\ price * amount \in Nat
    BY Constants
  <1> PICK fee \in Nat : fee = Fee(price, amount)
    BY <1>1, FeeType
  <1> PICK worth \in Nat : worth = price * amount
    BY <1>1
  <1> PICK cost \in Nat : cost = fee + (IF sale THEN 0 ELSE worth)
    OBVIOUS
  <1> DEFINE new == [id |-> Len(made'), owner |-> p, sale |-> sale,
                     amount |-> amount, price |-> price, due |-> FALSE]
  <1>2. /\ Len(made) < MaxId /\ cost <= coins[p] /\ (sale => items[p] >= amount)
        /\ coins' = [coins EXCEPT ![p] = @ - cost]
        /\ items' = [items EXCEPT ![p] = IF sale THEN @ - amount ELSE @]
        /\ fees' = fees + fee /\ made' = Append(made, amount) /\ offers' = offers \cup {new}
        /\ online' = online /\ inMarket' = inMarket /\ recorded' = recorded
        /\ asked' = asked /\ answers' = answers /\ down' = down /\ raced' = raced
    BY DEF PlayerCreateMarketOffer, checks
  <1>3. /\ TypeOK /\ Table(offers) /\ offers \in SUBSET Offer /\ IsFiniteSet(offers)
        /\ \A k \in 1 .. Len(answers) : Table(answers[k]) /\ Agrees(answers[k])
        /\ made \in Seq(Amounts) /\ Len(made) \in Nat
        /\ \A x \in offers : x.id <= Len(made)
    BY DEF MarketInv, Tables, TypeOK, Table
  <1>4. /\ coins \in [Players -> Nat] /\ items \in [Players -> Nat] /\ fees \in Nat
        /\ SumFunctionOnSet(coins, Players) \in Nat /\ SumFunctionOnSet(items, Players) \in Nat
        /\ recorded \in [Ids -> Nat]
    BY <1>3, Types
  <1>5. /\ made' \in Seq(Amounts) /\ Len(made') = Len(made) + 1 /\ Len(made') \in Ids
        /\ Len(made') <= MaxId /\ made'[Len(made) + 1] = amount
        /\ \A i \in 1 .. Len(made) : made'[i] = made[i]
    BY SMTT(30), <1>2, <1>3, Constants DEF Ids
  <1>6. /\ new \in Offer /\ new.id = Len(made') /\ new.sale = sale /\ new.amount = amount
        /\ new.price = price /\ new.owner = p
    BY <1>5 DEF Offer
  <1> HIDE DEF new
  <1>7. \A i : i \in Ids => i \in Nat
    BY Constants
  <1>8. \A x \in offers : x.id # new.id
    <2> SUFFICES ASSUME NEW x \in offers PROVE x.id # new.id
      OBVIOUS
    <2>1. x.id \in Nat /\ x.id <= Len(made)
      BY <1>3, <1>7, OfferFields
    <2> QED  BY <1>3, <1>5, <1>6, <2>1
  <1>9. /\ offers' \in SUBSET Offer /\ IsFiniteSet(offers')
        /\ \A i : i # new.id => WithId(i, offers') = WithId(i, offers)
        /\ SumFunctionOnSet(Units, WithId(new.id, offers')) = amount
        /\ sale => /\ SumFunctionOnSet(Units, Sales(offers'))
                         = SumFunctionOnSet(Units, Sales(offers)) + amount
                   /\ Purchases(offers') = Purchases(offers)
        /\ ~sale => /\ SumFunctionOnSet(Cost, Purchases(offers'))
                          = SumFunctionOnSet(Cost, Purchases(offers)) + worth
                    /\ Sales(offers') = Sales(offers)
    <2>1. Grows(offers, offers', new)
      BY <1>2, <1>3, <1>6, <1>8, OneMore
    <2>2. new.price * new.amount = worth
      BY <1>6
    <2> QED  BY <1>6, <2>1, <2>2 DEF Grows
  <1>10. /\ coins' \in [Players -> Nat]
         /\ SumFunctionOnSet(coins', Players) + cost = SumFunctionOnSet(coins, Players)
    <2>1. Loses(coins', coins, p, cost) /\ cost <= coins[p]
      BY <1>2 DEF Loses
    <2> QED  BY <1>4, <2>1, Lose
  <1>11. /\ items' \in [Players -> Nat]
         /\ SumFunctionOnSet(items', Players) + (IF sale THEN amount ELSE 0)
               = SumFunctionOnSet(items, Players)
    <2>1. CASE sale
      <3>1. Loses(items', items, p, amount) /\ amount <= items[p]
        BY <1>1, <1>2, <1>4, <2>1 DEF Loses
      <3> QED  BY <1>1, <1>4, <2>1, <3>1, Lose
    <2>2. CASE ~sale
      <3>1. items' = items
        BY <1>2, <1>4, <2>2
      <3> QED  BY <1>4, <2>2, <3>1
    <2> QED  BY <2>1, <2>2
  <1>12. TypeOK'
    <2>1. fees' \in Nat
      BY <1>2, <1>4
    <2> QED  BY <1>2, <1>3, <1>5, <1>9, <1>10, <1>11, <2>1 DEF TypeOK
  <1>13. Table(offers)'
    <2>1. \A x \in offers' : x.id <= Len(made')
      <3> SUFFICES ASSUME NEW x \in offers' PROVE x.id <= Len(made')
        OBVIOUS
      <3>1. CASE x = new
        BY <1>3, <1>5, <1>6, <3>1
      <3>2. CASE x \in offers
        <4>1. x.id \in Nat /\ x.id <= Len(made)
          BY <1>3, <1>7, <3>2, OfferFields
        <4> QED  BY <1>3, <1>5, <4>1
      <3> QED  BY <1>2, <3>1, <3>2
    <2>2. \A x, y \in offers' : x.id = y.id => x = y
      BY <1>2, <1>3, <1>8 DEF Table
    <2> QED  BY <1>9, <2>1, <2>2 DEF Table
  <1>14. ASSUME NEW k \in 1 .. Len(answers) PROVE (Table(answers[k]) /\ Agrees(answers[k]))'
    <2>1. Table(answers[k]) /\ Agrees(answers[k])
      BY <1>3
    <2>2. \A row \in answers[k] : row.id \in Nat /\ row.id <= Len(made)
      BY <1>7, <2>1, OfferFields DEF Table
    <2>3. \A row \in answers[k] : row.id <= Len(made') /\ row.id # new.id
      BY <1>3, <1>5, <1>6, <2>2
    <2>4. \A row \in answers[k], x \in offers' : row.id = x.id => x \in offers
      BY <1>2, <2>3
    <2> QED  BY <1>2, <2>1, <2>3, <2>4 DEF Agrees, Table
  <1>15. Tables'
    BY <1>2, <1>5, <1>12, <1>13, <1>14 DEF Tables
  <1>16. Records'
    <2>1. \A i \in Ids : i > Len(made) => recorded[i] = 0
      BY DEF MarketInv, Records
    <2>2. \A i \in Ids : i > Len(made') => recorded[i] = 0
      BY <1>3, <1>5, <1>7, <2>1
    <2>3. ASSUME NEW i \in DOMAIN made'
          PROVE  made'[i] = recorded[i] + SumFunctionOnSet(Units, WithId(i, offers'))
      <3>1. i \in 1 .. Len(made) + 1
        BY <1>5
      <3>2. CASE i = Len(made) + 1
        <4>1. recorded[i] = 0 /\ i = new.id
          BY <1>3, <1>5, <1>6, <2>1, <3>2
        <4> QED  BY <1>1, <1>5, <1>9, <3>2, <4>1
      <3>3. CASE i # Len(made) + 1
        <4>1. i \in DOMAIN made /\ made'[i] = made[i] /\ i # new.id
          BY <1>3, <1>5, <1>6, <3>1, <3>3
        <4>2. made[i] = recorded[i] + SumFunctionOnSet(Units, WithId(i, offers))
          BY <4>1 DEF MarketInv, Records, HistoryAccounts
        <4> QED  BY <1>9, <4>1, <4>2
      <3> QED  BY <3>2, <3>3
    <2>4. HistoryAccounts'
      BY <1>2, <2>3 DEF HistoryAccounts
    <2> QED  BY <1>2, <2>2, <2>4 DEF Records
  <1>17. /\ SumFunctionOnSet(Units, Sales(offers)) \in Nat
         /\ SumFunctionOnSet(Cost, Purchases(offers)) \in Nat
         /\ SumFunctionOnSet(coins', Players) \in Nat /\ SumFunctionOnSet(items', Players) \in Nat
    <2>1. /\ SumFunctionOnSet(Units, Sales(offers)) \in Nat
          /\ SumFunctionOnSet(Cost, Purchases(offers)) \in Nat
      BY <1>3, OfferSums, SumType
    <2>2. Summable(coins', Players) /\ Summable(items', Players)
      BY <1>10, <1>11, MarketAssumption DEF Summable
    <2> QED  BY <2>1, <2>2, SumType
  <1>18. fees' = fees + fee
    BY <1>2
  <1>19. AllItems' = AllItems
    <2>1. CASE sale
      <3>1. /\ SumFunctionOnSet(Units, Sales(offers'))
                  = SumFunctionOnSet(Units, Sales(offers)) + amount
            /\ SumFunctionOnSet(items', Players) + amount = SumFunctionOnSet(items, Players)
        BY <1>9, <1>11, <2>1
      <3> QED  BY <1>1, <1>4, <1>17, <3>1 DEF AllItems
    <2>2. CASE ~sale
      <3>1. /\ Sales(offers') = Sales(offers)
            /\ SumFunctionOnSet(items', Players) + 0 = SumFunctionOnSet(items, Players)
        BY <1>9, <1>11, <2>2
      <3>2. SumFunctionOnSet(items', Players) = SumFunctionOnSet(items, Players)
        BY <1>17, <3>1
      <3> QED  BY <3>1, <3>2 DEF AllItems
    <2> QED  BY <2>1, <2>2
  <1>20. AllCoins' = AllCoins
    <2>1. CASE sale
      <3>1. Purchases(offers') = Purchases(offers) /\ cost = fee
        BY <1>9, <2>1
      <3> QED  BY <1>18, <1>4, <1>10, <1>17, <3>1 DEF AllCoins
    <2>2. CASE ~sale
      <3>1. /\ SumFunctionOnSet(Cost, Purchases(offers'))
                  = SumFunctionOnSet(Cost, Purchases(offers)) + worth
            /\ cost = fee + worth
        BY <1>9, <2>2
      <3> QED  BY <1>18, <1>4, <1>10, <1>17, <3>1 DEF AllCoins
    <2> QED  BY <2>1, <2>2
  <1>21. GoodsKept'
    BY <1>2, <1>19, <1>20, GoodsMoved DEF MarketInv
  <1> QED  BY <1>15, <1>16, <1>21 DEF MarketInv

\* What is left of the table and of the answers when offers go to the history.
LEMMA TablesLess ==
  ASSUME MarketInv, NEW os \in SUBSET offers, MoveToHistory(os),
         coins' \in [Players -> Nat], items' \in [Players -> Nat],
         UNCHANGED <<online, inMarket, fees, asked, down, made, raced>>,
         answers' = answers \/ (answers # <<>> /\ answers' = Tail(answers))
  PROVE  Tables' /\ Records'
  <1>1. /\ offers' = offers \ os /\ offers' \subseteq offers
        /\ recorded' \in [Ids -> Nat] /\ Records'
    BY HistoryMove DEF MarketInv
  <1>2. /\ TypeOK /\ Table(offers) /\ Len(made) <= MaxId
        /\ \A k \in 1 .. Len(answers) : Table(answers[k]) /\ Agrees(answers[k])
        /\ answers \in Seq(SUBSET Offer)
    BY DEF MarketInv, Tables, TypeOK
  <1>3. answers' \in Seq(SUBSET Offer)
    BY <1>2
  <1>4. TypeOK'
    BY <1>1, <1>2, <1>3 DEF TypeOK
  <1>5. Table(offers)'
    <2>1. IsFiniteSet(offers')
      BY <1>1, <1>2, FS_Subset DEF Table
    <2> QED  BY <1>1, <1>2, <2>1 DEF Table
  <1>6. ASSUME NEW k \in 1 .. Len(answers') PROVE (Table(answers[k]) /\ Agrees(answers[k]))'
    <2>1. \E j \in 1 .. Len(answers) : answers'[k] = answers[j]
      <3>1. CASE answers' = answers
        BY <3>1
      <3>2. CASE answers # <<>> /\ answers' = Tail(answers)
        <4>1. Len(answers') = Len(answers) - 1 /\ answers'[k] = answers[k + 1]
              /\ Len(answers) \in Nat
          BY <1>2, <3>2
        <4> QED  BY <4>1
      <3> QED  BY <3>1, <3>2
    <2>2. Table(answers'[k]) /\ Agrees(answers'[k])
      BY <1>2, <2>1
    <2> QED  BY <1>1, <2>2 DEF Table, Agrees
  <1> QED  BY <1>1, <1>2, <1>4, <1>5, <1>6 DEF Tables

LEMMA CancelStep ==
  ASSUME MarketInv, NEW p \in Players, NEW o \in offers, PlayerCancelMarketOffer(p, o)
  PROVE  MarketInv'
  <1>1. /\ GiveBack({o}) /\ MoveToHistory({o})
        /\ UNCHANGED <<online, inMarket, fees, asked, down, made, raced>> /\ answers' = answers
    BY DEF PlayerCancelMarketOffer, checks
  <1>2. /\ TypeOK /\ offers \subseteq Offer /\ {o} \in SUBSET Offer /\ IsFiniteSet({o})
        /\ {o} \in SUBSET offers
    BY FS_Singleton DEF MarketInv, Tables, TypeOK
  <1>3. /\ coins' \in [Players -> Nat] /\ items' \in [Players -> Nat]
        /\ SumFunctionOnSet(coins', Players)
              = SumFunctionOnSet(coins, Players) + SumFunctionOnSet(Cost, Purchases({o}))
        /\ SumFunctionOnSet(items', Players)
              = SumFunctionOnSet(items, Players) + SumFunctionOnSet(Units, Sales({o}))
    BY <1>1, <1>2, GiveBackSums
  <1>4. Tables' /\ Records'
    BY <1>1, <1>2, <1>3, TablesLess
  <1>5. /\ SumFunctionOnSet(Cost, Purchases(offers))
              = SumFunctionOnSet(Cost, Purchases({o})) + SumFunctionOnSet(Cost, Purchases(offers'))
        /\ SumFunctionOnSet(Units, Sales(offers))
              = SumFunctionOnSet(Units, Sales({o})) + SumFunctionOnSet(Units, Sales(offers'))
        /\ SumFunctionOnSet(Cost, Purchases(offers')) \in Nat
        /\ SumFunctionOnSet(Units, Sales(offers')) \in Nat
        /\ SumFunctionOnSet(Cost, Purchases({o})) \in Nat
        /\ SumFunctionOnSet(Units, Sales({o})) \in Nat
    BY <1>1, <1>2, HistoryMove DEF MarketInv
  <1>6. /\ SumFunctionOnSet(coins, Players) \in Nat /\ SumFunctionOnSet(items, Players) \in Nat
        /\ fees \in Nat /\ fees' = fees /\ raced' = raced
    BY <1>1, <1>2, Types
  <1>7. AllCoins' = AllCoins
    BY <1>3, <1>5, <1>6 DEF AllCoins
  <1>8. AllItems' = AllItems
    BY <1>3, <1>5, <1>6 DEF AllItems
  <1>9. GoodsKept'
    BY <1>6, <1>7, <1>8, GoodsMoved DEF MarketInv
  <1> QED  BY <1>4, <1>9 DEF MarketInv

\* The rows that are paid for hold at least what the offers do, and exactly
\* that when there has been no race.
LEMMA PaidCovers ==
  ASSUME MarketInv, NEW rows, Table(rows), Agrees(rows),
         NEW live, live = {o \in offers : \E row \in rows : row.id = o.id},
         NEW paid, paid = {row \in rows : \E o \in live : row.id = o.id}
  PROVE  /\ SumFunctionOnSet(Cost, Purchases(live)) <= SumFunctionOnSet(Cost, Purchases(paid))
         /\ SumFunctionOnSet(Units, Sales(live)) <= SumFunctionOnSet(Units, Sales(paid))
         /\ ~raced => paid = live
  <1> DEFINE row(o) == CHOOSE r \in paid : r.id = o.id
  <1>1. /\ offers \in SUBSET Offer /\ rows \in SUBSET Offer /\ Table(offers)
        /\ live \in SUBSET Offer /\ paid \in SUBSET Offer
        /\ IsFiniteSet(live) /\ IsFiniteSet(paid)
    <2>1. Table(offers) /\ Table(rows)
      BY DEF MarketInv, Tables
    <2>2. live \in SUBSET offers /\ paid \in SUBSET rows
      OBVIOUS
    <2> QED  BY <2>1, <2>2, FS_Subset DEF Table
  <1>2. ASSUME NEW o \in live
        PROVE  /\ row(o) \in paid /\ row(o).id = o.id /\ row(o).sale = o.sale
               /\ Units[o] <= Units[row(o)] /\ Cost[o] <= Cost[row(o)]
    <2>1. row(o) \in paid /\ row(o).id = o.id
      <3>1. \E r \in paid : r.id = o.id
        OBVIOUS
      <3> QED  BY <3>1
    <2> PICK r \in paid : r = row(o)
      BY <2>1
    <2>2. r \in rows /\ o \in offers /\ r.id = o.id
      BY <2>1
    <2>3. r.sale = o.sale /\ r.price = o.price /\ o.amount <= r.amount
      BY <2>2 DEF Agrees
    <2> HIDE DEF row
    <2>4. /\ o.amount \in Nat /\ r.amount \in Nat /\ o.price \in Nat
          /\ Units[o] = o.amount /\ Units[r] = r.amount
          /\ Cost[o] = o.price * o.amount /\ Cost[r] = r.price * r.amount
      BY <1>1, <2>2, OfferFields
    <2>5. \A a, b, c \in Nat : a <= b => c * a <= c * b
      <3> SUFFICES ASSUME NEW a \in Nat, NEW b \in Nat, NEW c \in Nat, a <= b
                   PROVE  c * a <= c * b
        OBVIOUS
      <3>1. PICK e \in Nat : e = b - a
        OBVIOUS
      <3>2. c * b = c * (a + e)
        BY <3>1
      <3>3. c * (a + e) = c * a + c * e /\ c * e \in Nat /\ c * a \in Nat
        OBVIOUS
      <3> QED  BY <3>2, <3>3
    <2>6. o.price * o.amount <= o.price * r.amount
      BY <2>3, <2>4, <2>5
    <2> QED  BY <2>1, <2>3, <2>4, <2>6
  <1> HIDE DEF row
  <1>3. \A x, y \in live : row(x) = row(y) => x = y
    <2> SUFFICES ASSUME NEW x \in live, NEW y \in live, row(x) = row(y) PROVE x = y
      OBVIOUS
    <2>1. x.id = y.id
      BY <1>2
    <2> QED  BY <1>1, <2>1 DEF Table
  <1>4. ASSUME NEW f, NEW S, Summable(f, S), NEW T \in SUBSET live, Summable(f, T),
               \A x \in T : row(x) \in S /\ f[x] <= f[row(x)]
        PROVE  SumFunctionOnSet(f, T) <= SumFunctionOnSet(f, S)
    <2> DEFINE m == [x \in T |-> row(x)]
    <2>1. m \in [T -> S] /\ \A x \in T : m[x] = row(x)
      BY <1>4
    <2> HIDE DEF m
    <2>2. /\ \A x, y \in T : m[x] = m[y] => x = y
          /\ \A x \in T : f[x] <= f[m[x]]
      BY <1>3, <1>4, <2>1
    <2> QED  BY <1>4, <2>1, <2>2, SumMatched
  <1>5. /\ Summable(Cost, Purchases(live)) /\ Summable(Cost, Purchases(paid))
        /\ Summable(Units, Sales(live)) /\ Summable(Units, Sales(paid))
        /\ Purchases(live) \in SUBSET live /\ Sales(live) \in SUBSET live
    BY <1>1, OfferSums
  <1>6. SumFunctionOnSet(Cost, Purchases(live)) <= SumFunctionOnSet(Cost, Purchases(paid))
    <2>1. \A x \in Purchases(live) : row(x) \in Purchases(paid) /\ Cost[x] <= Cost[row(x)]
      BY <1>2 DEF Purchases
    <2> QED  BY <1>4, <1>5, <2>1
  <1>7. SumFunctionOnSet(Units, Sales(live)) <= SumFunctionOnSet(Units, Sales(paid))
    <2>1. \A x \in Sales(live) : row(x) \in Sales(paid) /\ Units[x] <= Units[row(x)]
      BY <1>2 DEF Sales
    <2> QED  BY <1>4, <1>5, <2>1
  <1>8. ASSUME ~raced PROVE paid = live
    <2>1. ASSUME NEW r \in rows, NEW o \in offers, r.id = o.id PROVE r = o
      <3>1. /\ r.owner = o.owner /\ r.sale = o.sale /\ r.price = o.price /\ r.due = o.due
            /\ r.amount = o.amount
        BY <1>8, <2>1 DEF Agrees
      <3>2. r \in Offer /\ o \in Offer
        BY <1>1
      <3> QED  BY <2>1, <3>1, <3>2 DEF Offer
    <2> QED  BY <2>1
  <1> QED  BY <1>6, <1>7, <1>8

LEMMA ProcessStep == MarketInv /\ ProcessExpiredOffers => MarketInv'
  <1> SUFFICES ASSUME MarketInv, ProcessExpiredOffers PROVE MarketInv'
    OBVIOUS
  <1> DEFINE rows == Head(answers)
             live == {o \in offers : \E row \in rows : row.id = o.id}
             paid == {row \in rows : \E o \in live : row.id = o.id}
  <1>1. /\ answers # <<>> /\ answers' = Tail(answers) /\ GiveBack(paid) /\ MoveToHistory(live)
        /\ UNCHANGED <<online, inMarket, fees, asked, down, made, raced>>
    BY DEF ProcessExpiredOffers
  <1>2. Table(rows) /\ Agrees(rows)
    <2>1. answers \in Seq(SUBSET Offer)
          /\ \A k \in 1 .. Len(answers) : Table(answers[k]) /\ Agrees(answers[k])
      BY DEF MarketInv, Tables, TypeOK
    <2>2. 1 \in 1 .. Len(answers) /\ Head(answers) = answers[1]
      BY <1>1, <2>1
    <2> QED  BY <2>1, <2>2
  <1>3. /\ live \in SUBSET offers /\ paid \in SUBSET Offer /\ IsFiniteSet(paid) /\ TypeOK
    <2>1. paid \in SUBSET rows
      OBVIOUS
    <2> QED  BY <1>2, <2>1, FS_Subset DEF Table, MarketInv, Tables
  <1>4. /\ SumFunctionOnSet(Cost, Purchases(live)) <= SumFunctionOnSet(Cost, Purchases(paid))
        /\ SumFunctionOnSet(Units, Sales(live)) <= SumFunctionOnSet(Units, Sales(paid))
        /\ ~raced => paid = live
    BY <1>2, PaidCovers
  <1> HIDE DEF live, paid
  <1>5. /\ coins' \in [Players -> Nat] /\ items' \in [Players -> Nat]
        /\ SumFunctionOnSet(coins', Players)
              = SumFunctionOnSet(coins, Players) + SumFunctionOnSet(Cost, Purchases(paid))
        /\ SumFunctionOnSet(items', Players)
              = SumFunctionOnSet(items, Players) + SumFunctionOnSet(Units, Sales(paid))
    BY <1>1, <1>3, GiveBackSums
  <1>6. Tables' /\ Records'
    BY <1>1, <1>3, <1>5, TablesLess
  <1>7. /\ SumFunctionOnSet(Cost, Purchases(offers))
              = SumFunctionOnSet(Cost, Purchases(live)) + SumFunctionOnSet(Cost, Purchases(offers'))
        /\ SumFunctionOnSet(Units, Sales(offers))
              = SumFunctionOnSet(Units, Sales(live)) + SumFunctionOnSet(Units, Sales(offers'))
        /\ SumFunctionOnSet(Cost, Purchases(offers')) \in Nat
        /\ SumFunctionOnSet(Units, Sales(offers')) \in Nat
        /\ SumFunctionOnSet(Cost, Purchases(live)) \in Nat
        /\ SumFunctionOnSet(Units, Sales(live)) \in Nat
    BY <1>1, <1>3, HistoryMove DEF MarketInv
  <1>8. /\ SumFunctionOnSet(Cost, Purchases(paid)) \in Nat
        /\ SumFunctionOnSet(Units, Sales(paid)) \in Nat
    BY <1>3, OfferSums, SumType
  <1>9. /\ SumFunctionOnSet(coins, Players) \in Nat /\ SumFunctionOnSet(items, Players) \in Nat
        /\ fees \in Nat /\ fees' = fees /\ raced' = raced
    BY <1>1, <1>3, Types
  <1>10. AllCoins' >= AllCoins /\ (~raced => AllCoins' = AllCoins)
         /\ AllCoins \in Nat /\ AllCoins' \in Nat
    BY <1>4, <1>5, <1>7, <1>8, <1>9 DEF AllCoins
  <1>11. AllItems' >= AllItems /\ (~raced => AllItems' = AllItems)
         /\ AllItems \in Nat /\ AllItems' \in Nat
    BY <1>4, <1>5, <1>7, <1>8, <1>9 DEF AllItems
  <1>12. AtFirst(Coins) \in Nat /\ AtFirst(Items) \in Nat
    <2>1. Cardinality(Players) \in Nat /\ Coins \in Nat /\ Items \in Nat
      BY Constants, FS_CardinalityType
    <2> QED  BY <2>1 DEF AtFirst
  <1>13. GoodsKept'
    <2>1. /\ AllCoins >= AtFirst(Coins) /\ AllItems >= AtFirst(Items)
          /\ ~raced => AllCoins = AtFirst(Coins) /\ AllItems = AtFirst(Items)
      BY DEF MarketInv, GoodsKept
    <2>2. AtFirst(Coins)' = AtFirst(Coins) /\ AtFirst(Items)' = AtFirst(Items)
      BY DEF AtFirst
    <2>3. AllCoins' >= AtFirst(Coins)
      BY <1>10, <1>12, <2>1
    <2>4. AllItems' >= AtFirst(Items)
      BY <1>11, <1>12, <2>1
    <2> QED  BY <1>9, <1>10, <1>11, <2>1, <2>2, <2>3, <2>4 DEF GoodsKept
  <1> QED  BY <1>6, <1>13 DEF MarketInv

LEMMA MarketStep == MarketInv /\ [Next]_vars => MarketInv'
  <1> SUFFICES ASSUME MarketInv, [Next]_vars PROVE MarketInv'
    OBVIOUS
  <1>1. CASE \E p \in Players : Login(p) \/ Logout(p) \/ EnterMarket(p) \/ LeaveMarket(p)
    BY <1>1, QuietActions
  <1>2. CASE \E p \in Players, sale \in BOOLEAN, n \in Amounts, price \in Prices :
                 PlayerCreateMarketOffer(p, sale, n, price)
    BY <1>2, CreateStep
  <1>3. CASE \E p \in Players, o \in offers : PlayerCancelMarketOffer(p, o)
    BY <1>3, CancelStep
  <1>4. CASE \E p \in Players, o \in offers, n \in Amounts : PlayerAcceptSale(p, o, n)
    BY <1>4, AcceptSaleStep
  <1>5. CASE \E p \in Players, o \in offers, n \in Amounts : PlayerAcceptPurchase(p, o, n)
    BY <1>5, AcceptPurchaseStep
  <1>6. CASE \E p \in Players, o \in offers, n \in Amounts : PlayerAcceptOffline(p, o, n)
    BY <1>6, QuietActions
  <1>7. CASE \E o \in offers : Due(o)
    BY <1>7, DueStep
  <1>8. CASE CheckExpiredOffers
    BY <1>8, QuietActions
  <1>9. CASE SelectExpired
    BY <1>9, SelectExpiredStep
  <1>10. CASE ProcessExpiredOffers
    BY <1>10, ProcessStep
  <1>11. CASE UNCHANGED vars
    BY <1>11, QuietActions
  <1> QED  BY <1>1, <1>2, <1>3, <1>4, <1>5, <1>6, <1>7, <1>8, <1>9, <1>10, <1>11 DEF Next

LEMMA MarketInvariant == Spec => []MarketInv
  BY MarketInit, MarketStep, PTL DEF Spec

\* Nobody is ever in debt, whatever the players do in whatever order: the
\* handlers take no more coins or items than there are.
THEOREM MarketTypes == Spec => []TypeOK
  <1>1. MarketInv => TypeOK
    BY DEF MarketInv, Tables
  <1> QED  BY <1>1, MarketInvariant, PTL

\* Every unit of every offer is in the market or in the history, once, for any
\* number of players, offers and checks under way.
THEOREM MarketHistoryAccounts == Spec => []HistoryAccounts
  <1>1. MarketInv => HistoryAccounts
    BY DEF MarketInv, Records
  <1> QED  BY <1>1, MarketInvariant, PTL

\* No coin and no item is lost in the market, and without the race between an
\* answer and a partial acceptance none is made up.
THEOREM MarketGoodsKept == Spec => []GoodsKept
  <1>1. MarketInv => GoodsKept
    BY DEF MarketInv
  <1> QED  BY <1>1, MarketInvariant, PTL
=============================================================================
