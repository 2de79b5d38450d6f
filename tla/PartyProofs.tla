----------------------------- MODULE PartyProofs -----------------------------
(***************************************************************************)
(* Theorems about Party, for any number of players and parties and any     *)
(* limits.                                                                 *)
(*                                                                         *)
(* The calls of one handler are followed state by state: a lemma says of   *)
(* each method what it makes of the party it is called for, and that the   *)
(* other parties see nothing of it.                                        *)
(***************************************************************************)
EXTENDS Party, FiniteSetTheorems, SequenceTheorems, TLAPS

-----------------------------------------------------------------------------
(* Lists of players.                                                        *)
LEMMA Listing ==
  ASSUME NEW l, NEW n, DOMAIN l = 1 .. n
  PROVE  \A x : x \in ToSet(l) <=> \E i \in 1 .. n : l[i] = x
  BY DEF ToSet

\* Taking somebody off a list.
LEMMA RemoveLemma ==
  ASSUME NEW l \in Seq(Players), IsInjective(l), NEW p \in ToSet(l)
  PROVE  /\ RemoveFirst(l, p) \in Seq(Players) /\ IsInjective(RemoveFirst(l, p))
         /\ ToSet(RemoveFirst(l, p)) = ToSet(l) \ {p}
  <1>1. Len(l) \in Nat /\ DOMAIN l = 1 .. Len(l) /\ \A i \in 1 .. Len(l) : l[i] \in Players
    BY LenProperties, ElementOfSeq
  <1>2. PICK k \in 1 .. Len(l) : l[k] = p
    BY <1>1 DEF ToSet
  <1>3. RemoveFirst(l, p) = SubSeq(l, 1, k - 1) \o SubSeq(l, k + 1, Len(l))
    <2>1. {i \in 1 .. Len(l) : l[i] = p} = {k}
      BY <1>1, <1>2 DEF IsInjective
    <2>2. SelectInSeq(l, LAMBDA v : v = p) = k
      <3>1. SelectInSeq(l, LAMBDA v : v = p) = Min({k})
        BY <2>1 DEF SelectInSeq
      <3>2. Min({k}) = k
        BY <1>1 DEF Min
      <3> QED  BY <3>1, <3>2
    <2> QED  BY <1>2, <2>2 DEF RemoveFirst, RemoveAt
  <1> DEFINE a == SubSeq(l, 1, k - 1)
             b == SubSeq(l, k + 1, Len(l))
             r == a \o b
  <1>4. /\ a \in Seq(Players) /\ Len(a) = k - 1 /\ \A i \in 1 .. k - 1 : a[i] = l[i]
    <2>1. 1 \in Int /\ k - 1 \in Int /\ \A i \in 1 .. k - 1 : l[i] \in Players
      BY <1>1
    <2>2. /\ a \in Seq(Players) /\ Len(a) = IF 1 <= k - 1 THEN (k - 1) - 1 + 1 ELSE 0
          /\ \A i \in 1 .. (k - 1) - 1 + 1 : a[i] = l[1 + i - 1]
      BY <2>1, SubSeqProperties
    <2> HIDE DEF a
    <2> QED  BY <1>1, <2>2
  <1>5. /\ b \in Seq(Players) /\ Len(b) = Len(l) - k /\ \A i \in 1 .. Len(l) - k : b[i] = l[k + i]
    <2>1. k + 1 \in Int /\ Len(l) \in Int /\ \A i \in k + 1 .. Len(l) : l[i] \in Players
      BY <1>1
    <2>2. /\ b \in Seq(Players) /\ Len(b) = IF k + 1 <= Len(l) THEN Len(l) - (k + 1) + 1 ELSE 0
          /\ \A i \in 1 .. Len(l) - (k + 1) + 1 : b[i] = l[(k + 1) + i - 1]
      BY <2>1, SubSeqProperties
    <2> HIDE DEF b
    <2>3. Len(l) - (k + 1) + 1 = Len(l) - k /\ \A i \in Int : (k + 1) + i - 1 = k + i
      BY <1>1
    <2>4. \A n \in Nat, j \in Nat : j <= n => (IF j + 1 <= n THEN n - (j + 1) + 1 ELSE 0) = n - j
      OBVIOUS
    <2>5. Len(b) = Len(l) - k
      <3>1. k \in Nat /\ k <= Len(l) /\ Len(l) \in Nat
        BY <1>1
      <3>2. (IF k + 1 <= Len(l) THEN Len(l) - (k + 1) + 1 ELSE 0) = Len(l) - k
        BY <2>4, <3>1
      <3>3. Len(b) = IF k + 1 <= Len(l) THEN Len(l) - (k + 1) + 1 ELSE 0
        BY <2>2
      <3> QED  BY <3>2, <3>3
    <2>6. ASSUME NEW i \in 1 .. Len(l) - k PROVE b[i] = l[k + i]
      <3>1. i \in Int /\ i \in 1 .. Len(l) - (k + 1) + 1
        BY <2>3
      <3>2. b[i] = l[(k + 1) + i - 1]
        BY <2>2, <3>1
      <3> QED  BY <2>3, <3>1, <3>2
    <2> QED  BY <2>2, <2>5, <2>6
  <1> HIDE DEF a, b
  <1>6. /\ r \in Seq(Players) /\ Len(r) = Len(l) - 1
        /\ \A i \in 1 .. Len(l) - 1 : r[i] = IF i < k THEN l[i] ELSE l[i + 1]
    <2>1. /\ r \in Seq(Players) /\ Len(r) = Len(a) + Len(b)
          /\ \A i \in 1 .. Len(a) + Len(b) : r[i] = IF i <= Len(a) THEN a[i] ELSE b[i - Len(a)]
      BY <1>4, <1>5, ConcatProperties
    <2> HIDE DEF r
    <2>2. Len(r) = Len(l) - 1
      BY <1>1, <1>4, <1>5, <2>1
    <2>3. ASSUME NEW i \in 1 .. Len(l) - 1 PROVE r[i] = IF i < k THEN l[i] ELSE l[i + 1]
      <3>1. i \in 1 .. Len(a) + Len(b)
        BY <1>1, <1>4, <1>5
      <3>2. CASE i < k
        <4>1. i \in 1 .. k - 1 /\ i <= Len(a)
          BY <1>1, <1>4, <3>2
        <4> QED  BY <1>4, <2>1, <3>1, <3>2, <4>1
      <3>3. CASE ~(i < k)
        <4>1. ~(i <= Len(a)) /\ i - Len(a) \in 1 .. Len(l) - k /\ k + (i - Len(a)) = i + 1
          BY <1>1, <1>4, <3>3
        <4> QED  BY <1>5, <2>1, <3>1, <3>3, <4>1
      <3> QED  BY <3>2, <3>3
    <2> QED  BY <2>1, <2>2, <2>3
  <1> HIDE DEF r
  <1>7. DOMAIN r = 1 .. Len(l) - 1
    BY <1>6, LenProperties
  <1> DEFINE from(i) == IF i < k THEN i ELSE i + 1
  <1>8. \A i \in 1 .. Len(l) - 1 :
           from(i) \in 1 .. Len(l) /\ from(i) # k /\ r[i] = l[from(i)]
    <2> SUFFICES ASSUME NEW i \in 1 .. Len(l) - 1
                 PROVE  from(i) \in 1 .. Len(l) /\ from(i) # k /\ r[i] = l[from(i)]
      OBVIOUS
    <2>1. r[i] = IF i < k THEN l[i] ELSE l[i + 1]
      BY <1>6
    <2> QED  BY <1>1, <2>1
  <1>9. \A i, j \in 1 .. Len(l) - 1 : from(i) = from(j) => i = j
    BY <1>1
  <1> HIDE DEF from
  <1>10. \A i, j \in 1 .. Len(l) : l[i] = l[j] => i = j
    BY <1>1 DEF IsInjective
  <1>11. IsInjective(r)
    <2> SUFFICES ASSUME NEW i \in 1 .. Len(l) - 1, NEW j \in 1 .. Len(l) - 1, r[i] = r[j]
                 PROVE  i = j
      BY <1>7 DEF IsInjective
    <2>1. from(i) = from(j)
      BY <1>8, <1>10
    <2> QED  BY <1>9, <2>1
  <1>12. ToSet(r) = ToSet(l) \ {p}
    <2>1. ASSUME NEW i \in 1 .. Len(l) - 1 PROVE r[i] \in ToSet(l) \ {p}
      <3>1. r[i] = l[from(i)] /\ l[from(i)] # p
        BY <1>2, <1>8, <1>10
      <3> QED  BY <1>1, <1>8, <3>1 DEF ToSet
    <2>2. ASSUME NEW x \in ToSet(l) \ {p} PROVE \E i \in 1 .. Len(l) - 1 : r[i] = x
      <3>1. PICK i \in 1 .. Len(l) : l[i] = x /\ i # k
        BY <1>1, <1>2 DEF ToSet
      <3>2. CASE i < k
        BY <1>1, <1>6, <3>1, <3>2
      <3>3. CASE i > k
        <4>1. i - 1 \in 1 .. Len(l) - 1 /\ ~(i - 1 < k) /\ (i - 1) + 1 = i
          BY <1>1, <3>3
        <4> QED  BY <1>6, <3>1, <4>1
      <3> QED  BY <3>1, <3>2, <3>3
    <2>3. \A x : x \in ToSet(r) <=> \E i \in 1 .. Len(l) - 1 : r[i] = x
      BY <1>7, Listing
    <2> QED  BY <2>1, <2>2, <2>3
  <1> QED  BY <1>3, <1>6, <1>11, <1>12 DEF r, a, b

LEMMA FrontLemma ==
  ASSUME NEW l \in Seq(Players), IsInjective(l), NEW p \in Players \ ToSet(l)
  PROVE  /\ <<p>> \o l \in Seq(Players) /\ IsInjective(<<p>> \o l)
         /\ ToSet(<<p>> \o l) = ToSet(l) \cup {p} /\ <<p>> \o l # <<>>
  <1> DEFINE a == <<p>>
             r == a \o l
  <1>1. Len(l) \in Nat /\ DOMAIN l = 1 .. Len(l)
    BY LenProperties
  <1>2. a \in Seq(Players) /\ Len(a) = 1 /\ a[1] = p
    OBVIOUS
  <1> HIDE DEF a
  <1>3. /\ r \in Seq(Players) /\ Len(r) = Len(a) + Len(l)
        /\ \A i \in 1 .. Len(a) + Len(l) : r[i] = IF i <= Len(a) THEN a[i] ELSE l[i - Len(a)]
    BY <1>2, ConcatProperties
  <1> HIDE DEF r
  <1>4. /\ Len(r) = Len(l) + 1 /\ r[1] = p /\ DOMAIN r = 1 .. Len(l) + 1
        /\ \A i \in 2 .. Len(l) + 1 : r[i] = l[i - 1]
    <2>1. DOMAIN r = 1 .. Len(r)
      BY <1>3, LenProperties
    <2> QED  BY <1>1, <1>2, <1>3, <2>1
  <1>5. \A i \in 1 .. Len(l) : l[i] # p
    BY <1>1 DEF ToSet
  <1>6. IsInjective(r)
    <2> SUFFICES ASSUME NEW i \in 1 .. Len(l) + 1, NEW j \in 1 .. Len(l) + 1, r[i] = r[j]
                 PROVE  i = j
      BY <1>4 DEF IsInjective
    <2>1. CASE i = 1 \/ j = 1
      BY <1>1, <1>4, <1>5, <2>1
    <2>2. CASE i # 1 /\ j # 1
      <3>1. l[i - 1] = l[j - 1] /\ i - 1 \in 1 .. Len(l) /\ j - 1 \in 1 .. Len(l)
        BY <1>1, <1>4, <2>2
      <3>2. i - 1 = j - 1
        BY <1>1, <3>1 DEF IsInjective
      <3> QED  BY <1>1, <3>2
    <2> QED  BY <2>1, <2>2
  <1>7. ToSet(r) = ToSet(l) \cup {p}
    <2>1. \A i \in 1 .. Len(l) + 1 : r[i] \in ToSet(l) \cup {p}
      <3> SUFFICES ASSUME NEW i \in 1 .. Len(l) + 1 PROVE r[i] \in ToSet(l) \cup {p}
        OBVIOUS
      <3>1. i = 1 \/ (i \in 2 .. Len(l) + 1 /\ i - 1 \in 1 .. Len(l))
        BY <1>1
      <3> QED  BY <1>1, <1>4, <3>1 DEF ToSet
    <2>2. ASSUME NEW x \in ToSet(l) \cup {p} PROVE \E i \in 1 .. Len(l) + 1 : r[i] = x
      <3>1. CASE x = p
        BY <1>1, <1>4, <3>1
      <3>2. CASE x \in ToSet(l)
        <4>1. PICK j \in 1 .. Len(l) : l[j] = x
          BY <1>1, <3>2 DEF ToSet
        <4>2. j + 1 \in 2 .. Len(l) + 1 /\ (j + 1) - 1 = j
          BY <1>1
        <4>3. r[j + 1] = x
          BY <1>4, <4>1, <4>2
        <4> QED  BY <1>1, <4>2, <4>3
      <3> QED  BY <3>1, <3>2
    <2> QED  BY <1>4, <2>1, <2>2, Listing
  <1>8. r # <<>>
    BY <1>1, <1>4
  <1> QED  BY <1>3, <1>6, <1>7, <1>8 DEF r, a

LEMMA BackLemma ==
  ASSUME NEW l \in Seq(Players), IsInjective(l), NEW p \in Players \ ToSet(l)
  PROVE  /\ Append(l, p) \in Seq(Players) /\ IsInjective(Append(l, p))
         /\ ToSet(Append(l, p)) = ToSet(l) \cup {p} /\ Append(l, p) # <<>>
  <1> DEFINE r == Append(l, p)
  <1>1. Len(l) \in Nat /\ DOMAIN l = 1 .. Len(l)
    BY LenProperties
  <1>2. /\ r \in Seq(Players) /\ r # <<>> /\ Len(r) = Len(l) + 1 /\ r[Len(l) + 1] = p
        /\ \A i \in 1 .. Len(l) : r[i] = l[i]
    BY AppendProperties
  <1> HIDE DEF r
  <1>3. DOMAIN r = 1 .. Len(l) + 1
    BY <1>2, LenProperties
  <1>4. \A i \in 1 .. Len(l) : l[i] # p
    BY <1>1 DEF ToSet
  <1>5. IsInjective(r)
    <2> SUFFICES ASSUME NEW i \in 1 .. Len(l) + 1, NEW j \in 1 .. Len(l) + 1, r[i] = r[j]
                 PROVE  i = j
      BY <1>3 DEF IsInjective
    <2>1. (i = Len(l) + 1 \/ i \in 1 .. Len(l)) /\ (j = Len(l) + 1 \/ j \in 1 .. Len(l))
      BY <1>1
    <2> QED  BY <1>1, <1>2, <1>4, <2>1 DEF IsInjective
  <1>6. ToSet(r) = ToSet(l) \cup {p}
    <2>1. 1 .. Len(l) + 1 = (1 .. Len(l)) \cup {Len(l) + 1}
      BY <1>1
    <2> QED  BY <1>1, <1>2, <1>3, <2>1 DEF ToSet
  <1> QED  BY <1>2, <1>5, <1>6 DEF r

LEMMA EmptyLemma ==
  ASSUME NEW l \in Seq(Players)
  PROVE  /\ ToSet(l) \subseteq Players /\ (l = <<>> <=> ToSet(l) = {})
         /\ l # <<>> => Head(l) \in ToSet(l)
  <1>1. Len(l) \in Nat /\ DOMAIN l = 1 .. Len(l) /\ \A i \in 1 .. Len(l) : l[i] \in Players
    BY LenProperties, ElementOfSeq
  <1>2. \A x : x \in ToSet(l) <=> \E i \in 1 .. Len(l) : l[i] = x
    BY <1>1, Listing
  <1>3. CASE l = <<>>
    <2>1. Len(l) = 0
      BY <1>3
    <2> QED  BY <1>2, <1>3, <2>1
  <1>4. CASE l # <<>>
    <2>1. 1 \in 1 .. Len(l) /\ Head(l) = l[1]
      BY <1>1, <1>4
    <2> QED  BY <1>1, <1>2, <1>4, <2>1
  <1> QED  BY <1>3, <1>4

-----------------------------------------------------------------------------
(***************************************************************************)
(* The inductive invariant is one of each party.  A party that its leader  *)
(* names is listed by those who name it and known to those it invites, and *)
(* is not idle; any other holds nothing, and nobody knows it.  Q is whose  *)
(* own list of invitations counts: not that of a player who clears it.     *)
(***************************************************************************)
State == [party : [Players -> 0 .. MaxParties],
          invitations : [Players -> SUBSET Ids],
          leader : [Ids -> Players \cup {Nobody}],
          memberList : [Ids -> Seq(Players)],
          inviteList : [Ids -> SUBSET Players],
          active : [Ids -> BOOLEAN], enabled : [Ids -> BOOLEAN],
          ticks : [Ids -> [Players -> {"none", "recent", "old"}]]]

Led(t, i) == t.leader[i] # Nobody /\ t.party[t.leader[i]] = i

\* The party knows its players, and they know it.
Known(t, i, Q) ==
    /\ IsInjective(t.memberList[i]) /\ t.leader[i] \notin Members(t, i)
    /\ \A p \in Players : t.party[p] = i <=> p \in All(t, i)
    /\ \A p \in Q : i \in t.invitations[p] <=> p \in t.inviteList[i]

Bare(t, i, Q) ==
    /\ t.memberList[i] = <<>> /\ t.inviteList[i] = {} /\ ~t.active[i]
    /\ \A p \in Players : t.party[p] # i
    /\ \A p \in Q : i \notin t.invitations[p]

Good(t, i, Q) == IF Led(t, i) THEN Known(t, i, Q) ELSE Bare(t, i, Q)

Shared(t, i, at) ==
    t.active[i] => /\ t.enabled[i] => Fit(t, i, at, {"recent", "old"})
                   /\ Fit(t, i, at, {"recent"}) => t.enabled[i]

Kept(t, i, Q, at) ==
    Good(t, i, Q) /\ (Led(t, i) => ~Empty(t, i)) /\ Shared(t, i, at)

Clear(t, p) == t.party[p] = 0 /\ t.invitations[p] = {}

PartyInv ==
    /\ online \subseteq Players /\ created \in 0 .. MaxParties /\ s \in State
    /\ standing \in [Players -> Standings]
    /\ \A i \in Ids : Kept(s, i, Players, standing)
    /\ \A i \in Ids : i > created => s.leader[i] = Nobody
    /\ \A p \in Players \ online : Clear(s, p)

\* What one party sees of a change, and what a call that only takes away does.
Same(t, u, j) ==
    /\ u.leader[j] = t.leader[j] /\ u.memberList[j] = t.memberList[j]
    /\ u.inviteList[j] = t.inviteList[j] /\ u.active[j] = t.active[j]
    /\ u.enabled[j] = t.enabled[j] /\ u.ticks[j] = t.ticks[j]
    /\ \A p \in Players : /\ u.party[p] = j <=> t.party[p] = j
                          /\ j \in u.invitations[p] <=> j \in t.invitations[p]

Others(t, u, i) == \A j \in Ids \ {i} : Same(t, u, j)

Fewer(t, u) ==
    /\ \A p \in Players : /\ u.party[p] \in {t.party[p], 0}
                          /\ u.invitations[p] \subseteq t.invitations[p]
    /\ \A i \in Ids : /\ t.leader[i] = Nobody => u.leader[i] = Nobody
                      /\ u.inviteList[i] \subseteq t.inviteList[i]

LEMMA Fields ==
  ASSUME NEW t \in State
  PROVE  /\ t.party \in [Players -> 0 .. MaxParties]
         /\ t.invitations \in [Players -> SUBSET Ids]
         /\ t.leader \in [Ids -> Players \cup {Nobody}]
         /\ t.memberList \in [Ids -> Seq(Players)]
         /\ t.inviteList \in [Ids -> SUBSET Players]
         /\ t.active \in [Ids -> BOOLEAN] /\ t.enabled \in [Ids -> BOOLEAN]
         /\ t.ticks \in [Ids -> [Players -> {"none", "recent", "old"}]]
  BY DEF State

LEMMA IdFacts == \A i \in Ids : i \in 0 .. MaxParties /\ i # 0 /\ i \in Nat
  BY PartyAssumption DEF Ids

LEMMA MemberFacts ==
  ASSUME NEW t \in State, NEW i \in Ids
  PROVE  /\ Members(t, i) \subseteq Players
         /\ t.memberList[i] \in Seq(Players)
         /\ t.memberList[i] = <<>> <=> Members(t, i) = {}
         /\ t.memberList[i] # <<>> => Head(t.memberList[i]) \in Members(t, i)
  BY Fields, EmptyLemma DEF Members

(* What a party sees is all that counts for it.                             *)
LEMMA SameFit ==
  ASSUME NEW t, NEW u, NEW j, NEW at, NEW notes,
         u.leader[j] = t.leader[j], u.memberList[j] = t.memberList[j], u.ticks[j] = t.ticks[j]
  PROVE  Fit(u, j, at, notes) = Fit(t, j, at, notes)
  BY DEF Fit, All, Members

LEMMA SameKept ==
  ASSUME NEW t \in State, NEW u \in State, NEW j \in Ids, NEW Q \in SUBSET Players, NEW at,
         Same(t, u, j), Kept(t, j, Q, at)
  PROVE  Kept(u, j, Q, at)
  <1>1. /\ Members(u, j) = Members(t, j) /\ All(u, j) = All(t, j)
        /\ Empty(u, j) = Empty(t, j)
    BY DEF Same, Members, All, Empty
  <1>2. Led(u, j) <=> Led(t, j)
    <2>1. t.leader[j] \in Players \cup {Nobody}
      BY Fields
    <2> QED  BY <2>1 DEF Same, Led
  <1>3. Good(u, j, Q)
    <2>1. CASE Led(t, j)
      BY <1>1, <1>2, <2>1 DEF Same, Good, Known, Kept
    <2>2. CASE ~Led(t, j)
      BY <1>2, <2>2 DEF Same, Good, Bare, Kept
    <2> QED  BY <2>1, <2>2
  <1>4. Shared(u, j, at)
    <2>1. \A notes : Fit(u, j, at, notes) = Fit(t, j, at, notes)
      BY SameFit DEF Same
    <2> QED  BY <2>1 DEF Kept, Shared, Same
  <1> QED  BY <1>1, <1>2, <1>3, <1>4 DEF Kept

LEMMA OthersKept ==
  ASSUME NEW t \in State, NEW u \in State, NEW i \in Ids, NEW Q \in SUBSET Players, NEW at,
         Others(t, u, i), \A j \in Ids : Kept(t, j, Q, at), Kept(u, i, Q, at)
  PROVE  \A j \in Ids : Kept(u, j, Q, at)
  BY SameKept DEF Others

LEMMA OthersTransitive ==
  ASSUME NEW t, NEW u, NEW v, NEW i, Others(t, u, i), Others(u, v, i)
  PROVE  Others(t, v, i)
  BY DEF Others, Same

LEMMA FewerTransitive ==
  ASSUME NEW t, NEW u, NEW v, Fewer(t, u), Fewer(u, v)
  PROVE  Fewer(t, v)
  BY DEF Fewer

LEMMA NothingChanges ==
  ASSUME NEW t, NEW i
  PROVE  Others(t, t, i) /\ Fewer(t, t)
  BY DEF Others, Same, Fewer

(* The calls.                                                               *)
LEMMA FitNotes ==
  ASSUME NEW t, NEW i, NEW at, Fit(t, i, at, {"recent"})
  PROVE  Fit(t, i, at, {"recent", "old"})
  BY DEF Fit

-----------------------------------------------------------------------------
(* One field at a time, in one place.                                       *)
At(g, f, i, x) == g[i] = x /\ \A j \in Ids \ {i} : g[j] = f[j]

WithParties(t, x) == [t EXCEPT !.party = x]
WithInvitations(t, x) == [t EXCEPT !.invitations = x]
WithLeader(t, i, x) == [t EXCEPT !.leader[i] = x]
WithMembers(t, i, x) == [t EXCEPT !.memberList[i] = x]
WithInvites(t, i, x) == [t EXCEPT !.inviteList[i] = x]
WithActive(t, i, x) == [t EXCEPT !.active[i] = x]
WithEnabled(t, i, x) == [t EXCEPT !.enabled[i] = x]
WithTicks(t, i, x) == [t EXCEPT !.ticks[i] = x]

LEMMA PutParties ==
  ASSUME NEW t \in State, NEW x \in [Players -> 0 .. MaxParties], NEW u, u = WithParties(t, x)
  PROVE  /\ u \in State /\ u.party = x
         /\ u.invitations = t.invitations /\ u.leader = t.leader /\ u.memberList = t.memberList
         /\ u.inviteList = t.inviteList /\ u.active = t.active /\ u.enabled = t.enabled
         /\ u.ticks = t.ticks
  BY DEF State, WithParties

LEMMA PutInvitations ==
  ASSUME NEW t \in State, NEW x \in [Players -> SUBSET Ids], NEW u, u = WithInvitations(t, x)
  PROVE  /\ u \in State /\ u.invitations = x
         /\ u.party = t.party /\ u.leader = t.leader /\ u.memberList = t.memberList
         /\ u.inviteList = t.inviteList /\ u.active = t.active /\ u.enabled = t.enabled
         /\ u.ticks = t.ticks
  BY DEF State, WithInvitations

LEMMA PutLeader ==
  ASSUME NEW t \in State, NEW i \in Ids, NEW x \in Players \cup {Nobody},
         NEW u, u = WithLeader(t, i, x)
  PROVE  /\ u \in State /\ At(u.leader, t.leader, i, x)
         /\ u.party = t.party /\ u.invitations = t.invitations /\ u.memberList = t.memberList
         /\ u.inviteList = t.inviteList /\ u.active = t.active /\ u.enabled = t.enabled
         /\ u.ticks = t.ticks
  <1> DEFINE e == [t.leader EXCEPT ![i] = x]
  <1>1. u = [t EXCEPT !.leader = e] /\ e \in [Ids -> Players \cup {Nobody}]
    BY Fields DEF WithLeader
  <1> HIDE DEF e
  <1>2. u \in State
    BY <1>1 DEF State
  <1>3. /\ u.leader = e
        /\ u.party = t.party /\ u.invitations = t.invitations /\ u.memberList = t.memberList
        /\ u.inviteList = t.inviteList /\ u.active = t.active /\ u.enabled = t.enabled
        /\ u.ticks = t.ticks
    BY <1>1 DEF State
  <1> QED  BY <1>2, <1>3, Fields DEF e, At

LEMMA PutMembers ==
  ASSUME NEW t \in State, NEW i \in Ids, NEW x \in Seq(Players),
         NEW u, u = WithMembers(t, i, x)
  PROVE  /\ u \in State /\ At(u.memberList, t.memberList, i, x)
         /\ u.party = t.party /\ u.invitations = t.invitations /\ u.leader = t.leader
         /\ u.inviteList = t.inviteList /\ u.active = t.active /\ u.enabled = t.enabled
         /\ u.ticks = t.ticks
  <1> DEFINE e == [t.memberList EXCEPT ![i] = x]
  <1>1. u = [t EXCEPT !.memberList = e] /\ e \in [Ids -> Seq(Players)]
    BY Fields DEF WithMembers
  <1> HIDE DEF e
  <1>2. u \in State
    BY <1>1 DEF State
  <1>3. /\ u.memberList = e
        /\ u.party = t.party /\ u.invitations = t.invitations /\ u.leader = t.leader
        /\ u.inviteList = t.inviteList /\ u.active = t.active /\ u.enabled = t.enabled
        /\ u.ticks = t.ticks
    BY <1>1 DEF State
  <1> QED  BY <1>2, <1>3, Fields DEF e, At

LEMMA PutInvites ==
  ASSUME NEW t \in State, NEW i \in Ids, NEW x \in SUBSET Players,
         NEW u, u = WithInvites(t, i, x)
  PROVE  /\ u \in State /\ At(u.inviteList, t.inviteList, i, x)
         /\ u.party = t.party /\ u.invitations = t.invitations /\ u.leader = t.leader
         /\ u.memberList = t.memberList /\ u.active = t.active /\ u.enabled = t.enabled
         /\ u.ticks = t.ticks
  <1> DEFINE e == [t.inviteList EXCEPT ![i] = x]
  <1>1. u = [t EXCEPT !.inviteList = e] /\ e \in [Ids -> SUBSET Players]
    BY Fields DEF WithInvites
  <1> HIDE DEF e
  <1>2. u \in State
    BY <1>1 DEF State
  <1>3. /\ u.inviteList = e
        /\ u.party = t.party /\ u.invitations = t.invitations /\ u.leader = t.leader
        /\ u.memberList = t.memberList /\ u.active = t.active /\ u.enabled = t.enabled
        /\ u.ticks = t.ticks
    BY <1>1 DEF State
  <1> QED  BY <1>2, <1>3, Fields DEF e, At

LEMMA PutActive ==
  ASSUME NEW t \in State, NEW i \in Ids, NEW x \in BOOLEAN,
         NEW u, u = WithActive(t, i, x)
  PROVE  /\ u \in State /\ At(u.active, t.active, i, x)
         /\ u.party = t.party /\ u.invitations = t.invitations /\ u.leader = t.leader
         /\ u.memberList = t.memberList /\ u.inviteList = t.inviteList /\ u.enabled = t.enabled
         /\ u.ticks = t.ticks
  <1> DEFINE e == [t.active EXCEPT ![i] = x]
  <1>1. u = [t EXCEPT !.active = e] /\ e \in [Ids -> BOOLEAN]
    BY Fields DEF WithActive
  <1> HIDE DEF e
  <1>2. u \in State
    BY <1>1 DEF State
  <1>3. /\ u.active = e
        /\ u.party = t.party /\ u.invitations = t.invitations /\ u.leader = t.leader
        /\ u.memberList = t.memberList /\ u.inviteList = t.inviteList /\ u.enabled = t.enabled
        /\ u.ticks = t.ticks
    BY <1>1 DEF State
  <1> QED  BY <1>2, <1>3, Fields DEF e, At

LEMMA PutEnabled ==
  ASSUME NEW t \in State, NEW i \in Ids, NEW x \in BOOLEAN,
         NEW u, u = WithEnabled(t, i, x)
  PROVE  /\ u \in State /\ At(u.enabled, t.enabled, i, x)
         /\ u.party = t.party /\ u.invitations = t.invitations /\ u.leader = t.leader
         /\ u.memberList = t.memberList /\ u.inviteList = t.inviteList /\ u.active = t.active
         /\ u.ticks = t.ticks
  <1> DEFINE e == [t.enabled EXCEPT ![i] = x]
  <1>1. u = [t EXCEPT !.enabled = e] /\ e \in [Ids -> BOOLEAN]
    BY Fields DEF WithEnabled
  <1> HIDE DEF e
  <1>2. u \in State
    BY <1>1 DEF State
  <1>3. /\ u.enabled = e
        /\ u.party = t.party /\ u.invitations = t.invitations /\ u.leader = t.leader
        /\ u.memberList = t.memberList /\ u.inviteList = t.inviteList /\ u.active = t.active
        /\ u.ticks = t.ticks
    BY <1>1 DEF State
  <1> QED  BY <1>2, <1>3, Fields DEF e, At

LEMMA PutTicks ==
  ASSUME NEW t \in State, NEW i \in Ids, NEW x \in [Players -> {"none", "recent", "old"}],
         NEW u, u = WithTicks(t, i, x)
  PROVE  /\ u \in State /\ At(u.ticks, t.ticks, i, x)
         /\ u.party = t.party /\ u.invitations = t.invitations /\ u.leader = t.leader
         /\ u.memberList = t.memberList /\ u.inviteList = t.inviteList /\ u.active = t.active
         /\ u.enabled = t.enabled
  <1> DEFINE e == [t.ticks EXCEPT ![i] = x]
  <1>1. u = [t EXCEPT !.ticks = e] /\ e \in [Ids -> [Players -> {"none", "recent", "old"}]]
    BY Fields DEF WithTicks
  <1> HIDE DEF e
  <1>2. u \in State
    BY <1>1 DEF State
  <1>3. /\ u.ticks = e
        /\ u.party = t.party /\ u.invitations = t.invitations /\ u.leader = t.leader
        /\ u.memberList = t.memberList /\ u.inviteList = t.inviteList /\ u.active = t.active
        /\ u.enabled = t.enabled
    BY <1>1 DEF State
  <1> QED  BY <1>2, <1>3, Fields DEF e, At

\* All but the flag stays, and that is right.
LEMMA UpdateLemma ==
  ASSUME NEW t \in State, NEW i \in Ids, NEW at,
         NEW u, u = UpdateSharedExperience(t, i, at)
  PROVE  /\ u \in State /\ Shared(u, i, at) /\ Others(t, u, i)
         /\ u.party = t.party /\ u.invitations = t.invitations /\ u.leader = t.leader
         /\ u.memberList = t.memberList /\ u.inviteList = t.inviteList /\ u.active = t.active
         /\ u.ticks = t.ticks
  <1>1. CASE ~t.active[i]
    <2>1. u = t
      BY <1>1 DEF UpdateSharedExperience
    <2> QED  BY <1>1, <2>1, NothingChanges DEF Shared
  <1>2. CASE t.active[i]
    <2> DEFINE b == Fit(t, i, at, {"recent"})
    <2>1. u = WithEnabled(t, i, b)
      BY <1>2 DEF UpdateSharedExperience, WithEnabled
    <2>2. b \in BOOLEAN
      BY DEF Fit
    <2>3. b = Fit(t, i, at, {"recent"})
      OBVIOUS
    <2> HIDE DEF b
    <2>4. /\ u \in State
          /\ u.party = t.party /\ u.invitations = t.invitations /\ u.leader = t.leader
          /\ u.memberList = t.memberList /\ u.inviteList = t.inviteList /\ u.active = t.active
          /\ u.ticks = t.ticks /\ At(u.enabled, t.enabled, i, b)
      BY <2>1, <2>2, PutEnabled
    <2>5. u.enabled[i] = b /\ \A j \in Ids \ {i} : u.enabled[j] = t.enabled[j]
      BY <2>4 DEF At
    <2>6. \A notes : Fit(u, i, at, notes) = Fit(t, i, at, notes)
      BY <2>4, SameFit
    <2>7. Shared(u, i, at)
      BY <2>3, <2>5, <2>6, FitNotes DEF Shared
    <2>8. Others(t, u, i)
      BY <2>4, <2>5 DEF Others, Same
    <2> QED  BY <2>4, <2>7, <2>8
  <1> QED  BY <1>1, <1>2

LEMMA SetPartyLemma ==
  ASSUME NEW t \in State, NEW P, NEW i \in 0 .. MaxParties, NEW u, u = SetParty(t, P, i)
  PROVE  /\ u \in State
         /\ \A p \in Players : (p \in P => u.party[p] = i) /\ (p \notin P => u.party[p] = t.party[p])
         /\ u.invitations = t.invitations /\ u.leader = t.leader
         /\ u.memberList = t.memberList /\ u.inviteList = t.inviteList /\ u.active = t.active
         /\ u.enabled = t.enabled /\ u.ticks = t.ticks
  <1> DEFINE e == [p \in Players |-> IF p \in P THEN i ELSE t.party[p]]
  <1>1. u = WithParties(t, e) /\ e \in [Players -> 0 .. MaxParties]
    BY Fields DEF SetParty, WithParties
  <1>2. \A p \in Players : (p \in P => e[p] = i) /\ (p \notin P => e[p] = t.party[p])
    OBVIOUS
  <1> HIDE DEF e
  <1> QED  BY <1>1, <1>2, PutParties

LEMMA DisbandFields ==
  ASSUME NEW t \in State, NEW i \in Ids, NEW d, d = Disband(t, i)
  PROVE  /\ d \in State
         /\ \A p \in Players :
              /\ p \in All(t, i) => d.party[p] = 0
              /\ p \notin All(t, i) => d.party[p] = t.party[p]
              /\ p \in t.inviteList[i] => d.invitations[p] = t.invitations[p] \ {i}
              /\ p \notin t.inviteList[i] => d.invitations[p] = t.invitations[p]
         /\ d.leader[i] = Nobody /\ d.memberList[i] = <<>> /\ d.inviteList[i] = {}
         /\ ~d.active[i]
         /\ \A j \in Ids \ {i} : /\ d.leader[j] = t.leader[j] /\ d.memberList[j] = t.memberList[j]
                                 /\ d.inviteList[j] = t.inviteList[j]
                                 /\ d.active[j] = t.active[j] /\ d.enabled[j] = t.enabled[j]
                                 /\ d.ticks[j] = t.ticks[j]
  <1> DEFINE inv == [p \in Players |-> IF p \in t.inviteList[i] THEN t.invitations[p] \ {i}
                                       ELSE t.invitations[p]]
             none == [p \in Players |-> "none"]
             nil == <<>>
             no == FALSE
             u == WithInvitations(t, inv)
             v == SetParty(u, All(t, i), 0)
             d1 == WithLeader(v, i, Nobody)
             d2 == WithMembers(d1, i, nil)
             d3 == WithInvites(d2, i, {})
             d4 == WithActive(d3, i, no)
             d5 == WithEnabled(d4, i, no)
  <1>1. d = WithTicks(d5, i, none)
    BY DEF Disband, WithInvitations, WithLeader, WithMembers, WithInvites, WithActive,
           WithEnabled, WithTicks
  <1>2. /\ inv \in [Players -> SUBSET Ids] /\ none \in [Players -> {"none", "recent", "old"}]
        /\ \A p \in Players : /\ p \in t.inviteList[i] => inv[p] = t.invitations[p] \ {i}
                              /\ p \notin t.inviteList[i] => inv[p] = t.invitations[p]
    BY Fields
  <1>3. /\ 0 \in 0 .. MaxParties /\ nil \in Seq(Players) /\ Nobody \in Players \cup {Nobody}
        /\ {} \in SUBSET Players /\ no \in BOOLEAN
    BY PartyAssumption
  <1> HIDE DEF none, inv, nil, no
  <1>4. /\ u \in State /\ u.invitations = inv /\ u.party = t.party /\ u.leader = t.leader
        /\ u.memberList = t.memberList /\ u.inviteList = t.inviteList /\ u.active = t.active
        /\ u.enabled = t.enabled /\ u.ticks = t.ticks
    BY <1>2, PutInvitations
  <1> HIDE DEF u
  <1>5. /\ v \in State /\ v.invitations = inv
        /\ \A p \in Players : /\ p \in All(t, i) => v.party[p] = 0
                              /\ p \notin All(t, i) => v.party[p] = t.party[p]
        /\ v.leader = t.leader
        /\ v.memberList = t.memberList /\ v.inviteList = t.inviteList /\ v.active = t.active
        /\ v.enabled = t.enabled /\ v.ticks = t.ticks
    BY <1>3, <1>4, SetPartyLemma
  <1> HIDE DEF v
  <1>6. /\ d1 \in State /\ d1.party = v.party /\ d1.invitations = inv
        /\ At(d1.leader, t.leader, i, Nobody)
        /\ d1.memberList = t.memberList /\ d1.inviteList = t.inviteList /\ d1.active = t.active
        /\ d1.enabled = t.enabled /\ d1.ticks = t.ticks
    BY <1>3, <1>5, PutLeader
  <1> HIDE DEF d1
  <1>7. /\ d2 \in State /\ d2.party = v.party /\ d2.invitations = inv /\ d2.leader = d1.leader
        /\ At(d2.memberList, t.memberList, i, nil)
        /\ d2.inviteList = t.inviteList /\ d2.active = t.active
        /\ d2.enabled = t.enabled /\ d2.ticks = t.ticks
    BY <1>3, <1>6, PutMembers
  <1> HIDE DEF d2
  <1>8. /\ d3 \in State /\ d3.party = v.party /\ d3.invitations = inv /\ d3.leader = d1.leader
        /\ d3.memberList = d2.memberList /\ At(d3.inviteList, t.inviteList, i, {})
        /\ d3.active = t.active /\ d3.enabled = t.enabled /\ d3.ticks = t.ticks
    BY <1>3, <1>7, PutInvites
  <1> HIDE DEF d3
  <1>9. /\ d4 \in State /\ d4.party = v.party /\ d4.invitations = inv /\ d4.leader = d1.leader
        /\ d4.memberList = d2.memberList /\ d4.inviteList = d3.inviteList
        /\ At(d4.active, t.active, i, no)
        /\ d4.enabled = t.enabled /\ d4.ticks = t.ticks
    BY <1>3, <1>8, PutActive
  <1> HIDE DEF d4
  <1>10. /\ d5 \in State /\ d5.party = v.party /\ d5.invitations = inv /\ d5.leader = d1.leader
         /\ d5.memberList = d2.memberList /\ d5.inviteList = d3.inviteList
         /\ d5.active = d4.active /\ At(d5.enabled, t.enabled, i, no)
         /\ d5.ticks = t.ticks
    BY <1>3, <1>9, PutEnabled
  <1> HIDE DEF d5
  <1>11. /\ d \in State /\ d.party = v.party /\ d.invitations = inv /\ d.leader = d1.leader
         /\ d.memberList = d2.memberList /\ d.inviteList = d3.inviteList
         /\ d.active = d4.active /\ d.enabled = d5.enabled
         /\ At(d.ticks, t.ticks, i, none)
    BY <1>1, <1>2, <1>10, PutTicks
  <1>12. d.leader[i] = Nobody /\ \A j \in Ids \ {i} : d.leader[j] = t.leader[j]
    BY <1>6, <1>11 DEF At
  <1>13. d.memberList[i] = <<>> /\ \A j \in Ids \ {i} : d.memberList[j] = t.memberList[j]
    BY <1>7, <1>11 DEF At, nil
  <1>14. d.inviteList[i] = {} /\ \A j \in Ids \ {i} : d.inviteList[j] = t.inviteList[j]
    BY <1>8, <1>11 DEF At
  <1>15. ~d.active[i] /\ \A j \in Ids \ {i} : d.active[j] = t.active[j]
    BY <1>9, <1>11 DEF At, no
  <1>16. \A j \in Ids \ {i} : d.enabled[j] = t.enabled[j] /\ d.ticks[j] = t.ticks[j]
    BY <1>10, <1>11 DEF At
  <1> QED  BY <1>2, <1>5, <1>11, <1>12, <1>13, <1>14, <1>15, <1>16

\* A party that is disbanded takes its players and its invitations with it.
LEMMA DisbandLemma ==
  ASSUME NEW t \in State, NEW i \in Ids, NEW Q \in SUBSET Players, NEW at,
         NEW d, d = Disband(t, i),
         \A p \in Players : /\ t.party[p] = i => p \in All(t, i)
                            /\ p \in All(t, i) => t.party[p] \in {i, 0},
         \A p \in Q : i \in t.invitations[p] => p \in t.inviteList[i]
  PROVE  d \in State /\ Kept(d, i, Q, at) /\ Others(t, d, i) /\ Fewer(t, d)
  <1>1. /\ d \in State
        /\ \A p \in Players : /\ p \in All(t, i) => d.party[p] = 0
                              /\ p \notin All(t, i) => d.party[p] = t.party[p]
                              /\ p \in t.inviteList[i] => d.invitations[p] = t.invitations[p] \ {i}
                              /\ p \notin t.inviteList[i] => d.invitations[p] = t.invitations[p]
        /\ d.leader[i] = Nobody /\ d.memberList[i] = <<>> /\ d.inviteList[i] = {}
        /\ ~d.active[i]
        /\ \A j \in Ids \ {i} : /\ d.leader[j] = t.leader[j] /\ d.memberList[j] = t.memberList[j]
                                /\ d.inviteList[j] = t.inviteList[j]
                                /\ d.active[j] = t.active[j] /\ d.enabled[j] = t.enabled[j]
                                /\ d.ticks[j] = t.ticks[j]
    BY DisbandFields
  <1>2. i # 0 /\ \A j \in Ids : j # 0
    BY IdFacts
  <1>3. Kept(d, i, Q, at)
    <2>1. ~Led(d, i)
      BY <1>1 DEF Led
    <2>2. Bare(d, i, Q)
      BY <1>1, <1>2 DEF Bare
    <2>3. Shared(d, i, at)
      BY <1>1 DEF Shared
    <2> QED  BY <2>1, <2>2, <2>3 DEF Kept, Good
  <1>4. Others(t, d, i)
    <2> SUFFICES ASSUME NEW j \in Ids \ {i} PROVE Same(t, d, j)
      BY DEF Others
    <2>1. ASSUME NEW p \in Players PROVE d.party[p] = j <=> t.party[p] = j
      <3>1. CASE p \in All(t, i)
        <4>1. t.party[p] \in {i, 0} /\ d.party[p] = 0
          BY <1>1, <3>1
        <4> QED  BY <1>2, <4>1
      <3>2. CASE p \notin All(t, i)
        BY <1>1, <3>2
      <3> QED  BY <3>1, <3>2
    <2>2. \A p \in Players : j \in d.invitations[p] <=> j \in t.invitations[p]
      BY <1>1
    <2> QED  BY <1>1, <2>1, <2>2 DEF Same
  <1>5. Fewer(t, d)
    <2>1. \A j \in Ids : /\ t.leader[j] = Nobody => d.leader[j] = Nobody
                         /\ d.inviteList[j] \subseteq t.inviteList[j]
      BY <1>1
    <2>2. \A p \in Players : d.party[p] \in {t.party[p], 0} /\ d.invitations[p] \subseteq t.invitations[p]
      BY <1>1
    <2> QED  BY <2>1, <2>2 DEF Fewer
  <1> QED  BY <1>1, <1>3, <1>4, <1>5

\* A party that has lost something is kept, or disbanded if it is empty.
LEMMA DisbandIfEmptyLemma ==
  ASSUME NEW t \in State, NEW i \in Ids, NEW Q \in SUBSET Players, NEW at,
         Known(t, i, Q), Led(t, i), Shared(t, i, at),
         NEW d, d = DisbandIfEmpty(t, i)
  PROVE  d \in State /\ Kept(d, i, Q, at) /\ Others(t, d, i) /\ Fewer(t, d)
  <1>1. CASE Empty(t, i)
    <2>1. d = Disband(t, i)
      BY <1>1 DEF DisbandIfEmpty
    <2> QED  BY <2>1, DisbandLemma DEF Known
  <1>2. CASE ~Empty(t, i)
    <2>1. d = t
      BY <1>2 DEF DisbandIfEmpty
    <2> QED  BY <1>2, <2>1, NothingChanges DEF Kept, Good
  <1> QED  BY <1>1, <1>2

-----------------------------------------------------------------------------
(* Invitations that are taken back.                                         *)
Uninvited(t, i, p, inv) ==
    WithInvitations(WithInvites(t, i, t.inviteList[i] \ {p}), inv)

\* Nothing but that invitation goes from the lists of the players, if at all.
Forgotten(t, i, p, inv, Q) ==
    /\ inv \in [Players -> SUBSET Ids]
    /\ \A q \in Players : inv[q] \subseteq t.invitations[q]
    /\ \A q \in Players, j \in Ids :
         j \in t.invitations[q] => j \in inv[q] \/ (q = p /\ j = i)
    /\ i \notin inv[p] \/ p \notin Q

\* A party takes an invitation off its list; the player has forgotten it, or
\* its own list does not count.
LEMMA UninviteLemma ==
  ASSUME NEW t \in State, NEW i \in Ids, NEW p \in Players, NEW Q \in SUBSET Players, NEW at,
         \A j \in Ids : Kept(t, j, Q, at), p \in t.inviteList[i],
         NEW inv, Forgotten(t, i, p, inv, Q),
         NEW u, u = DisbandIfEmpty(Uninvited(t, i, p, inv), i)
  PROVE  /\ u \in State /\ \A j \in Ids : Kept(u, j, Q, at)
         /\ Fewer(t, u) /\ p \notin u.inviteList[i]
  <1> DEFINE v == WithInvites(t, i, t.inviteList[i] \ {p})
             w == Uninvited(t, i, p, inv)
  <1>0. /\ inv \in [Players -> SUBSET Ids]
        /\ \A q \in Players : inv[q] \subseteq t.invitations[q]
        /\ \A q \in Players, j \in Ids :
             j \in t.invitations[q] => j \in inv[q] \/ (q = p /\ j = i)
        /\ i \notin inv[p] \/ p \notin Q
    BY DEF Forgotten
  <1>1. /\ v \in State /\ At(v.inviteList, t.inviteList, i, t.inviteList[i] \ {p})
        /\ v.party = t.party /\ v.invitations = t.invitations /\ v.leader = t.leader
        /\ v.memberList = t.memberList /\ v.active = t.active
        /\ v.enabled = t.enabled /\ v.ticks = t.ticks
    <2>1. t.inviteList[i] \ {p} \in SUBSET Players
      BY Fields
    <2> HIDE DEF v
    <2> QED  BY <2>1, PutInvites DEF v
  <1>2. w = WithInvitations(v, inv)
    BY DEF Uninvited
  <1> HIDE DEF v, w
  <1>3. /\ w \in State /\ w.inviteList[i] = t.inviteList[i] \ {p}
        /\ \A j \in Ids \ {i} : w.inviteList[j] = t.inviteList[j]
        /\ w.party = t.party /\ w.invitations = inv /\ w.leader = t.leader
        /\ w.memberList = t.memberList /\ w.active = t.active
        /\ w.enabled = t.enabled /\ w.ticks = t.ticks
    <2>1. /\ w \in State /\ w.inviteList = v.inviteList
          /\ w.party = t.party /\ w.invitations = inv /\ w.leader = t.leader
          /\ w.memberList = t.memberList /\ w.active = t.active
          /\ w.enabled = t.enabled /\ w.ticks = t.ticks
      BY <1>0, <1>1, <1>2, PutInvitations
    <2>2. /\ v.inviteList[i] = t.inviteList[i] \ {p}
          /\ \A j \in Ids \ {i} : v.inviteList[j] = t.inviteList[j]
      BY <1>1 DEF At
    <2> QED  BY <2>1, <2>2
  <1>4. Led(t, i) /\ Known(t, i, Q) /\ Shared(t, i, at)
    <2>1. t.inviteList[i] # {} /\ Kept(t, i, Q, at)
      OBVIOUS
    <2> QED  BY <2>1 DEF Kept, Good, Bare
  <1>5. Led(w, i)
    BY <1>3, <1>4 DEF Led
  <1>6. Shared(w, i, at)
    <2>1. \A notes : Fit(w, i, at, notes) = Fit(t, i, at, notes)
      BY <1>3, SameFit
    <2> QED  BY <1>3, <1>4, <2>1 DEF Shared
  <1>7. Known(w, i, Q)
    <2>1. Members(w, i) = Members(t, i) /\ All(w, i) = All(t, i)
      BY <1>3 DEF Members, All
    <2>2. ASSUME NEW q \in Q PROVE i \in w.invitations[q] <=> q \in w.inviteList[i]
      <3>1. i \in t.invitations[q] <=> q \in t.inviteList[i]
        BY <1>4 DEF Known
      <3>2. q \in Players
        OBVIOUS
      <3>3. CASE q = p
        BY <1>0, <1>3, <3>3
      <3>4. CASE q # p
        <4>1. i \in inv[q] <=> i \in t.invitations[q]
          BY <1>0, <3>2, <3>4
        <4> QED  BY <1>3, <3>1, <3>4, <4>1
      <3> QED  BY <3>3, <3>4
    <2> QED  BY <1>3, <1>4, <2>1, <2>2 DEF Known
  <1>8. Others(t, w, i)
    <2> SUFFICES ASSUME NEW j \in Ids \ {i} PROVE Same(t, w, j)
      BY DEF Others
    <2>1. \A q \in Players : j \in w.invitations[q] <=> j \in t.invitations[q]
      BY <1>0, <1>3
    <2> QED  BY <1>3, <2>1 DEF Same
  <1>9. Fewer(t, w)
    BY <1>0, <1>3 DEF Fewer
  <1>10. u \in State /\ Kept(u, i, Q, at) /\ Others(w, u, i) /\ Fewer(w, u)
    <2>1. u = DisbandIfEmpty(w, i)
      BY DEF w
    <2> QED  BY <2>1, <1>3, <1>5, <1>6, <1>7, DisbandIfEmptyLemma
  <1>11. Others(t, u, i) /\ Fewer(t, u)
    BY <1>8, <1>9, <1>10, OthersTransitive, FewerTransitive
  <1>12. p \notin u.inviteList[i]
    BY <1>3, <1>10 DEF Fewer
  <1> QED  BY <1>10, <1>11, <1>12, OthersKept

\* The party forgets the player, and the player the party.
LEMMA RevokeLemma ==
  ASSUME NEW t \in State, NEW i \in Ids, NEW p \in Players, NEW at,
         \A j \in Ids : Kept(t, j, Players, at),
         NEW u, u = RemoveInvite(t, i, p, TRUE)
  PROVE  u \in State /\ (\A j \in Ids : Kept(u, j, Players, at)) /\ Fewer(t, u)
  <1>1. CASE p \notin t.inviteList[i]
    <2>1. u = t
      BY <1>1 DEF RemoveInvite
    <2> QED  BY <2>1, NothingChanges
  <1>2. CASE p \in t.inviteList[i]
    <2> DEFINE inv == [t.invitations EXCEPT ![p] = @ \ {i}]
    <2>1. u = DisbandIfEmpty(Uninvited(t, i, p, inv), i)
      BY <1>2 DEF RemoveInvite, Uninvited, WithInvitations, WithInvites
    <2>2. Forgotten(t, i, p, inv, Players)
      BY Fields DEF Forgotten
    <2> HIDE DEF inv
    <2>3. Players \in SUBSET Players
      OBVIOUS
    <2> QED  BY <1>2, <2>1, <2>2, <2>3, UninviteLemma
  <1> QED  BY <1>1, <1>2

\* The player who clears its list is not asked.
Forget(t, i, p) == RemoveInvite(t, i, p, FALSE)

LEMMA ForgetLemma ==
  ASSUME NEW t \in State, NEW i \in Ids, NEW p \in Players, NEW Q \in SUBSET Players, NEW at,
         p \notin Q, \A j \in Ids : Kept(t, j, Q, at), NEW u, u = Forget(t, i, p)
  PROVE  /\ u \in State /\ \A j \in Ids : Kept(u, j, Q, at)
         /\ Fewer(t, u) /\ p \notin u.inviteList[i]
  <1>1. CASE p \notin t.inviteList[i]
    <2>1. u = t
      BY <1>1 DEF Forget, RemoveInvite
    <2> QED  BY <1>1, <2>1, NothingChanges
  <1>2. CASE p \in t.inviteList[i]
    <2> DEFINE inv == t.invitations
    <2>1. u = DisbandIfEmpty(Uninvited(t, i, p, inv), i)
      <3>1. u = DisbandIfEmpty([t EXCEPT !.inviteList[i] = @ \ {p},
                                         !.invitations[p] = IF FALSE THEN @ \ {i} ELSE @], i)
        BY <1>2 DEF Forget, RemoveInvite
      <3>2. [t EXCEPT !.inviteList[i] = @ \ {p}, !.invitations[p] = IF FALSE THEN @ \ {i} ELSE @]
              = [t EXCEPT !.inviteList[i] = @ \ {p},
                          !.invitations = [t.invitations EXCEPT ![p] = t.invitations[p]]]
        BY DEF State
      <3>3. [t.invitations EXCEPT ![p] = t.invitations[p]] = inv
        BY Fields
      <3> QED  BY <3>1, <3>2, <3>3 DEF Uninvited, WithInvitations, WithInvites
    <2>2. Forgotten(t, i, p, inv, Q)
      BY Fields DEF Forgotten
    <2> HIDE DEF inv
    <2> QED  BY <1>2, <2>1, <2>2, UninviteLemma
  <1> QED  BY <1>1, <1>2

-----------------------------------------------------------------------------
(* The leadership is passed on.                                             *)
LEMMA AbsentLemma ==
  ASSUME NEW l \in Seq(Players), NEW p, p \notin ToSet(l)
  PROVE  RemoveFirst(l, p) = l
  <1>1. DOMAIN l = 1 .. Len(l)
    BY LenProperties
  <1>2. ~ \E i \in 1 .. Len(l) : l[i] = p
    BY <1>1 DEF ToSet
  <1> QED  BY <1>2 DEF RemoveFirst

LEMMA LedFacts ==
  ASSUME NEW t \in State, NEW i \in Ids, NEW p \in Players, NEW at, Kept(t, i, Players, at),
         t.party[p] = i
  PROVE  /\ Led(t, i) /\ Known(t, i, Players) /\ ~Empty(t, i) /\ Shared(t, i, at)
         /\ t.leader[i] \in Players /\ p \in All(t, i)
         /\ t.memberList[i] \in Seq(Players) /\ IsInjective(t.memberList[i])
         /\ Members(t, i) \subseteq Players /\ t.leader[i] \notin Members(t, i)
  <1>1. Led(t, i) /\ Known(t, i, Players) /\ ~Empty(t, i) /\ Shared(t, i, at)
    BY DEF Kept, Good, Bare
  <1>2. t.leader[i] \in Players
    BY <1>1, Fields DEF Led
  <1>3. p \in All(t, i) /\ IsInjective(t.memberList[i]) /\ t.leader[i] \notin Members(t, i)
    BY <1>1 DEF Known
  <1> QED  BY <1>1, <1>2, <1>3, MemberFacts

\* The leader and a member change places.
LEMMA PassLemma ==
  ASSUME NEW t \in State, NEW i \in Ids, NEW q \in Players,
         \A j \in Ids : Kept(t, j, Players, standing),
         q \in Members(t, i), t.party[q] = i, NEW u, u = PassLeadership(t, i, q)
  PROVE  /\ u \in State /\ (\A j \in Ids : Kept(u, j, Players, standing))
         /\ Others(t, u, i) /\ Fewer(t, u)
         /\ u.party = t.party /\ u.leader[i] = q
         /\ Members(u, i) = (Members(t, i) \ {q}) \cup {t.leader[i]}
  <1> DEFINE l == t.memberList[i]
             x == <<t.leader[i]>> \o RemoveFirst(l, q)
             v == WithLeader(t, i, q)
             w == WithMembers(v, i, x)
  <1>1. u = UpdateSharedExperience(w, i, standing)
    BY DEF PassLeadership, WithLeader, WithMembers
  <1>2. /\ Led(t, i) /\ Known(t, i, Players) /\ ~Empty(t, i) /\ Shared(t, i, standing)
        /\ t.leader[i] \in Players /\ l \in Seq(Players) /\ IsInjective(l)
        /\ Members(t, i) \subseteq Players /\ t.leader[i] \notin Members(t, i)
    BY LedFacts
  <1>3. /\ x \in Seq(Players) /\ IsInjective(x) /\ x # <<>>
        /\ ToSet(x) = (Members(t, i) \ {q}) \cup {t.leader[i]}
    <2> DEFINE r == RemoveFirst(l, q)
    <2>1. r \in Seq(Players) /\ IsInjective(r) /\ ToSet(r) = Members(t, i) \ {q}
      BY <1>2, RemoveLemma DEF Members
    <2> HIDE DEF r
    <2>2. t.leader[i] \in Players \ ToSet(r)
      BY <1>2, <2>1
    <2>3. x = <<t.leader[i]>> \o r
      BY DEF r
    <2> HIDE DEF x
    <2> QED  BY <2>1, <2>2, <2>3, FrontLemma
  <1> HIDE DEF x
  <1>4. /\ v \in State /\ At(v.leader, t.leader, i, q)
        /\ v.party = t.party /\ v.invitations = t.invitations /\ v.memberList = t.memberList
        /\ v.inviteList = t.inviteList /\ v.active = t.active
        /\ v.enabled = t.enabled /\ v.ticks = t.ticks
    <2>1. q \in Players \cup {Nobody}
      OBVIOUS
    <2> HIDE DEF v
    <2> QED  BY <2>1, PutLeader DEF v
  <1> HIDE DEF v
  <1>5. /\ w \in State /\ At(w.memberList, t.memberList, i, x) /\ w.leader = v.leader
        /\ w.party = t.party /\ w.invitations = t.invitations
        /\ w.inviteList = t.inviteList /\ w.active = t.active
        /\ w.enabled = t.enabled /\ w.ticks = t.ticks
    BY <1>3, <1>4, PutMembers
  <1> HIDE DEF w
  <1>6. /\ u \in State /\ Shared(u, i, standing) /\ Others(w, u, i)
        /\ u.party = t.party /\ u.invitations = t.invitations /\ u.leader = w.leader
        /\ u.memberList = w.memberList /\ u.inviteList = t.inviteList /\ u.active = t.active
        /\ u.ticks = t.ticks
    BY <1>1, <1>5, UpdateLemma
  <1>7. u.leader[i] = q /\ \A j \in Ids \ {i} : w.leader[j] = t.leader[j] /\ u.leader[j] = t.leader[j]
    BY <1>4, <1>5, <1>6 DEF At
  <1>8. u.memberList[i] = x /\ \A j \in Ids \ {i} : w.memberList[j] = t.memberList[j]
    BY <1>5, <1>6 DEF At
  <1>9. /\ Members(u, i) = (Members(t, i) \ {q}) \cup {t.leader[i]}
        /\ All(u, i) = All(t, i) /\ q # t.leader[i]
    BY <1>2, <1>3, <1>7, <1>8 DEF Members, All
  <1>10. Led(u, i) /\ ~Empty(u, i)
    BY <1>3, <1>6, <1>7, <1>8, PartyAssumption DEF Led, Empty
  <1>11. Known(u, i, Players)
    <2>1. u.leader[i] \notin Members(u, i)
      BY <1>7, <1>9
    <2>2. \A p \in Players : u.party[p] = i <=> p \in All(u, i)
      BY <1>2, <1>6, <1>9 DEF Known
    <2>3. \A p \in Players : i \in u.invitations[p] <=> p \in u.inviteList[i]
      BY <1>2, <1>6 DEF Known
    <2> QED  BY <1>3, <1>8, <2>1, <2>2, <2>3 DEF Known
  <1>12. Others(t, w, i)
    <2> SUFFICES ASSUME NEW j \in Ids \ {i} PROVE Same(t, w, j)
      BY DEF Others
    <2> QED  BY <1>5, <1>7, <1>8 DEF Same
  <1>13. Others(t, u, i)
    BY <1>6, <1>12, OthersTransitive
  <1>14. Fewer(t, u)
    <2>1. t.leader[i] # Nobody
      BY <1>2 DEF Led
    <2> QED  BY <1>6, <1>7, <2>1 DEF Fewer
  <1>15. Kept(u, i, Players, standing)
    BY <1>6, <1>10, <1>11 DEF Kept, Good
  <1>16. Players \in SUBSET Players
    OBVIOUS
  <1>17. \A j \in Ids : Kept(u, j, Players, standing)
    BY <1>6, <1>13, <1>15, <1>16, OthersKept
  <1> QED  BY <1>6, <1>7, <1>9, <1>13, <1>14, <1>17

-----------------------------------------------------------------------------
(* A player leaves.                                                         *)
\* The list without the player, and the player without a party.
Without(t, i, p) ==
    UpdateSharedExperience(
        SetParty([t EXCEPT !.memberList[i] = RemoveFirst(@, p)], {p}, 0), i, standing)

\* A member is taken off the list; the party goes on, if for somebody.
LEMMA MemberLeaves ==
  ASSUME NEW t \in State, NEW i \in Ids, NEW p \in Players,
         \A j \in Ids : Kept(t, j, Players, standing), t.party[p] = i, p \in Members(t, i),
         NEW u, u = DisbandIfEmpty(Without(t, i, p), i)
  PROVE  /\ u \in State /\ (\A j \in Ids : Kept(u, j, Players, standing))
         /\ Fewer(t, u) /\ u.party[p] = 0
  <1> DEFINE l == t.memberList[i]
             x == RemoveFirst(l, p)
             y == WithMembers(t, i, x)
             w == SetParty(y, {p}, 0)
             v == Without(t, i, p)
  <1>1. v = UpdateSharedExperience(w, i, standing) /\ u = DisbandIfEmpty(v, i)
    BY DEF WithMembers, Without
  <1> HIDE DEF v
  <1>2. /\ Led(t, i) /\ Known(t, i, Players)
        /\ t.leader[i] \in Players /\ l \in Seq(Players) /\ IsInjective(l)
        /\ Members(t, i) \subseteq Players /\ t.leader[i] \notin Members(t, i)
    BY LedFacts
  <1>3. x \in Seq(Players) /\ IsInjective(x) /\ ToSet(x) = Members(t, i) \ {p}
    BY <1>2, RemoveLemma DEF Members
  <1> HIDE DEF x
  <1>4. /\ y \in State /\ At(y.memberList, t.memberList, i, x) /\ y.leader = t.leader
        /\ y.party = t.party /\ y.invitations = t.invitations
        /\ y.inviteList = t.inviteList /\ y.active = t.active
        /\ y.enabled = t.enabled /\ y.ticks = t.ticks
    BY <1>3, PutMembers
  <1> HIDE DEF y
  <1>5. /\ w \in State /\ w.leader = t.leader /\ w.memberList = y.memberList
        /\ \A r \in Players : /\ r \in {p} => w.party[r] = 0
                              /\ r \notin {p} => w.party[r] = t.party[r]
        /\ w.invitations = t.invitations /\ w.inviteList = t.inviteList
        /\ w.active = t.active /\ w.enabled = t.enabled /\ w.ticks = t.ticks
    <2>1. 0 \in 0 .. MaxParties
      BY PartyAssumption
    <2> QED  BY <1>4, <2>1, SetPartyLemma
  <1> HIDE DEF w
  <1>6. /\ v \in State /\ Shared(v, i, standing) /\ Others(w, v, i)
        /\ v.party = w.party /\ v.invitations = t.invitations /\ v.leader = t.leader
        /\ v.memberList = y.memberList /\ v.inviteList = t.inviteList /\ v.active = t.active
        /\ v.ticks = t.ticks
    BY <1>1, <1>5, UpdateLemma
  <1>7. v.memberList[i] = x /\ \A j \in Ids \ {i} : w.memberList[j] = t.memberList[j]
    BY <1>4, <1>5, <1>6 DEF At
  <1>8. v.party[p] = 0 /\ \A r \in Players \ {p} : v.party[r] = t.party[r]
    BY <1>5, <1>6
  <1>9. Members(v, i) = Members(t, i) \ {p} /\ All(v, i) = All(t, i) \ {p}
    BY <1>2, <1>3, <1>6, <1>7 DEF Members, All
  <1>10. Led(v, i)
    <2>1. t.leader[i] \in Players \ {p} /\ t.party[t.leader[i]] = i
      BY <1>2 DEF Led
    <2> QED  BY <1>6, <1>8, <2>1, PartyAssumption DEF Led
  <1>11. Known(v, i, Players)
    <2>1. ASSUME NEW r \in Players PROVE v.party[r] = i <=> r \in All(v, i)
      <3>1. t.party[r] = i <=> r \in All(t, i)
        BY <1>2 DEF Known
      <3>2. i # 0
        BY IdFacts
      <3> QED  BY <1>8, <1>9, <3>1, <3>2
    <2>2. \A r \in Players : i \in v.invitations[r] <=> r \in v.inviteList[i]
      BY <1>2, <1>6 DEF Known
    <2> QED  BY <1>2, <1>3, <1>6, <1>7, <1>9, <2>1, <2>2 DEF Known
  <1>12. Others(t, w, i)
    <2> SUFFICES ASSUME NEW j \in Ids \ {i} PROVE Same(t, w, j)
      BY DEF Others
    <2>1. ASSUME NEW r \in Players PROVE w.party[r] = j <=> t.party[r] = j
      <3>1. CASE r = p
        <4>1. w.party[r] = 0 /\ t.party[r] = i /\ j # 0
          BY <1>5, <3>1, IdFacts
        <4> QED  BY <4>1
      <3>2. CASE r # p
        BY <1>5, <3>2
      <3> QED  BY <3>1, <3>2
    <2> QED  BY <1>5, <1>7, <2>1 DEF Same
  <1>13. Fewer(t, v)
    <2>1. \A r \in Players : v.party[r] \in {t.party[r], 0}
      BY <1>8
    <2> QED  BY <1>6, <2>1 DEF Fewer
  <1>14. Players \in SUBSET Players
    OBVIOUS
  <1>15. u \in State /\ Kept(u, i, Players, standing) /\ Others(v, u, i) /\ Fewer(v, u)
    BY <1>1, <1>6, <1>10, <1>11, <1>14, DisbandIfEmptyLemma
  <1>16. Others(t, u, i) /\ Fewer(t, u)
    BY <1>6, <1>12, <1>13, <1>15, OthersTransitive, FewerTransitive
  <1>17. \A j \in Ids : Kept(u, j, Players, standing)
    BY <1>14, <1>15, <1>16, OthersKept
  <1>18. u.party[p] = 0
    BY <1>8, <1>15 DEF Fewer
  <1> QED  BY <1>15, <1>16, <1>17, <1>18

\* The party loses its leader and nobody follows.
LEMMA LeaderLeaves ==
  ASSUME NEW t \in State, NEW i \in Ids, NEW p \in Players,
         \A j \in Ids : Kept(t, j, Players, standing), t.party[p] = i, t.leader[i] = p,
         NEW u, u = Disband(Without(t, i, p), i)
  PROVE  /\ u \in State /\ (\A j \in Ids : Kept(u, j, Players, standing))
         /\ Fewer(t, u) /\ u.party[p] = 0
  <1> DEFINE l == t.memberList[i]
             w == SetParty(t, {p}, 0)
             v == Without(t, i, p)
  <1>1. /\ Led(t, i) /\ Known(t, i, Players)
        /\ t.leader[i] \in Players /\ l \in Seq(Players) /\ IsInjective(l)
        /\ Members(t, i) \subseteq Players /\ t.leader[i] \notin Members(t, i)
    BY LedFacts
  <1>2. v = UpdateSharedExperience(w, i, standing)
    <2>1. RemoveFirst(l, p) = l
      BY <1>1, AbsentLemma DEF Members
    <2>2. [t EXCEPT !.memberList[i] = RemoveFirst(@, p)] = [t EXCEPT !.memberList = [t.memberList EXCEPT ![i] = l]]
      BY <2>1
    <2>3. [t.memberList EXCEPT ![i] = l] = t.memberList
      BY Fields
    <2>4. [t EXCEPT !.memberList = t.memberList] = t
      BY DEF State
    <2> QED  BY <2>2, <2>3, <2>4 DEF Without
  <1> HIDE DEF v
  <1>3. /\ w \in State /\ w.leader = t.leader /\ w.memberList = t.memberList
        /\ \A r \in Players : /\ r \in {p} => w.party[r] = 0
                              /\ r \notin {p} => w.party[r] = t.party[r]
        /\ w.invitations = t.invitations /\ w.inviteList = t.inviteList
        /\ w.active = t.active /\ w.enabled = t.enabled /\ w.ticks = t.ticks
    <2>1. 0 \in 0 .. MaxParties
      BY PartyAssumption
    <2> QED  BY <2>1, SetPartyLemma
  <1> HIDE DEF w
  <1>4. /\ v \in State /\ Others(w, v, i)
        /\ v.party = w.party /\ v.invitations = t.invitations /\ v.leader = t.leader
        /\ v.memberList = t.memberList /\ v.inviteList = t.inviteList /\ v.active = t.active
        /\ v.ticks = t.ticks
    BY <1>2, <1>3, UpdateLemma
  <1>5. v.party[p] = 0 /\ \A r \in Players \ {p} : v.party[r] = t.party[r]
    BY <1>3, <1>4
  <1>6. All(v, i) = All(t, i)
    BY <1>4 DEF Members, All
  <1>7. \A r \in Players : /\ v.party[r] = i => r \in All(v, i)
                           /\ r \in All(v, i) => v.party[r] \in {i, 0}
    <2>1. i # 0
      BY IdFacts
    <2> QED  BY <1>1, <1>5, <1>6, <2>1 DEF Known
  <1>8. \A r \in Players : i \in v.invitations[r] => r \in v.inviteList[i]
    BY <1>1, <1>4 DEF Known
  <1>9. Others(t, w, i)
    <2> SUFFICES ASSUME NEW j \in Ids \ {i} PROVE Same(t, w, j)
      BY DEF Others
    <2>1. ASSUME NEW r \in Players PROVE w.party[r] = j <=> t.party[r] = j
      <3>1. CASE r = p
        <4>1. w.party[r] = 0 /\ t.party[r] = i /\ j # 0
          BY <1>3, <3>1, IdFacts
        <4> QED  BY <4>1
      <3>2. CASE r # p
        BY <1>3, <3>2
      <3> QED  BY <3>1, <3>2
    <2> QED  BY <1>3, <2>1 DEF Same
  <1>10. Fewer(t, v)
    <2>1. \A r \in Players : v.party[r] \in {t.party[r], 0}
      BY <1>5
    <2> QED  BY <1>4, <2>1 DEF Fewer
  <1>11. Players \in SUBSET Players
    OBVIOUS
  <1>12. u \in State /\ Kept(u, i, Players, standing) /\ Others(v, u, i) /\ Fewer(v, u)
    <2>1. u = Disband(v, i)
      BY DEF v
    <2> QED  BY <1>4, <1>7, <1>8, <1>11, <2>1, DisbandLemma
  <1>13. Others(t, u, i) /\ Fewer(t, u)
    BY <1>4, <1>9, <1>10, <1>12, OthersTransitive, FewerTransitive
  <1>14. \A j \in Ids : Kept(u, j, Players, standing)
    BY <1>11, <1>12, <1>13, OthersKept
  <1>15. u.party[p] = 0
    BY <1>5, <1>12 DEF Fewer
  <1> QED  BY <1>12, <1>13, <1>14, <1>15

LEMMA LeaveLemma ==
  ASSUME NEW t \in State, NEW i \in Ids, NEW p \in Players,
         \A j \in Ids : Kept(t, j, Players, standing), t.party[p] = i,
         NEW u, u = LeaveParty(t, i, p)
  PROVE  /\ u \in State /\ (\A j \in Ids : Kept(u, j, Players, standing))
         /\ Fewer(t, u) /\ u.party[p] = 0
  <1> DEFINE q == Head(t.memberList[i])
             y == PassLeadership(t, i, q)
  <1>1. /\ Known(t, i, Players) /\ t.leader[i] \in Players /\ p \in All(t, i)
        /\ Members(t, i) \subseteq Players
    BY LedFacts
  <1>2. CASE PassesOn(t, i, p)
    <2>1. q \in Members(t, i) /\ q \in Players
      BY <1>1, <1>2, MemberFacts DEF PassesOn
    <2>2. t.party[q] = i
      BY <1>1, <2>1 DEF Known, All
    <2> HIDE DEF q
    <2>3. /\ y \in State /\ (\A j \in Ids : Kept(y, j, Players, standing)) /\ Fewer(t, y)
          /\ y.party = t.party /\ Members(y, i) = (Members(t, i) \ {q}) \cup {t.leader[i]}
      BY <2>1, <2>2, PassLemma
    <2> HIDE DEF y
    <2>4. y.party[p] = i /\ p \in Members(y, i)
      BY <1>2, <2>3 DEF PassesOn
    <2>5. u = DisbandIfEmpty(Without(y, i, p), i)
      BY <1>2 DEF LeaveParty, DisbandIfEmpty, Without, y, q
    <2>6. /\ u \in State /\ (\A j \in Ids : Kept(u, j, Players, standing))
          /\ Fewer(y, u) /\ u.party[p] = 0
      BY <2>3, <2>4, <2>5, MemberLeaves
    <2> QED  BY <2>3, <2>6, FewerTransitive
  <1>3. CASE t.leader[i] = p /\ ~PassesOn(t, i, p)
    <2>1. u = Disband(Without(t, i, p), i)
      BY <1>3 DEF LeaveParty, Without
    <2> QED  BY <1>3, <2>1, LeaderLeaves
  <1>4. CASE t.leader[i] # p
    <2>1. p \in Members(t, i) /\ ~PassesOn(t, i, p)
      BY <1>1, <1>4 DEF All, PassesOn
    <2>2. u = DisbandIfEmpty(Without(t, i, p), i)
      BY <1>4, <2>1 DEF LeaveParty, DisbandIfEmpty, Without
    <2> QED  BY <2>1, <2>2, MemberLeaves
  <1> QED  BY <1>2, <1>3, <1>4

-----------------------------------------------------------------------------
(* A player who goes clears its invitations: the fold over its parties.     *)
\* Induction over the subsets of a finite set.
LEMMA SmallestSubset ==
  ASSUME NEW S, IsFiniteSet(S), NEW T \in SUBSET (SUBSET S), T # {}
  PROVE  \E r \in T : \A x \in r : r \ {x} \notin T
  <1>1. IsWellFoundedOn(StrictSubsetOrdering(S), SUBSET S)
    BY FS_StrictSubsetOrderingWellFounded, FS_FiniteSubsetsOfFinite
  <1>2. PICK r \in T : \A t \in T : <<t, r>> \notin StrictSubsetOrdering(S)
    BY <1>1, WFMin
  <1>3. ASSUME NEW x \in r PROVE r \ {x} \notin T
    <2>1. <<r \ {x}, r>> \in StrictSubsetOrdering(S)
      BY <1>3 DEF StrictSubsetOrdering
    <2> QED  BY <1>2, <2>1
  <1> QED  BY <1>3

\* What is left when the parties in S have forgotten p.
Forgot(t, u, S, p, Q, at) ==
    /\ u \in State /\ \A j \in Ids : Kept(u, j, Q, at)
    /\ Fewer(t, u) /\ \A i \in S : p \notin u.inviteList[i]

LEMMA ForgetOneMore ==
  ASSUME NEW t, NEW u, NEW S \in SUBSET Ids, NEW i \in Ids, NEW p \in Players,
         NEW Q \in SUBSET Players, NEW at, p \notin Q, Forgot(t, u, S, p, Q, at)
  PROVE  Forgot(t, Forget(u, i, p), S \cup {i}, p, Q, at)
  <1> DEFINE v == Forget(u, i, p)
  <1>1. /\ u \in State /\ \A j \in Ids : Kept(u, j, Q, at)
        /\ Fewer(t, u) /\ \A j \in S : p \notin u.inviteList[j]
    BY DEF Forgot
  <1>2. /\ v \in State /\ \A j \in Ids : Kept(v, j, Q, at)
        /\ Fewer(u, v) /\ p \notin v.inviteList[i]
    BY <1>1, ForgetLemma
  <1> HIDE DEF v
  <1>3. \A j \in S : p \notin v.inviteList[j]
    BY <1>1, <1>2 DEF Fewer
  <1>4. Fewer(t, v)
    BY <1>1, <1>2, FewerTransitive
  <1>5. Forgot(t, v, S \cup {i}, p, Q, at)
    BY <1>2, <1>3, <1>4 DEF Forgot
  <1> QED  BY <1>5 DEF v

Picked(S) == CHOOSE x \in S : TRUE

\* What the fold computes: its recursive function is the least relation that
\* is closed under its steps.
ForgetStep(g, t, S, p) == IF S = {} THEN t ELSE Forget(g[S \ {Picked(S)}], Picked(S), p)
Solves(g, t, S, p) == g = [r \in SUBSET S |-> ForgetStep(g, t, r, p)]

Closed(R, t, S, p) ==
    /\ <<{}, t>> \in R
    /\ \A r \in (SUBSET S) \ {{}} : \A v :
         <<r \ {Picked(r)}, v>> \in R => <<r, Forget(v, Picked(r), p)>> \in R

LEMMA SolutionExists ==
  ASSUME NEW t, NEW S, IsFiniteSet(S), NEW p, NEW U,
         Closed(U, t, S, p)
  PROVE  \E g : Solves(g, t, S, p)
  <1> DEFINE L == {r \in U : \A R \in SUBSET U : Closed(R, t, S, p) => r \in R}
             One(r) == \E v : <<r, v>> \in L /\ \A w : <<r, w>> \in L => w = v
             T == {r \in SUBSET S : ~One(r)}
  <1>1. Closed(L, t, S, p)
    BY DEF Closed
  <1>2. \A R \in SUBSET L : Closed(R, t, S, p) => R = L
    OBVIOUS
  <1>3. \A r \in SUBSET S : r # {} => Picked(r) \in r
    BY DEF Picked
  <1> HIDE DEF L
  <1>4. ASSUME NEW w, <<{}, w>> \in L PROVE w = t
    <2> SUFFICES ASSUME w # t PROVE FALSE
      OBVIOUS
    <2>1. Closed(L \ {<<{}, w>>}, t, S, p)
      BY <1>1 DEF Closed
    <2>2. L \ {<<{}, w>>} = L
      BY <1>2, <2>1
    <2> QED  BY <1>4, <2>2
  <1>5. One({})
    BY <1>1, <1>4 DEF Closed
  <1>6. ASSUME NEW r \in SUBSET S, r # {}, NEW v, <<r \ {Picked(r)}, v>> \in L,
               \A w : <<r \ {Picked(r)}, w>> \in L => w = v
        PROVE  /\ <<r, Forget(v, Picked(r), p)>> \in L
               /\ \A w : <<r, w>> \in L => w = Forget(v, Picked(r), p)
    <2>1. <<r, Forget(v, Picked(r), p)>> \in L
      BY <1>1, <1>6 DEF Closed
    <2>2. ASSUME NEW w, <<r, w>> \in L, w # Forget(v, Picked(r), p) PROVE FALSE
      <3> DEFINE R == L \ {<<r, w>>}
      <3>1. <<{}, t>> \in R
        BY <1>1, <1>6 DEF Closed
      <3>2. ASSUME NEW q \in (SUBSET S) \ {{}}, NEW x, <<q \ {Picked(q)}, x>> \in R
            PROVE  <<q, Forget(x, Picked(q), p)>> \in R
        <4>1. <<q, Forget(x, Picked(q), p)>> \in L
          BY <1>1, <3>2 DEF Closed
        <4>2. q = r => x = v
          BY <1>6, <3>2
        <4> QED  BY <2>2, <4>1, <4>2
      <3>3. Closed(R, t, S, p)
        BY <3>1, <3>2 DEF Closed
      <3>4. R = L
        BY <1>2, <3>3
      <3> QED  BY <2>2, <3>4
    <2> QED  BY <2>1, <2>2
  <1>7. T = {}
    <2> SUFFICES ASSUME T # {} PROVE FALSE
      OBVIOUS
    <2>1. PICK r \in T : \A x \in r : r \ {x} \notin T
      <3>1. T \in SUBSET (SUBSET S)
        OBVIOUS
      <3> HIDE DEF T
      <3> QED  BY <3>1, SmallestSubset
    <2>2. r \in SUBSET S /\ ~One(r)
      BY <2>1
    <2>3. r # {}
      BY <1>5, <2>2
    <2>4. Picked(r) \in r /\ r \ {Picked(r)} \in SUBSET S
      BY <1>3, <2>2, <2>3
    <2>5. One(r \ {Picked(r)})
      BY <2>1, <2>4
    <2>6. One(r)
      BY <1>6, <2>2, <2>3, <2>5
    <2> QED  BY <2>2, <2>6
  <1> DEFINE val(r) == CHOOSE v : <<r, v>> \in L
             g == [r \in SUBSET S |-> val(r)]
  <1>8. ASSUME NEW r \in SUBSET S PROVE <<r, g[r]>> \in L /\ \A w : <<r, w>> \in L => w = g[r]
    <2>1. One(r)
      BY <1>7
    <2> QED  BY <2>1
  <1>9. ASSUME NEW r \in SUBSET S PROVE g[r] = ForgetStep(g, t, r, p)
    <2> HIDE DEF g
    <2>1. CASE r = {}
      BY <1>4, <1>8, <2>1 DEF ForgetStep
    <2>2. CASE r # {}
      <3>1. r \ {Picked(r)} \in SUBSET S
        OBVIOUS
      <3>2. <<r, Forget(g[r \ {Picked(r)}], Picked(r), p)>> \in L
        BY <1>6, <1>8, <2>2, <3>1
      <3> QED  BY <1>8, <2>2, <3>2 DEF ForgetStep
    <2> QED  BY <2>1, <2>2
  <1>10. g = [r \in SUBSET S |-> ForgetStep(g, t, r, p)]
    <2>1. g = [r \in SUBSET S |-> g[r]]
      <3> HIDE DEF val
      <3> QED  BY DEF g
    <2> HIDE DEF g
    <2>2. [r \in SUBSET S |-> g[r]] = [r \in SUBSET S |-> ForgetStep(g, t, r, p)]
      BY <1>9
    <2> QED  BY <2>1, <2>2
  <1> HIDE DEF g
  <1> QED  BY <1>10 DEF Solves

LEMMA IdsFinite == IsFiniteSet(Ids)
  <1>1. MaxParties \in Int /\ 1 \in Int
    BY PartyAssumption
  <1> QED  BY <1>1, FS_Interval DEF Ids

LEMMA ForgetAll ==
  ASSUME NEW t \in State, NEW S \in SUBSET Ids, NEW p \in Players,
         NEW Q \in SUBSET Players, NEW at, p \notin Q, \A j \in Ids : Kept(t, j, Q, at),
         NEW u, u = FoldSet(LAMBDA i, v : Forget(v, i, p), t, S)
  PROVE  Forgot(t, u, S, p, Q, at)
  <1> DEFINE OK(r, v) == Forgot(t, v, r, p, Q, at)
             U == {x \in (SUBSET S) \X State : OK(x[1], x[2])}
             g == CHOOSE f : Solves(f, t, S, p)
  <1>1. IsFiniteSet(S)
    BY IdsFinite, FS_Subset
  <1>2. \A r \in SUBSET S : r # {} => Picked(r) \in r
    BY DEF Picked
  <1>3. OK({}, t)
    BY NothingChanges DEF Forgot
  <1>4. ASSUME NEW r \in SUBSET S, r # {}, NEW v, OK(r \ {Picked(r)}, v)
        PROVE  OK(r, Forget(v, Picked(r), p))
    <2> DEFINE i == Picked(r)
               q == r \ {i}
    <2>1. i \in Ids /\ q \in SUBSET Ids /\ r = q \cup {i}
      BY <1>2, <1>4
    <2>2. Forgot(t, v, q, p, Q, at)
      BY <1>4
    <2> HIDE DEF q, i
    <2>3. Forgot(t, Forget(v, i, p), q \cup {i}, p, Q, at)
      BY <2>1, <2>2, ForgetOneMore
    <2> QED  BY <2>1, <2>3 DEF i
  <1>5. Closed(U, t, S, p)
    <2>1. <<{}, t>> \in U
      BY <1>3
    <2>2. ASSUME NEW r \in (SUBSET S) \ {{}}, NEW v, <<r \ {Picked(r)}, v>> \in U
          PROVE  <<r, Forget(v, Picked(r), p)>> \in U
      <3>1. OK(r, Forget(v, Picked(r), p))
        <4>1. OK(r \ {Picked(r)}, v)
          BY <2>2
        <4> QED  BY <1>4, <4>1
      <3>2. Forget(v, Picked(r), p) \in State
        BY <3>1 DEF Forgot
      <3> QED  BY <3>1, <3>2
    <2> QED  BY <2>1, <2>2 DEF Closed
  <1>6. Solves(g, t, S, p)
    BY <1>1, <1>5, SolutionExists
  <1>7. u = g[S]
    BY DEF FoldSet, MapThenFoldSet, Solves, ForgetStep, Picked
  <1> HIDE DEF g, U
  <1>8. \A r \in SUBSET S : g[r] = ForgetStep(g, t, r, p)
    BY <1>6 DEF Solves
  <1>9. \A r \in SUBSET S : OK(r, g[r])
    <2> DEFINE T == {r \in SUBSET S : ~OK(r, g[r])}
    <2> HIDE DEF OK
    <2> SUFFICES ASSUME T # {} PROVE FALSE
      OBVIOUS
    <2>1. PICK r \in T : \A x \in r : r \ {x} \notin T
      <3>1. T \in SUBSET (SUBSET S)
        OBVIOUS
      <3> HIDE DEF T
      <3> QED  BY <1>1, <3>1, SmallestSubset
    <2>2. r \in SUBSET S /\ ~OK(r, g[r])
      BY <2>1
    <2>3. CASE r = {}
      BY <1>3, <1>8, <2>2, <2>3 DEF ForgetStep
    <2>4. CASE r # {}
      <3>1. Picked(r) \in r /\ r \ {Picked(r)} \in SUBSET S
        BY <1>2, <2>2, <2>4
      <3>2. OK(r \ {Picked(r)}, g[r \ {Picked(r)}])
        BY <2>1, <3>1
      <3>3. OK(r, Forget(g[r \ {Picked(r)}], Picked(r), p))
        BY <1>4, <2>2, <2>4, <3>2
      <3> QED  BY <1>8, <2>2, <2>4, <3>3 DEF ForgetStep
    <2> QED  BY <2>3, <2>4
  <1> QED  BY <1>7, <1>9

\* Nobody invites who has cleared the list, and that is what the list says.
LEMMA ClearLemma ==
  ASSUME NEW t \in State, NEW p \in Players, NEW at,
         \A j \in Ids : Kept(t, j, Players, at),
         NEW u, u = ClearPartyInvitations(t, p)
  PROVE  /\ u \in State /\ (\A j \in Ids : Kept(u, j, Players, at))
         /\ Fewer(t, u) /\ u.invitations[p] = {}
  <1> DEFINE S == t.invitations[p]
             Q == Players \ {p}
             v == FoldSet(LAMBDA i, w : Forget(w, i, p), t, S)
             e == [v.invitations EXCEPT ![p] = {}]
  <1>1. u = WithInvitations(v, e)
    BY DEF ClearPartyInvitations, WithInvitations, Forget
  <1>2. S \in SUBSET Ids
    BY Fields
  <1>3. \A j \in Ids : Kept(t, j, Q, at)
    BY DEF Kept, Good, Known, Bare
  <1>4. Forgot(t, v, S, p, Q, at)
    <2> HIDE DEF S
    <2> QED  BY <1>2, <1>3, ForgetAll
  <1> HIDE DEF v
  <1>5. /\ v \in State /\ \A j \in Ids : Kept(v, j, Q, at)
        /\ Fewer(t, v) /\ \A i \in S : p \notin v.inviteList[i]
    BY <1>4 DEF Forgot
  <1>6. /\ e \in [Players -> SUBSET Ids] /\ e[p] = {}
        /\ \A q \in Players \ {p} : e[q] = v.invitations[q]
    BY <1>5, Fields
  <1> HIDE DEF e
  <1>7. /\ u \in State /\ u.invitations = e
        /\ u.party = v.party /\ u.leader = v.leader /\ u.memberList = v.memberList
        /\ u.inviteList = v.inviteList /\ u.active = v.active /\ u.enabled = v.enabled
        /\ u.ticks = v.ticks
    BY <1>1, <1>5, <1>6, PutInvitations
  <1>8. \A i \in Ids : p \notin v.inviteList[i]
    <2> SUFFICES ASSUME NEW i \in Ids, i \notin S PROVE p \notin v.inviteList[i]
      BY <1>5
    <2>1. p \notin t.inviteList[i]
      BY DEF Kept, Good, Known, Bare
    <2> QED  BY <1>5, <2>1 DEF Fewer
  <1>9. ASSUME NEW j \in Ids PROVE Kept(u, j, Players, at)
    <2>1. Kept(v, j, Q, at)
      BY <1>5
    <2>2. /\ Members(u, j) = Members(v, j) /\ All(u, j) = All(v, j)
          /\ Empty(u, j) = Empty(v, j) /\ Led(u, j) = Led(v, j)
      BY <1>7 DEF Members, All, Empty, Led
    <2>3. \A q \in Players : j \in u.invitations[q] <=> (q # p /\ j \in v.invitations[q])
      BY <1>6, <1>7
    <2>6. Good(u, j, Players)
      <3>1. CASE Led(v, j)
        <4>1. Known(v, j, Q)
          BY <2>1, <3>1 DEF Kept, Good
        <4>2. \A q \in Players : j \in u.invitations[q] <=> q \in u.inviteList[j]
          BY <1>7, <1>8, <2>3, <4>1 DEF Known
        <4>3. Known(u, j, Players)
          BY <1>7, <2>2, <4>1, <4>2 DEF Known
        <4> QED  BY <2>2, <3>1, <4>3 DEF Good
      <3>2. CASE ~Led(v, j)
        <4>1. Bare(v, j, Q)
          BY <2>1, <3>2 DEF Kept, Good
        <4>2. Bare(u, j, Players)
          BY <1>7, <2>3, <4>1 DEF Bare
        <4> QED  BY <2>2, <3>2, <4>2 DEF Good
      <3> QED  BY <3>1, <3>2
    <2>7. Shared(u, j, at)
      <3>1. \A notes : Fit(u, j, at, notes) = Fit(v, j, at, notes)
        BY <1>7, SameFit
      <3> QED  BY <1>7, <2>1, <3>1 DEF Kept, Shared
    <2> QED  BY <2>1, <2>2, <2>6, <2>7 DEF Kept
  <1>10. Fewer(v, u)
    BY <1>6, <1>7 DEF Fewer
  <1>11. Fewer(t, u)
    BY <1>5, <1>10, FewerTransitive
  <1> QED  BY <1>6, <1>7, <1>9, <1>11

-----------------------------------------------------------------------------
(* The handlers, one lemma each.                                            *)
LEMMA InvFacts ==
  ASSUME PartyInv
  PROVE  /\ s \in State /\ (\A i \in Ids : Kept(s, i, Players, standing))
         /\ standing \in [Players -> Standings]
         /\ \A p \in Players : /\ s.party[p] \in 0 .. MaxParties
                               /\ s.party[p] # 0 => s.party[p] \in Ids
  <1>1. s \in State
    BY DEF PartyInv
  <1>2. \A p \in Players : s.party[p] \in 0 .. MaxParties
    BY <1>1, Fields
  <1>3. \A x \in 0 .. MaxParties : x # 0 => x \in Ids
    BY PartyAssumption DEF Ids
  <1> QED  BY <1>1, <1>2, <1>3 DEF PartyInv

\* A handler that only takes away.
LEMMA FewerInv ==
  ASSUME PartyInv, s' \in State, \A i \in Ids : Kept(s', i, Players, standing), Fewer(s, s'),
         UNCHANGED <<created, standing>>, online' \subseteq online,
         \A p \in online \ online' : Clear(s', p)
  PROVE  PartyInv'
  <1>1. \A i \in Ids : i > created' => s'.leader[i] = Nobody
    BY DEF PartyInv, Fewer
  <1>2. ASSUME NEW p \in Players \ online' PROVE Clear(s', p)
    <2>1. CASE p \in online
      BY <2>1
    <2>2. CASE p \notin online
      BY <2>2 DEF PartyInv, Fewer, Clear
    <2> QED  BY <2>1, <2>2
  <1>3. \A i \in Ids : Kept(s', i, Players, standing')
    OBVIOUS
  <1> QED  BY <1>1, <1>2, <1>3 DEF PartyInv

LEMMA SameClear ==
  ASSUME NEW p, s'.party[p] = s.party[p], s'.invitations[p] = s.invitations[p], Clear(s, p)
  PROVE  Clear(s', p)
  BY DEF Clear

\* The flag is computed again behind a change that only it depends on.
LEMMA ReconsiderLemma ==
  ASSUME PartyInv, NEW i \in Ids, Led(s, i), NEW v \in State,
         v.party = s.party, v.invitations = s.invitations, v.leader = s.leader,
         v.memberList = s.memberList, v.inviteList = s.inviteList,
         \A j \in Ids \ {i} : v.active[j] = s.active[j] /\ v.enabled[j] = s.enabled[j]
                              /\ v.ticks[j] = s.ticks[j],
         s' = UpdateSharedExperience(v, i, standing),
         UNCHANGED <<online, created, standing>>
  PROVE  PartyInv'
  <1>1. s \in State /\ \A j \in Ids : Kept(s, j, Players, standing)
    BY DEF PartyInv
  <1> DEFINE u == s'
  <1>2. /\ u \in State /\ Shared(u, i, standing) /\ Others(v, u, i)
        /\ u.party = v.party /\ u.invitations = v.invitations /\ u.leader = v.leader
        /\ u.memberList = v.memberList /\ u.inviteList = v.inviteList
    <2>1. u = UpdateSharedExperience(v, i, standing)
      OBVIOUS
    <2> HIDE DEF u
    <2> QED  BY <2>1, UpdateLemma
  <1>3. Others(s, v, i)
    BY DEF Others, Same
  <1>4. Others(s, u, i)
    BY <1>2, <1>3, OthersTransitive
  <1>5. Known(s, i, Players) /\ ~Empty(s, i)
    BY <1>1 DEF Kept, Good
  <1> HIDE DEF u
  <1>6. Led(u, i) /\ Known(u, i, Players) /\ ~Empty(u, i)
    BY <1>2, <1>5 DEF Led, Known, Empty, All, Members
  <1>7. Kept(u, i, Players, standing)
    BY <1>2, <1>6 DEF Kept, Good
  <1>8. \A j \in Ids : Kept(u, j, Players, standing)
    <2>1. Players \in SUBSET Players
      OBVIOUS
    <2> QED  BY <1>1, <1>2, <1>4, <1>7, <2>1, OthersKept
  <1>9. Fewer(s, u)
    BY <1>2 DEF Fewer
  <1> QED  BY <1>2, <1>8, <1>9, FewerInv DEF u

LEMMA TickStep ==
  ASSUME PartyInv, NEW p \in Players, NEW i \in Ids, s.party[p] = i,
         NEW x \in {"none", "recent", "old"},
         s' = UpdateSharedExperience([s EXCEPT !.ticks[i][p] = x], i, standing),
         UNCHANGED <<online, created, standing>>
  PROVE  PartyInv'
  <1> DEFINE e == [s.ticks[i] EXCEPT ![p] = x]
             v == WithTicks(s, i, e)
  <1>1. s \in State /\ Kept(s, i, Players, standing)
    BY DEF PartyInv
  <1>2. Led(s, i)
    BY <1>1, LedFacts
  <1>3. e \in [Players -> {"none", "recent", "old"}]
    BY <1>1, Fields
  <1>4. s' = UpdateSharedExperience(v, i, standing)
    BY DEF WithTicks
  <1> HIDE DEF e
  <1>5. /\ v \in State /\ At(v.ticks, s.ticks, i, e)
        /\ v.party = s.party /\ v.invitations = s.invitations /\ v.leader = s.leader
        /\ v.memberList = s.memberList /\ v.inviteList = s.inviteList /\ v.active = s.active
        /\ v.enabled = s.enabled
    <2>1. v = WithTicks(s, i, e)
      OBVIOUS
    <2> HIDE DEF v
    <2> QED  BY <1>1, <1>3, <2>1, PutTicks
  <1> HIDE DEF v
  <1>6. \A j \in Ids \ {i} : v.active[j] = s.active[j] /\ v.enabled[j] = s.enabled[j]
                             /\ v.ticks[j] = s.ticks[j]
    BY <1>5 DEF At
  <1> QED  BY <1>2, <1>4, <1>5, <1>6, ReconsiderLemma

LEMMA EnableStep ==
  ASSUME PartyInv, NEW p \in Players, NEW active \in BOOLEAN,
         PlayerEnableSharedPartyExperience(p, active)
  PROVE  PartyInv'
  <1> DEFINE i == s.party[p]
             v == WithActive(s, i, active)
  <1>1. s \in State /\ i \in Ids /\ s.leader[i] = p
    BY PartyAssumption DEF PartyInv, PlayerEnableSharedPartyExperience, Ids
  <1>2. Led(s, i)
    BY <1>1, PartyAssumption DEF Led
  <1>3. /\ s' = UpdateSharedExperience(v, i, standing)
        /\ UNCHANGED <<online, created, standing>>
    BY DEF PlayerEnableSharedPartyExperience, WithActive
  <1> HIDE DEF i
  <1>4. /\ v \in State /\ At(v.active, s.active, i, active)
        /\ v.party = s.party /\ v.invitations = s.invitations /\ v.leader = s.leader
        /\ v.memberList = s.memberList /\ v.inviteList = s.inviteList /\ v.ticks = s.ticks
        /\ v.enabled = s.enabled
    <2>1. v = WithActive(s, i, active)
      OBVIOUS
    <2> HIDE DEF v
    <2> QED  BY <1>1, <2>1, PutActive
  <1> HIDE DEF v
  <1>5. \A j \in Ids \ {i} : v.active[j] = s.active[j] /\ v.enabled[j] = s.enabled[j]
                             /\ v.ticks[j] = s.ticks[j]
    BY <1>4 DEF At
  <1> QED  BY <1>1, <1>2, <1>3, <1>4, <1>5, ReconsiderLemma

LEMMA HealStep ==
  ASSUME PartyInv, NEW p \in Players, NEW q \in Players, Heal(p, q)
  PROVE  PartyInv'
  <1> DEFINE i == s.party[p]
             x == "recent"
  <1>1. i \in Ids
    BY PartyAssumption DEF Heal, Ids
  <1>2. /\ s' = UpdateSharedExperience([s EXCEPT !.ticks[i][p] = x], i, standing)
        /\ UNCHANGED <<online, created, standing>> /\ x \in {"none", "recent", "old"}
    BY DEF Heal
  <1>3. s.party[p] = i
    OBVIOUS
  <1> HIDE DEF i, x
  <1> QED  BY <1>1, <1>2, <1>3, TickStep

LEMMA IdleStep ==
  ASSUME PartyInv, NEW p \in Players, Idle(p)
  PROVE  PartyInv'
  <1> DEFINE i == s.party[p]
             x == "none"
  <1>1. i \in Ids
    BY InvFacts DEF Idle
  <1>2. /\ s' = UpdateSharedExperience([s EXCEPT !.ticks[i][p] = x], i, standing)
        /\ UNCHANGED <<online, created, standing>> /\ x \in {"none", "recent", "old"}
    BY DEF Idle
  <1>3. s.party[p] = i
    OBVIOUS
  <1> HIDE DEF i, x
  <1> QED  BY <1>1, <1>2, <1>3, TickStep

LEMMA SameGood ==
  ASSUME NEW t, NEW u, NEW i, Good(t, i, Players),
         u.party = t.party, u.invitations = t.invitations, u.leader = t.leader,
         u.memberList = t.memberList, u.inviteList = t.inviteList, u.active = t.active
  PROVE  Good(u, i, Players) /\ (Led(u, i) <=> Led(t, i)) /\ (Empty(u, i) <=> Empty(t, i))
         /\ All(u, i) = All(t, i)
  <1>1. /\ Led(u, i) <=> Led(t, i)
        /\ Empty(u, i) <=> Empty(t, i)
        /\ Members(u, i) = Members(t, i) /\ All(u, i) = All(t, i)
    BY DEF Led, Empty, Members, All
  <1>2. CASE Led(t, i)
    <2>1. Known(t, i, Players)
      BY <1>2 DEF Good
    <2>2. Known(u, i, Players)
      BY <1>1, <2>1 DEF Known
    <2> QED  BY <1>1, <1>2, <2>2 DEF Good
  <1>3. CASE ~Led(t, i)
    <2>1. Bare(t, i, Players)
      BY <1>3 DEF Good
    <2>2. Bare(u, i, Players)
      BY <2>1 DEF Bare
    <2> QED  BY <1>1, <1>3, <2>2 DEF Good
  <1> QED  BY <1>2, <1>3

\* Notes of a party grow old.
LEMMA GrowOldStep ==
  ASSUME PartyInv, NEW p \in Players, NEW i \in Ids, GrowOld(i, p)
  PROVE  PartyInv'
  <1> DEFINE x == "old"
             e == [s.ticks[i] EXCEPT ![p] = x]
             u == s'
  <1>1. s \in State /\ \A j \in Ids : Kept(s, j, Players, standing)
    BY DEF PartyInv
  <1>2. /\ u = WithTicks(s, i, e) /\ UNCHANGED <<online, created, standing>>
        /\ s.ticks[i][p] = "recent"
    BY DEF GrowOld, WithTicks
  <1>3. /\ e \in [Players -> {"none", "recent", "old"}]
        /\ e[p] = "old" /\ \A q \in Players \ {p} : e[q] = s.ticks[i][q]
    BY <1>1, Fields
  <1> HIDE DEF e, u, x
  <1>4. /\ u \in State /\ At(u.ticks, s.ticks, i, e)
        /\ u.party = s.party /\ u.invitations = s.invitations /\ u.leader = s.leader
        /\ u.memberList = s.memberList /\ u.inviteList = s.inviteList /\ u.active = s.active
        /\ u.enabled = s.enabled
    BY <1>1, <1>2, <1>3, PutTicks
  <1>5. u.ticks[i] = e /\ \A j \in Ids \ {i} : u.ticks[j] = s.ticks[j]
    BY <1>4 DEF At
  <1>6. ASSUME NEW j \in Ids PROVE Shared(u, j, standing)
    <2>1. Shared(s, j, standing)
      BY <1>1 DEF Kept
    <2>2. CASE j # i
      <3>1. \A notes : Fit(u, j, standing, notes) = Fit(s, j, standing, notes)
        BY <1>4, <1>5, <2>2, SameFit
      <3> QED  BY <1>4, <2>1, <3>1 DEF Shared
    <2>3. CASE j = i
      <3>1. CASE ~Led(s, i)
        <4>1. ~u.active[i]
          BY <1>1, <1>4, <3>1 DEF Kept, Good, Bare
        <4> QED  BY <2>3, <4>1 DEF Shared
      <3>2. CASE Led(s, i)
        <4>1. All(s, i) \subseteq Players
          <5>1. s.leader[i] \in Players
            BY <1>1, <3>2, Fields DEF Led
          <5> QED  BY <1>1, <5>1, MemberFacts DEF All
        <4>2. All(u, i) = All(s, i)
          BY <1>4 DEF All, Members
        <4>3. Fit(s, i, standing, {"recent", "old"}) => Fit(u, i, standing, {"recent", "old"})
          <5>1. \A q \in All(s, i) : s.ticks[i][q] \in {"recent", "old"} => u.ticks[i][q] \in {"recent", "old"}
            BY <1>3, <1>5, <4>1
          <5> QED  BY <1>4, <4>2, <5>1 DEF Fit
        <4>4. Fit(u, i, standing, {"recent"}) => Fit(s, i, standing, {"recent"})
          <5>1. \A q \in All(s, i) : u.ticks[i][q] \in {"recent"} => s.ticks[i][q] \in {"recent"}
            BY <1>2, <1>3, <1>5, <4>1
          <5> QED  BY <1>4, <4>2, <5>1 DEF Fit
        <4> QED  BY <1>4, <2>1, <2>3, <4>3, <4>4 DEF Shared
      <3> QED  BY <3>1, <3>2
    <2> QED  BY <2>2, <2>3
  <1>7. \A j \in Ids : Kept(u, j, Players, standing)
    <2> SUFFICES ASSUME NEW j \in Ids PROVE Kept(u, j, Players, standing)
      OBVIOUS
    <2>1. Good(s, j, Players) /\ (Led(s, j) => ~Empty(s, j))
      BY <1>1 DEF Kept
    <2>2. Good(u, j, Players) /\ (Led(u, j) <=> Led(s, j)) /\ (Empty(u, j) <=> Empty(s, j))
      BY <1>4, <2>1, SameGood
    <2> QED  BY <1>6, <2>1, <2>2 DEF Kept
  <1>8. Fewer(s, u)
    BY <1>4 DEF Fewer
  <1> QED  BY <1>2, <1>4, <1>7, <1>8, FewerInv DEF u

\* Where a player stands counts for its own party only.
LEMMA ElsewhereLemma ==
  ASSUME PartyInv, NEW p \in Players, NEW at, \A q \in Players \ {p} : at[q] = standing[q],
         NEW j \in Ids, s.party[p] # j
  PROVE  Kept(s, j, Players, at)
  <1>1. s \in State /\ Kept(s, j, Players, standing)
    BY DEF PartyInv
  <1>2. CASE ~Led(s, j)
    BY <1>1, <1>2 DEF Kept, Good, Bare, Shared
  <1>3. CASE Led(s, j)
    <2>1. s.leader[j] \in Players /\ Known(s, j, Players)
      BY <1>1, <1>3, Fields DEF Led, Kept, Good
    <2>2. All(s, j) \subseteq Players \ {p} /\ s.leader[j] \in All(s, j)
      <3>1. All(s, j) \subseteq Players
        BY <1>1, <2>1, MemberFacts DEF All
      <3> QED  BY <2>1, <3>1 DEF Known, All
    <2>3. \A q \in All(s, j) : at[q] = standing[q]
      BY <2>2
    <2>4. \A notes : Fit(s, j, at, notes) = Fit(s, j, standing, notes)
      BY <2>2, <2>3 DEF Fit
    <2> QED  BY <1>1, <2>4 DEF Kept, Shared
  <1> QED  BY <1>2, <1>3

LEMMA ChangeStep ==
  ASSUME PartyInv, NEW p \in Players, NEW x \in Standings, Change(p, x)
  PROVE  PartyInv'
  <1>1. s \in State /\ standing \in [Players -> Standings]
        /\ \A j \in Ids : Kept(s, j, Players, standing)
    BY DEF PartyInv
  <1>2. standing' \in [Players -> Standings] /\ \A q \in Players \ {p} : standing'[q] = standing[q]
    BY <1>1 DEF Change
  <1>3. UNCHANGED <<online, created>>
    BY DEF Change
  <1>4. \A j \in Ids : s.party[p] # j => Kept(s, j, Players, standing')
    BY <1>2, ElsewhereLemma
  <1>5. s' \in State /\ (\A j \in Ids : Kept(s', j, Players, standing')) /\ Fewer(s, s')
    <2>1. CASE s.party[p] = 0
      <3>1. s' = s
        BY <2>1 DEF Change
      <3>2. \A j \in Ids : s.party[p] # j
        BY <2>1, IdFacts
      <3> QED  BY <1>1, <1>4, <3>1, <3>2, NothingChanges
    <2>2. CASE s.party[p] # 0
      <3> DEFINE i == s.party[p]
                 u == s'
                 at == standing'
      <3>1. u = UpdateSharedExperience(s, i, at)
        BY <2>2 DEF Change
      <3>2. i \in Ids
        BY <2>2, InvFacts
      <3>3. \A j \in Ids \ {i} : Kept(s, j, Players, at)
        BY <1>4
      <3>4. Led(s, i) /\ Known(s, i, Players) /\ ~Empty(s, i) /\ Good(s, i, Players)
        BY <1>1, <3>2, LedFacts DEF Good
      <3> HIDE DEF i, u, at
      <3>5. /\ u \in State /\ Shared(u, i, at) /\ Others(s, u, i)
            /\ u.party = s.party /\ u.invitations = s.invitations /\ u.leader = s.leader
            /\ u.memberList = s.memberList /\ u.inviteList = s.inviteList /\ u.active = s.active
        BY <1>1, <3>1, <3>2, UpdateLemma
      <3>6. Good(u, i, Players) /\ ~Empty(u, i)
        BY <3>4, <3>5, SameGood
      <3>7. Kept(u, i, Players, at)
        BY <3>5, <3>6 DEF Kept
      <3>8. \A j \in Ids \ {i} : Kept(u, j, Players, at)
        <4> SUFFICES ASSUME NEW j \in Ids \ {i} PROVE Kept(u, j, Players, at)
          OBVIOUS
        <4>1. Same(s, u, j) /\ Kept(s, j, Players, at) /\ Players \in SUBSET Players
          BY <3>3, <3>5 DEF Others
        <4> QED  BY <1>1, <3>5, <4>1, SameKept
      <3>9. Fewer(s, u)
        BY <3>5 DEF Fewer
      <3> QED  BY <3>5, <3>7, <3>8, <3>9 DEF u, at
    <2> QED  BY <2>1, <2>2
  <1>6. \A j \in Ids : j > created' => s'.leader[j] = Nobody
    BY <1>3, <1>5 DEF PartyInv, Fewer
  <1>7. \A q \in Players \ online' : Clear(s', q)
    BY <1>3, <1>5 DEF PartyInv, Fewer, Clear
  <1> QED  BY <1>2, <1>3, <1>5, <1>6, <1>7 DEF PartyInv

LEMMA LoginStep ==
  ASSUME PartyInv, NEW p \in Players, Login(p)
  PROVE  PartyInv'
  BY DEF PartyInv, Login

LEMMA RevokeStep ==
  ASSUME PartyInv, NEW p \in Players, NEW q \in Players, PlayerRevokePartyInvitation(p, q)
  PROVE  PartyInv'
  <1>1. s.party[p] \in Ids
    BY InvFacts DEF PlayerRevokePartyInvitation, IsInviting
  <1>2. s' = RemoveInvite(s, s.party[p], q, TRUE) /\ UNCHANGED <<online, created, standing>>
    BY DEF PlayerRevokePartyInvitation
  <1>3. s' \in State /\ (\A j \in Ids : Kept(s', j, Players, standing)) /\ Fewer(s, s')
    BY <1>1, <1>2, InvFacts, RevokeLemma
  <1> QED  BY <1>2, <1>3, FewerInv

LEMMA PassStep ==
  ASSUME PartyInv, NEW p \in Players, NEW q \in Players, PlayerPassPartyLeadership(p, q)
  PROVE  PartyInv'
  <1> DEFINE i == s.party[p]
  <1>1. i \in Ids
    BY InvFacts DEF PlayerPassPartyLeadership
  <1>2. /\ s' = PassLeadership(s, i, q) /\ UNCHANGED <<online, created, standing>>
        /\ s.party[q] = i /\ s.leader[i] = p /\ p # q
    BY DEF PlayerPassPartyLeadership
  <1> HIDE DEF i
  <1>3. q \in Members(s, i)
    <2>1. q \in All(s, i)
      BY <1>1, <1>2, InvFacts, LedFacts
    <2> QED  BY <1>2, <2>1 DEF All
  <1>4. s' \in State /\ (\A j \in Ids : Kept(s', j, Players, standing)) /\ Fewer(s, s')
    BY <1>1, <1>2, <1>3, InvFacts, PassLemma
  <1> QED  BY <1>2, <1>4, FewerInv

LEMMA LeaveStep ==
  ASSUME PartyInv, NEW p \in Players, PlayerLeaveParty(p)
  PROVE  PartyInv'
  <1> DEFINE i == s.party[p]
  <1>1. i \in Ids
    BY InvFacts DEF PlayerLeaveParty
  <1>2. s' = LeaveParty(s, i, p) /\ UNCHANGED <<online, created, standing>>
    BY DEF PlayerLeaveParty
  <1>3. s.party[p] = i
    OBVIOUS
  <1> HIDE DEF i
  <1>4. s' \in State /\ (\A j \in Ids : Kept(s', j, Players, standing)) /\ Fewer(s, s')
    BY <1>1, <1>2, <1>3, InvFacts, LeaveLemma
  <1> QED  BY <1>2, <1>4, FewerInv

\* The notes about a player who is in no party count for none.
LEMMA NotesLemma ==
  ASSUME NEW t \in State, NEW p \in Players, NEW at, t.party[p] = 0,
         \A j \in Ids : Kept(t, j, Players, at),
         NEW u, u = [t EXCEPT !.ticks = [i \in Ids |-> [@[i] EXCEPT ![p] = "none"]]]
  PROVE  u \in State /\ (\A j \in Ids : Kept(u, j, Players, at)) /\ Fewer(t, u)
  <1> DEFINE e == [i \in Ids |-> [t.ticks[i] EXCEPT ![p] = "none"]]
  <1>1. u = [t EXCEPT !.ticks = e]
    OBVIOUS
  <1>2. /\ e \in [Ids -> [Players -> {"none", "recent", "old"}]]
        /\ \A i \in Ids : \A q \in Players \ {p} : e[i][q] = t.ticks[i][q]
    <2>1. \A i \in Ids : t.ticks[i] \in [Players -> {"none", "recent", "old"}]
      BY Fields
    <2>2. ASSUME NEW i \in Ids
          PROVE  /\ e[i] \in [Players -> {"none", "recent", "old"}]
                 /\ \A q \in Players \ {p} : e[i][q] = t.ticks[i][q]
      BY <2>1
    <2> QED  BY <2>2
  <1> HIDE DEF e
  <1>3. /\ u \in State /\ u.ticks = e
        /\ u.party = t.party /\ u.invitations = t.invitations /\ u.leader = t.leader
        /\ u.memberList = t.memberList /\ u.inviteList = t.inviteList /\ u.active = t.active
        /\ u.enabled = t.enabled
    BY <1>1, <1>2 DEF State
  <1>4. ASSUME NEW j \in Ids PROVE Kept(u, j, Players, at)
    <2>1. Good(t, j, Players) /\ (Led(t, j) => ~Empty(t, j)) /\ Shared(t, j, at)
      BY DEF Kept
    <2>2. /\ Good(u, j, Players) /\ (Led(u, j) <=> Led(t, j)) /\ (Empty(u, j) <=> Empty(t, j))
          /\ All(u, j) = All(t, j)
      BY <1>3, <2>1, SameGood
    <2>3. Shared(u, j, at)
      <3>1. CASE ~Led(t, j)
        BY <1>3, <2>1, <3>1 DEF Good, Bare, Shared
      <3>2. CASE Led(t, j)
        <4>1. Known(t, j, Players) /\ t.leader[j] \in Players
          BY <2>1, <3>2, Fields DEF Good, Led
        <4>2. All(t, j) \subseteq Players \ {p}
          <5>1. All(t, j) \subseteq Players
            BY <4>1, MemberFacts DEF All
          <5>2. t.party[p] # j
            BY IdFacts
          <5> QED  BY <4>1, <5>1, <5>2 DEF Known
        <4>3. \A q \in All(t, j) : u.ticks[j][q] = t.ticks[j][q]
          BY <1>2, <1>3, <4>2
        <4>4. \A notes : Fit(u, j, at, notes) = Fit(t, j, at, notes)
          BY <1>3, <2>2, <4>3 DEF Fit
        <4> QED  BY <1>3, <2>1, <4>4 DEF Shared
      <3> QED  BY <3>1, <3>2
    <2> QED  BY <2>1, <2>2, <2>3 DEF Kept
  <1>5. Fewer(t, u)
    BY <1>3 DEF Fewer
  <1> QED  BY <1>3, <1>4, <1>5

LEMMA LogoutStep ==
  ASSUME PartyInv, NEW p \in Players, Logout(p)
  PROVE  PartyInv'
  <1> DEFINE t == ClearPartyInvitations(s, p)
             i == t.party[p]
             u == IF i # 0 THEN LeaveParty(t, i, p) ELSE t
  <1>1. /\ s' = [u EXCEPT !.ticks = [j \in Ids |-> [@[j] EXCEPT ![p] = "none"]]]
        /\ online' = online \ {p} /\ p \in online /\ UNCHANGED <<created, standing>>
    BY DEF Logout
  <1>2. /\ t \in State /\ (\A j \in Ids : Kept(t, j, Players, standing))
        /\ Fewer(s, t) /\ t.invitations[p] = {}
    BY InvFacts, ClearLemma
  <1> HIDE DEF t
  <1>3. /\ u \in State /\ (\A j \in Ids : Kept(u, j, Players, standing))
        /\ Fewer(t, u) /\ u.party[p] = 0
    <2>1. CASE i # 0
      <3>1. i \in Ids
        <4>1. i \in 0 .. MaxParties
          BY <1>2, Fields
        <4> QED  BY <2>1, <4>1, PartyAssumption DEF Ids
      <3>2. u = LeaveParty(t, i, p) /\ t.party[p] = i
        BY <2>1
      <3> HIDE DEF i, u
      <3> QED  BY <1>2, <3>1, <3>2, LeaveLemma
    <2>2. CASE i = 0
      BY <1>2, <2>2, NothingChanges
    <2> QED  BY <2>1, <2>2
  <1> HIDE DEF u
  <1>4. s' \in State /\ (\A j \in Ids : Kept(s', j, Players, standing)) /\ Fewer(u, s')
    <2> DEFINE w == s'
    <2>1. w = [u EXCEPT !.ticks = [j \in Ids |-> [@[j] EXCEPT ![p] = "none"]]]
      BY <1>1
    <2> HIDE DEF w
    <2>2. w \in State /\ (\A j \in Ids : Kept(w, j, Players, standing)) /\ Fewer(u, w)
      BY <1>3, <2>1, NotesLemma
    <2> QED  BY <2>2 DEF w
  <1>5. Fewer(s, u)
    BY <1>2, <1>3, FewerTransitive
  <1>6. Fewer(s, s')
    BY <1>4, <1>5, FewerTransitive
  <1>7. Clear(s', p)
    <2>1. s'.party[p] = 0
      BY <1>3, <1>4 DEF Fewer
    <2>2. s'.invitations[p] = {}
      BY <1>2, <1>3, <1>4 DEF Fewer
    <2> QED  BY <2>1, <2>2 DEF Clear
  <1>8. online' \subseteq online /\ \A q \in online \ online' : Clear(s', q)
    BY <1>1, <1>7
  <1> QED  BY <1>1, <1>4, <1>6, <1>8, FewerInv

\* A handler that adds: to one party, and to players who are in the game.
LEMMA MoreInv ==
  ASSUME PartyInv, s' \in State, NEW i \in Ids, i <= created', Kept(s', i, Players, standing),
         Others(s, s', i), created <= created', created' \in 0 .. MaxParties,
         \A q \in Players \ online : Clear(s', q),
         UNCHANGED <<online, standing>>
  PROVE  PartyInv'
  <1>1. \A j \in Ids : Kept(s', j, Players, standing)
    <2>1. Players \in SUBSET Players /\ s \in State /\ \A j \in Ids : Kept(s, j, Players, standing)
      BY DEF PartyInv
    <2> DEFINE u == s'
    <2>2. u \in State /\ Others(s, u, i) /\ Kept(u, i, Players, standing)
      OBVIOUS
    <2> HIDE DEF u
    <2>3. \A j \in Ids : Kept(u, j, Players, standing)
      BY <2>1, <2>2, OthersKept
    <2> QED  BY <2>3 DEF u
  <1>2. ASSUME NEW j \in Ids, j > created' PROVE s'.leader[j] = Nobody
    <2>1. created \in Nat /\ created' \in Nat /\ j \in Nat /\ i \in Nat
      BY IdFacts, PartyAssumption DEF PartyInv
    <2>2. j # i /\ j > created
      BY <1>2, <2>1
    <2>3. s.leader[j] = Nobody
      BY <2>2 DEF PartyInv
    <2> QED  BY <2>2, <2>3 DEF Others, Same
  <1> QED  BY <1>1, <1>2 DEF PartyInv

LEMMA LedIsCreated ==
  ASSUME PartyInv, NEW i \in Ids, s.leader[i] # Nobody
  PROVE  i <= created
  <1>1. created \in Nat /\ i \in Nat
    BY IdFacts, PartyAssumption DEF PartyInv
  <1> QED  BY <1>1 DEF PartyInv

LEMMA JoinStep ==
  ASSUME PartyInv, NEW p \in Players, NEW q \in Players, PlayerJoinParty(p, q)
  PROVE  PartyInv'
  <1> DEFINE i == s.party[q]
             l == s.memberList[i]
             x == Append(l, p)
             e == [s.invitations EXCEPT ![p] = @ \ {i}]
             v == SetParty(s, {p}, i)
             a == WithInvites(v, i, s.inviteList[i] \ {p})
             b == WithMembers(a, i, x)
             w == WithInvitations(b, e)
             u == s'
  <1>1. /\ i \in Ids /\ s \in State /\ \A j \in Ids : Kept(s, j, Players, standing)
        /\ s.leader[i] = q /\ p \in s.inviteList[i] /\ s.party[p] = 0 /\ i # 0
        /\ {p, q} \subseteq online /\ UNCHANGED <<online, created, standing>>
    BY InvFacts DEF PlayerJoinParty, IsInviting, MayJoin
  <1>2. /\ Led(s, i) /\ Known(s, i, Players) /\ l \in Seq(Players) /\ IsInjective(l)
        /\ s.leader[i] \in Players /\ q \notin Members(s, i) /\ Members(s, i) \subseteq Players
    BY <1>1, LedFacts
  <1>3. u = UpdateSharedExperience(w, i, standing)
    <2>1. /\ v.inviteList = s.inviteList /\ v.memberList = s.memberList
          /\ v.invitations = s.invitations
      <3>1. i \in 0 .. MaxParties
        BY <1>1, IdFacts
      <3> HIDE DEF i
      <3>2. v = SetParty(s, {p}, i)
        OBVIOUS
      <3> HIDE DEF v
      <3> QED  BY <1>1, <3>1, <3>2, SetPartyLemma
    <2>2. u = UpdateSharedExperience(
                 [v EXCEPT !.inviteList[i] = @ \ {p}, !.memberList[i] = Append(@, p),
                           !.invitations[p] = @ \ {i}], i, standing)
      BY DEF PlayerJoinParty
    <2> HIDE DEF v, i
    <2>3. [v EXCEPT !.inviteList[i] = @ \ {p}, !.memberList[i] = Append(@, p),
                    !.invitations[p] = @ \ {i}] = w
      BY <2>1 DEF WithInvites, WithMembers, WithInvitations
    <2> QED  BY <2>2, <2>3
  <1> HIDE DEF i
  <1>4. p \notin All(s, i) /\ p \notin ToSet(l) /\ p # q
    <2>1. p \notin All(s, i)
      BY <1>1, <1>2 DEF Known
    <2> QED  BY <1>1, <2>1 DEF All, Members
  <1>5. /\ x \in Seq(Players) /\ IsInjective(x) /\ x # <<>>
        /\ ToSet(x) = Members(s, i) \cup {p}
    <2> HIDE DEF l
    <2>1. p \in Players \ ToSet(l) /\ ToSet(l) = Members(s, i)
      BY <1>4 DEF Members, l
    <2> QED  BY <1>2, <2>1, BackLemma
  <1>6. /\ e \in [Players -> SUBSET Ids] /\ e[p] = s.invitations[p] \ {i}
        /\ \A r \in Players \ {p} : e[r] = s.invitations[r]
    BY <1>1, Fields
  <1> HIDE DEF x, e
  <1>7. /\ v \in State
        /\ \A r \in Players : /\ r \in {p} => v.party[r] = i
                              /\ r \notin {p} => v.party[r] = s.party[r]
        /\ v.invitations = s.invitations /\ v.leader = s.leader
        /\ v.memberList = s.memberList /\ v.inviteList = s.inviteList /\ v.active = s.active
        /\ v.enabled = s.enabled /\ v.ticks = s.ticks
    <2>1. i \in 0 .. MaxParties /\ v = SetParty(s, {p}, i)
      BY <1>1, IdFacts
    <2> HIDE DEF v
    <2> QED  BY <1>1, <2>1, SetPartyLemma
  <1> HIDE DEF v
  <1>8. /\ a \in State /\ At(a.inviteList, s.inviteList, i, s.inviteList[i] \ {p})
        /\ a.party = v.party /\ a.invitations = s.invitations /\ a.leader = s.leader
        /\ a.memberList = s.memberList /\ a.active = s.active
        /\ a.enabled = s.enabled /\ a.ticks = s.ticks
    <2>1. s.inviteList[i] \ {p} \in SUBSET Players /\ a = WithInvites(v, i, s.inviteList[i] \ {p})
      BY <1>1, Fields
    <2> HIDE DEF a
    <2> QED  BY <1>1, <1>7, <2>1, PutInvites
  <1> HIDE DEF a
  <1>9. /\ b \in State /\ At(b.memberList, s.memberList, i, x) /\ b.inviteList = a.inviteList
        /\ b.party = v.party /\ b.invitations = s.invitations /\ b.leader = s.leader
        /\ b.active = s.active /\ b.enabled = s.enabled /\ b.ticks = s.ticks
    BY <1>1, <1>5, <1>8, PutMembers
  <1> HIDE DEF b
  <1>10. /\ w \in State /\ w.memberList = b.memberList /\ w.inviteList = a.inviteList
         /\ w.party = v.party /\ w.invitations = e /\ w.leader = s.leader
         /\ w.active = s.active /\ w.enabled = s.enabled /\ w.ticks = s.ticks
    BY <1>6, <1>9, PutInvitations
  <1> HIDE DEF w, u
  <1>11. /\ u \in State /\ Shared(u, i, standing) /\ Others(w, u, i)
         /\ u.memberList = b.memberList /\ u.inviteList = a.inviteList
         /\ u.party = v.party /\ u.invitations = e /\ u.leader = s.leader
    BY <1>1, <1>3, <1>10, UpdateLemma
  <1>12. /\ u.memberList[i] = x /\ u.inviteList[i] = s.inviteList[i] \ {p}
         /\ \A j \in Ids \ {i} : /\ w.memberList[j] = s.memberList[j]
                                 /\ w.inviteList[j] = s.inviteList[j]
    BY <1>8, <1>9, <1>10, <1>11 DEF At
  <1>13. u.party[p] = i /\ \A r \in Players \ {p} : u.party[r] = s.party[r]
    BY <1>7, <1>11
  <1>14. /\ Members(u, i) = Members(s, i) \cup {p} /\ All(u, i) = All(s, i) \cup {p}
    BY <1>5, <1>11, <1>12 DEF Members, All
  <1>15. Led(u, i) /\ ~Empty(u, i)
    BY <1>1, <1>2, <1>4, <1>5, <1>11, <1>12, <1>13 DEF Led, Empty
  <1>16. Known(u, i, Players)
    <2>1. \A r \in Players : u.party[r] = i <=> r \in All(u, i)
      BY <1>2, <1>13, <1>14 DEF Known
    <2>2. \A r \in Players : i \in u.invitations[r] <=> r \in u.inviteList[i]
      BY <1>2, <1>6, <1>11, <1>12 DEF Known
    <2>3. u.leader[i] \notin Members(u, i)
      BY <1>1, <1>2, <1>4, <1>11, <1>14
    <2> QED  BY <1>5, <1>12, <2>1, <2>2, <2>3 DEF Known
  <1>17. Others(s, w, i)
    <2> SUFFICES ASSUME NEW j \in Ids \ {i} PROVE Same(s, w, j)
      BY DEF Others
    <2>1. ASSUME NEW r \in Players PROVE w.party[r] = j <=> s.party[r] = j
      <3>1. CASE r = p
        <4>1. w.party[r] = i /\ s.party[r] = 0 /\ j # 0 /\ j # i
          BY <1>1, <1>7, <1>10, <3>1, IdFacts
        <4> QED  BY <4>1
      <3>2. CASE r # p
        BY <1>7, <1>10, <3>2
      <3> QED  BY <3>1, <3>2
    <2>2. \A r \in Players : j \in w.invitations[r] <=> j \in s.invitations[r]
      BY <1>6, <1>10
    <2> QED  BY <1>10, <1>12, <2>1, <2>2 DEF Same
  <1>18. Others(s, u, i)
    BY <1>11, <1>17, OthersTransitive
  <1>19. Kept(u, i, Players, standing)
    BY <1>11, <1>15, <1>16 DEF Kept, Good
  <1>20. \A r \in Players \ online : Clear(u, r)
    <2> SUFFICES ASSUME NEW r \in Players \ online PROVE Clear(u, r)
      OBVIOUS
    <2>1. r # p /\ Clear(s, r)
      BY <1>1 DEF PartyInv
    <2> QED  BY <1>6, <1>11, <1>13, <2>1 DEF Clear
  <1>21. i <= created /\ created \in 0 .. MaxParties /\ created <= created
    <2>1. i <= created
      BY <1>1, <1>2, LedIsCreated DEF Led
    <2>2. created \in 0 .. MaxParties
      BY DEF PartyInv
    <2> QED  BY <2>1, <2>2
  <1> QED  BY <1>1, <1>11, <1>18, <1>19, <1>20, <1>21, MoreInv DEF u

Invited(t, i, q) == [t EXCEPT !.inviteList[i] = @ \cup {q}, !.invitations[q] = @ \cup {i}]

LEMMA InvitedLemma ==
  ASSUME NEW t \in State, NEW i \in Ids, NEW q \in Players, NEW at,
         Led(t, i), Known(t, i, Players), Shared(t, i, at), NEW u, u = Invited(t, i, q)
  PROVE  /\ u \in State /\ Kept(u, i, Players, at) /\ Others(t, u, i)
         /\ u.party = t.party /\ u.leader = t.leader
         /\ \A r \in Players \ {q} : u.invitations[r] = t.invitations[r]
  <1> DEFINE x == t.inviteList[i] \cup {q}
             e == [t.invitations EXCEPT ![q] = @ \cup {i}]
             v == WithInvites(t, i, x)
  <1>1. u = WithInvitations(v, e)
    BY DEF Invited, WithInvites, WithInvitations
  <1>2. x \in SUBSET Players
    BY Fields
  <1>3. /\ e \in [Players -> SUBSET Ids] /\ e[q] = t.invitations[q] \cup {i}
        /\ \A r \in Players \ {q} : e[r] = t.invitations[r]
    BY Fields
  <1>4. x = t.inviteList[i] \cup {q}
    OBVIOUS
  <1> HIDE DEF x, e
  <1>5. /\ v \in State /\ At(v.inviteList, t.inviteList, i, x)
        /\ v.party = t.party /\ v.invitations = t.invitations /\ v.leader = t.leader
        /\ v.memberList = t.memberList /\ v.active = t.active
        /\ v.enabled = t.enabled /\ v.ticks = t.ticks
    BY <1>2, PutInvites
  <1> HIDE DEF v
  <1>6. /\ u \in State /\ u.invitations = e /\ u.inviteList = v.inviteList
        /\ u.party = t.party /\ u.leader = t.leader
        /\ u.memberList = t.memberList /\ u.active = t.active
        /\ u.enabled = t.enabled /\ u.ticks = t.ticks
    BY <1>1, <1>3, <1>5, PutInvitations
  <1>7. u.inviteList[i] = x /\ \A j \in Ids \ {i} : u.inviteList[j] = t.inviteList[j]
    BY <1>5, <1>6 DEF At
  <1>8. Led(u, i) /\ ~Empty(u, i)
    BY <1>4, <1>6, <1>7 DEF Led, Empty
  <1>9. Known(u, i, Players)
    <2>1. Members(u, i) = Members(t, i) /\ All(u, i) = All(t, i)
      BY <1>6 DEF Members, All
    <2>2. \A r \in Players : i \in u.invitations[r] <=> r \in u.inviteList[i]
      BY <1>3, <1>4, <1>6, <1>7 DEF Known
    <2> QED  BY <1>6, <2>1, <2>2 DEF Known
  <1>10. Shared(u, i, at)
    <2>1. \A notes : Fit(u, i, at, notes) = Fit(t, i, at, notes)
      BY <1>6, SameFit
    <2> QED  BY <1>6, <2>1 DEF Shared
  <1>11. Others(t, u, i)
    <2> SUFFICES ASSUME NEW j \in Ids \ {i} PROVE Same(t, u, j)
      BY DEF Others
    <2>1. \A r \in Players : j \in u.invitations[r] <=> j \in t.invitations[r]
      BY <1>3, <1>6
    <2> QED  BY <1>6, <1>7, <2>1 DEF Same
  <1> QED  BY <1>3, <1>6, <1>8, <1>9, <1>10, <1>11 DEF Kept, Good

\* A party that its leader has just founded.
Founded(t, i, p) ==
    /\ t \in State /\ Bare(s, i, Players) /\ Others(s, t, i)
    /\ t.leader[i] = p /\ \A j \in Ids \ {i} : t.leader[j] = s.leader[j]
    /\ t.party[p] = i /\ \A r \in Players \ {p} : t.party[r] = s.party[r]
    /\ t.invitations = s.invitations
    /\ t.memberList = s.memberList /\ t.inviteList = s.inviteList /\ t.active = s.active
    /\ t.enabled = s.enabled /\ t.ticks = s.ticks

LEMMA FirstInvitation ==
  ASSUME PartyInv, NEW p \in Players, NEW q \in Players, NEW i \in Ids, NEW t,
         p \in online, q \in online, Founded(t, i, p),
         i <= created', created <= created', created' \in 0 .. MaxParties,
         s' = Invite(t, i, q), UNCHANGED <<online, standing>>
  PROVE  PartyInv'
  <1> DEFINE u == s'
             n == Cardinality(t.inviteList[i])
  <1>1. t \in State /\ Bare(s, i, Players) /\ t.leader[i] = p /\ t.party[p] = i
    BY DEF Founded
  <1>2. n = 0
    <2>1. t.inviteList[i] = {}
      BY DEF Founded, Bare
    <2> QED  BY <2>1, FS_EmptySet
  <1>3. u = Invited(t, i, q)
    <2>1. q \notin t.inviteList[i]
      BY DEF Founded, Bare
    <2>2. ~(n >= MaxInvites)
      <3> HIDE DEF n
      <3> QED  BY <1>2, PartyAssumption
    <2> QED  BY <2>1, <2>2 DEF Invite, Invited
  <1> HIDE DEF u, n
  <1>4. Led(t, i)
    BY <1>1, PartyAssumption DEF Led
  <1>5. Members(t, i) = {} /\ All(t, i) = {p}
    <2>1. t.memberList[i] = <<>>
      BY DEF Founded, Bare
    <2>2. Members(t, i) = {}
      BY <1>1, <2>1, MemberFacts
    <2> QED  BY <1>1, <2>2 DEF All
  <1>6. Known(t, i, Players)
    <2>1. IsInjective(t.memberList[i])
      BY DEF Founded, Bare, IsInjective
    <2>2. \A r \in Players : t.party[r] = i <=> r \in All(t, i)
      BY <1>5 DEF Founded, Bare
    <2>3. \A r \in Players : i \in t.invitations[r] <=> r \in t.inviteList[i]
      BY DEF Founded, Bare
    <2> QED  BY <1>5, <2>1, <2>2, <2>3 DEF Known
  <1>7. Shared(t, i, standing)
    BY DEF Founded, Bare, Shared
  <1>8. /\ u \in State /\ Kept(u, i, Players, standing) /\ Others(t, u, i)
        /\ u.party = t.party /\ u.leader = t.leader
        /\ \A r \in Players \ {q} : u.invitations[r] = t.invitations[r]
    BY <1>1, <1>3, <1>4, <1>6, <1>7, InvitedLemma
  <1>9. Others(s, u, i)
    BY <1>8, OthersTransitive DEF Founded
  <1>10. \A r \in Players \ online : Clear(u, r)
    <2> SUFFICES ASSUME NEW r \in Players \ online PROVE Clear(u, r)
      OBVIOUS
    <2>1. r # p /\ r # q /\ s.party[r] = 0 /\ s.invitations[r] = {}
      BY DEF PartyInv, Clear
    <2>2. u.party[r] = 0
      BY <1>8, <2>1 DEF Founded
    <2>3. u.invitations[r] = {}
      BY <1>8, <2>1 DEF Founded
    <2> QED  BY <2>2, <2>3 DEF Clear
  <1> QED  BY <1>8, <1>9, <1>10, MoreInv DEF u

LEMMA VetoedInvitation ==
  ASSUME PartyInv, NEW p \in Players, NEW i \in Ids, NEW t, s.party[p] = 0,
         p \in online, Founded(t, i, p),
         i <= created', created <= created', created' \in 0 .. MaxParties,
         s' = SetParty(t, {p}, 0), UNCHANGED <<online, standing>>
  PROVE  PartyInv'
  <1> DEFINE u == s'
             zero == 0
             one == {p}
  <1>1. /\ t \in State /\ zero \in 0 .. MaxParties /\ one \in SUBSET Players
        /\ u = SetParty(t, one, zero)
    BY PartyAssumption DEF Founded
  <1>2. zero = 0 /\ one = {p}
    OBVIOUS
  <1> HIDE DEF u, zero, one
  <1>3. /\ u \in State
        /\ \A r \in Players : /\ r \in one => u.party[r] = zero
                              /\ r \notin one => u.party[r] = t.party[r]
        /\ u.invitations = t.invitations /\ u.leader = t.leader
        /\ u.memberList = t.memberList /\ u.inviteList = t.inviteList /\ u.active = t.active
        /\ u.enabled = t.enabled /\ u.ticks = t.ticks
    BY <1>1, SetPartyLemma
  <1>4. \A r \in Players : u.party[r] = s.party[r]
    BY <1>2, <1>3 DEF Founded
  <1>5. Bare(u, i, Players) /\ ~Led(u, i)
    <2>1. /\ u.memberList = s.memberList /\ u.inviteList = s.inviteList
          /\ u.active = s.active /\ u.invitations = s.invitations /\ u.leader[i] = p
      BY <1>3 DEF Founded
    <2>2. Bare(s, i, Players)
      BY DEF Founded
    <2> QED  BY <1>4, <2>1, <2>2 DEF Bare, Led
  <1>6. Kept(u, i, Players, standing)
    BY <1>5 DEF Kept, Good, Bare, Shared
  <1>7. Others(s, u, i)
    <2> SUFFICES ASSUME NEW j \in Ids \ {i} PROVE Same(s, u, j)
      BY DEF Others
    <2>1. /\ u.memberList = s.memberList /\ u.inviteList = s.inviteList
          /\ u.active = s.active /\ u.invitations = s.invitations
          /\ u.enabled = s.enabled /\ u.ticks = s.ticks /\ u.leader[j] = s.leader[j]
      BY <1>3 DEF Founded
    <2> QED  BY <1>4, <2>1 DEF Same
  <1>8. \A r \in Players \ online : Clear(u, r)
    <2>1. u.invitations = s.invitations
      BY <1>3 DEF Founded
    <2> QED  BY <1>4, <2>1 DEF PartyInv, Clear
  <1> QED  BY <1>3, <1>6, <1>7, <1>8, MoreInv DEF u

LEMMA NewPartyStep ==
  ASSUME PartyInv, NEW p \in Players, NEW q \in Players, NEW i,
         s.party[p] = 0, p \in online, q \in online, created < MaxParties,
         created' = created + 1, i = created + 1,
         NEW t, t = WithLeader(SetParty(s, {p}, i), i, p),
         s' = Invite(t, i, q) \/ s' = SetParty(t, {p}, 0),
         UNCHANGED <<online, standing>>
  PROVE  PartyInv'
  <1> DEFINE v == SetParty(s, {p}, i)
  <1>1. /\ s \in State /\ created \in 0 .. MaxParties
        /\ \A j \in Ids : Kept(s, j, Players, standing)
    BY DEF PartyInv
  <1>2. /\ i \in Ids /\ i \in 0 .. MaxParties /\ i # 0 /\ i > created /\ i = created'
        /\ i <= created' /\ created <= created' /\ created' \in 0 .. MaxParties
    BY <1>1, PartyAssumption DEF Ids
  <1>3. Bare(s, i, Players)
    <2>1. ~Led(s, i)
      BY <1>2 DEF PartyInv, Led
    <2> QED  BY <1>1, <1>2, <2>1 DEF Kept, Good
  <1>4. /\ v \in State
        /\ \A r \in Players : /\ r \in {p} => v.party[r] = i
                              /\ r \notin {p} => v.party[r] = s.party[r]
        /\ v.invitations = s.invitations /\ v.leader = s.leader
        /\ v.memberList = s.memberList /\ v.inviteList = s.inviteList /\ v.active = s.active
        /\ v.enabled = s.enabled /\ v.ticks = s.ticks
    <2>1. v = SetParty(s, {p}, i)
      OBVIOUS
    <2> HIDE DEF v
    <2> QED  BY <1>1, <1>2, <2>1, SetPartyLemma
  <1>5. t = WithLeader(v, i, p)
    OBVIOUS
  <1> HIDE DEF v
  <1>6. /\ t \in State /\ At(t.leader, s.leader, i, p) /\ t.party = v.party
        /\ t.invitations = s.invitations
        /\ t.memberList = s.memberList /\ t.inviteList = s.inviteList /\ t.active = s.active
        /\ t.enabled = s.enabled /\ t.ticks = s.ticks
    <2>1. p \in Players \cup {Nobody}
      OBVIOUS
    <2> QED  BY <1>2, <1>4, <1>5, <2>1, PutLeader
  <1>7. t.leader[i] = p /\ \A j \in Ids \ {i} : t.leader[j] = s.leader[j]
    BY <1>6 DEF At
  <1>8. t.party[p] = i /\ \A r \in Players \ {p} : t.party[r] = s.party[r]
    BY <1>4, <1>6
  <1>9. Others(s, t, i)
    <2> SUFFICES ASSUME NEW j \in Ids \ {i} PROVE Same(s, t, j)
      BY DEF Others
    <2>1. ASSUME NEW r \in Players PROVE t.party[r] = j <=> s.party[r] = j
      <3>1. CASE r = p
        BY <1>8, <3>1, IdFacts
      <3>2. CASE r # p
        BY <1>8, <3>2
      <3> QED  BY <3>1, <3>2
    <2> QED  BY <1>6, <1>7, <2>1 DEF Same
  <1>10. Founded(t, i, p)
    BY <1>3, <1>6, <1>7, <1>8, <1>9 DEF Founded
  <1> QED  BY <1>2, <1>10, FirstInvitation, VetoedInvitation

LEMMA InviteStep ==
  ASSUME PartyInv, NEW p \in Players, NEW q \in Players, PlayerInviteToParty(p, q)
  PROVE  PartyInv'
  <1>1. p \in online /\ q \in online /\ UNCHANGED <<online, standing>>
    BY DEF PlayerInviteToParty
  <1>2. CASE s.party[p] = 0
    <2> DEFINE i == created + 1
               t == WithLeader(SetParty(s, {p}, i), i, p)
    <2>1. /\ created < MaxParties /\ created' = created + 1
          /\ s' = Invite(t, i, q) \/ s' = SetParty(t, {p}, 0)
      <3>1. /\ created < MaxParties /\ created' = created + 1
            /\ LET y == [SetParty(s, {p}, created') EXCEPT !.leader[created'] = p]
               IN  s' = Invite(y, created', q) \/ s' = SetParty(y, {p}, 0)
        BY <1>2 DEF PlayerInviteToParty
      <3> QED  BY <3>1 DEF WithLeader
    <2>2. i = created + 1 /\ t = WithLeader(SetParty(s, {p}, i), i, p)
      OBVIOUS
    <2> HIDE DEF i, t
    <2> QED  BY <1>1, <1>2, <2>1, <2>2, NewPartyStep
  <1>3. CASE s.party[p] # 0
    <2> DEFINE i == s.party[p]
               u == s'
    <2>1. i \in Ids /\ s \in State /\ \A j \in Ids : Kept(s, j, Players, standing)
      BY <1>3, InvFacts
    <2>2. u = Invite(s, i, q) /\ UNCHANGED created
      BY <1>3 DEF PlayerInviteToParty
    <2>3. Led(s, i) /\ Known(s, i, Players) /\ Shared(s, i, standing)
      BY <2>1, LedFacts
    <2> HIDE DEF i, u
    <2>4. CASE u = s
      <3>1. Fewer(s, s')
        BY <2>4, NothingChanges DEF u
      <3> QED  BY <1>1, <2>1, <2>2, <2>4, <3>1, FewerInv DEF u
    <2>5. CASE u = Invited(s, i, q)
      <3>1. /\ u \in State /\ Kept(u, i, Players, standing) /\ Others(s, u, i)
            /\ u.party = s.party /\ u.leader = s.leader
            /\ \A r \in Players \ {q} : u.invitations[r] = s.invitations[r]
        BY <2>1, <2>3, <2>5, InvitedLemma
      <3>2. \A r \in Players \ online : Clear(u, r)
        <4> SUFFICES ASSUME NEW r \in Players \ online PROVE Clear(u, r)
          OBVIOUS
        <4>1. r # q /\ Clear(s, r)
          BY <1>1 DEF PartyInv
        <4> QED  BY <3>1, <4>1 DEF Clear
      <3>3. i <= created /\ created \in 0 .. MaxParties /\ created' = created
        BY <2>1, <2>2, <2>3, LedIsCreated DEF Led, PartyInv
      <3>4. i <= created' /\ created <= created' /\ created' \in 0 .. MaxParties
        BY <3>3
      <3> QED  BY <1>1, <2>1, <3>1, <3>2, <3>4, MoreInv DEF u
    <2> QED  BY <2>2, <2>4, <2>5 DEF Invite, Invited
  <1> QED  BY <1>2, <1>3

-----------------------------------------------------------------------------
LEMMA PartyInit == Init => PartyInv
  <1> SUFFICES ASSUME Init PROVE PartyInv
    OBVIOUS
  <1>1. s \in State /\ created \in 0 .. MaxParties /\ standing \in [Players -> Standings]
    <2>1. 0 \in 0 .. MaxParties /\ <<>> \in Seq(Players)
      BY PartyAssumption
    <2> QED  BY <2>1 DEF Init, State
  <1>2. ASSUME NEW i \in Ids PROVE Kept(s, i, Players, standing)
    <2>1. ~Led(s, i)
      BY DEF Init, Led
    <2>2. Bare(s, i, Players)
      BY IdFacts DEF Init, Bare
    <2> QED  BY <2>1, <2>2 DEF Kept, Good, Bare, Shared
  <1>3. \A i \in Ids : s.leader[i] = Nobody
    BY DEF Init
  <1>4. online = Players
    BY DEF Init
  <1> QED  BY <1>1, <1>2, <1>3, <1>4 DEF PartyInv

LEMMA PartyStep == PartyInv /\ [Next]_vars => PartyInv'
  <1> SUFFICES ASSUME PartyInv, [Next]_vars PROVE PartyInv'
    OBVIOUS
  <1>1. CASE UNCHANGED vars
    BY <1>1 DEF vars, PartyInv
  <1>2. ASSUME NEW p \in Players, NEW q \in Players,
               \/ PlayerInviteToParty(p, q) \/ PlayerJoinParty(p, q)
               \/ PlayerRevokePartyInvitation(p, q) \/ PlayerPassPartyLeadership(p, q)
               \/ Heal(p, q)
        PROVE  PartyInv'
    BY <1>2, InviteStep, JoinStep, RevokeStep, PassStep, HealStep
  <1>3. ASSUME NEW p \in Players, PlayerLeaveParty(p) \/ Logout(p) \/ Login(p) \/ Idle(p)
        PROVE  PartyInv'
    BY <1>3, LeaveStep, LogoutStep, LoginStep, IdleStep
  <1>4. ASSUME NEW p \in Players, NEW active \in BOOLEAN,
               PlayerEnableSharedPartyExperience(p, active)
        PROVE  PartyInv'
    BY <1>4, EnableStep
  <1>5. ASSUME NEW p \in Players, NEW i \in Ids, GrowOld(i, p) PROVE PartyInv'
    BY <1>5, GrowOldStep
  <1>6. ASSUME NEW p \in Players, NEW x \in Standings, Change(p, x) PROVE PartyInv'
    BY <1>6, ChangeStep
  <1> QED  BY <1>1, <1>2, <1>3, <1>4, <1>5, <1>6 DEF Next

LEMMA PartyInvariant == Spec => []PartyInv
  BY PartyInit, PartyStep, PTL DEF Spec

LEMMA PartyImplies == PartyInv => BothSidesAgree /\ NothingLeftOver /\ SharedFairly
  <1> SUFFICES ASSUME PartyInv PROVE BothSidesAgree /\ NothingLeftOver /\ SharedFairly
    OBVIOUS
  <1>1. \A i \in Ids : i \in Active <=> Led(s, i)
    BY DEF Active, Led
  <1>2. ASSUME NEW i \in Ids, Led(s, i)
        PROVE  Known(s, i, Players) /\ ~Empty(s, i) /\ Shared(s, i, standing)
    BY <1>2 DEF PartyInv, Kept, Good
  <1>3. ASSUME NEW i \in Ids, ~Led(s, i) PROVE Bare(s, i, Players)
    BY <1>3 DEF PartyInv, Kept, Good
  <1>4. TypeOK
    BY DEF PartyInv, TypeOK, State
  <1>5. MembershipMutual
    <2> SUFFICES ASSUME NEW p \in Players
                 PROVE  /\ s.party[p] # 0 => /\ s.party[p] \in Active
                                             /\ s.leader[s.party[p]] = p <=> p \notin Members(s, s.party[p])
                        /\ \A j \in Active : p \in Members(s, j) => s.party[p] = j
                        /\ \A j \in Active : IsInjective(s.memberList[j])
      BY DEF MembershipMutual
    <2>1. ASSUME NEW i, i = s.party[p], i # 0
          PROVE  i \in Active /\ (s.leader[i] = p <=> p \notin Members(s, i))
      <3>1. i \in Ids
        BY <2>1, InvFacts
      <3>2. Led(s, i) /\ Known(s, i, Players)
        BY <1>2, <1>3, <2>1, <3>1 DEF Bare
      <3> QED  BY <1>1, <2>1, <3>1, <3>2 DEF Known, All
    <2>2. ASSUME NEW j \in Active
          PROVE  IsInjective(s.memberList[j]) /\ (p \in Members(s, j) => s.party[p] = j)
      <3>1. j \in Ids /\ Known(s, j, Players)
        BY <1>1, <1>2 DEF Active
      <3> QED  BY <3>1 DEF Known, All
    <2> QED  BY <2>1, <2>2
  <1>6. InvitationsMutual
    <2> SUFFICES ASSUME NEW p \in Players, NEW i \in Ids
                 PROVE  i \in s.invitations[p] <=> (i \in Active /\ p \in s.inviteList[i])
      BY DEF InvitationsMutual
    <2> QED  BY <1>1, <1>2, <1>3 DEF Known, Bare
  <1>7. NoIdleParty
    BY <1>1, <1>2 DEF NoIdleParty, Active
  <1>8. OfflineIsGone
    <2> SUFFICES ASSUME NEW p \in Players \ online
                 PROVE  /\ s.party[p] = 0 /\ s.invitations[p] = {}
                        /\ \A i \in Active : p \notin Members(s, i) \cup s.inviteList[i]
      BY DEF OfflineIsGone
    <2>1. s.party[p] = 0 /\ s.invitations[p] = {}
      BY DEF PartyInv, Clear
    <2>2. ASSUME NEW i \in Active PROVE p \notin Members(s, i) \cup s.inviteList[i]
      <3>1. i \in Ids /\ i # 0 /\ Known(s, i, Players)
        BY <1>1, <1>2, IdFacts DEF Active
      <3> QED  BY <2>1, <3>1 DEF Known, All
    <2> QED  BY <2>1, <2>2
  <1>9. SharedFairly
    <2> SUFFICES ASSUME NEW i \in Active PROVE Shared(s, i, standing)
      BY DEF SharedFairly, Shared
    <2> QED  BY <1>1, <1>2 DEF Active
  <1> QED  BY <1>4, <1>5, <1>6, <1>7, <1>8, <1>9 DEF BothSidesAgree, NothingLeftOver

\* Whoever names a party leads it or is listed by it, once, and by no other;
\* an invitation is known to both sides or to none (party.cpp joinParty,
\* leaveParty, passPartyLeadership, disband, removeInvite; player.cpp
\* clearPartyInvitations).
THEOREM PartyBothSidesAgree == Spec => []BothSidesAgree
  BY PartyInvariant, PartyImplies, PTL

\* A leader is never alone in a party that invites nobody, and a player who
\* has left the game is in no party and on no list (party.cpp disbandIfEmpty,
\* player.cpp onRemoveCreature).
THEOREM PartyNothingLeftOver == Spec => []NothingLeftOver
  BY PartyInvariant, PartyImplies, PTL

\* The kept flag says that everybody is near, of a fitting level and not idle,
\* but for notes that grow old unnoticed, whoever joins, leaves, leads, walks,
\* advances or goes idle (party.cpp updateSharedExperience).
THEOREM PartySharedFairly == Spec => []SharedFairly
  BY PartyInvariant, PartyImplies, PTL
=============================================================================
