-------------------------------- MODULE Party --------------------------------
(***************************************************************************)
(* Parties: src/party.cpp, the handlers of src/game.cpp and the invitation *)
(* list of src/player.cpp.  The handlers run alone on the game thread      *)
(* (module TaskQueue), so each is one action.  Scripts may veto an action, *)
(* in which case nothing happens, but not a disband: the shipped           *)
(* events.xml leaves onDisband off.                                        *)
(*                                                                         *)
(* The state is one record, because one call makes others: leaving passes  *)
(* the leadership and may disband, and a logout removes every invitation.  *)
(*                                                                         *)
(* Shared experience is switched on by the leader and goes on while every  *)
(* member is near the leader, of a fitting level, and has healed a partner *)
(* lately: the party notes when, and the note grows old by itself.         *)
(***************************************************************************)
EXTENDS Naturals, Sequences, FiniteSets, SequencesExt, FiniteSetsExt

CONSTANTS
    Players,
    Nobody,
    MaxParties,    \* bound on the parties that are created
    MaxMembers,    \* MAXIMUM_PARTY_SIZE
    MaxInvites,    \* MAXIMUM_INVITE_COUNT
    Standings,     \* where a player can be and at which level: <<place, level>>
    ShareRange,    \* PARTY_EXP_SHARE_RANGE
    Sharing        \* bound: the parties whose members heal and share

ASSUME PartyAssumption ==
    /\ IsFiniteSet(Players)
    /\ Nobody \notin Players
    /\ MaxParties \in Nat
    /\ MaxMembers \in Nat \ {0}
    /\ MaxInvites \in Nat \ {0}
    /\ Standings \subseteq Nat \X Nat /\ Standings # {} /\ ShareRange \in Nat
    /\ Sharing \subseteq 1 .. MaxParties

VARIABLES
    online,
    created,    \* _total_parties_created
    s,          \* the parties and the players' view of them
    standing    \* position and level of each player

vars == <<online, created, s, standing>>

Ids == 1 .. MaxParties

Init ==
    /\ online = Players
    /\ created = 0
    /\ s = [party       |-> [p \in Players |-> 0],       \* Player::party
            invitations |-> [p \in Players |-> {}],      \* invitePartyList
            leader      |-> [i \in Ids |-> Nobody],
            memberList  |-> [i \in Ids |-> <<>>],
            inviteList  |-> [i \in Ids |-> {}],
            active      |-> [i \in Ids |-> FALSE],       \* sharedExpActive
            enabled     |-> [i \in Ids |-> FALSE],       \* sharedExpEnabled
            ticks       |-> [i \in Ids |-> [p \in Players |-> "none"]]]
    /\ standing \in [Players -> Standings]

-----------------------------------------------------------------------------
(* The methods of Party, as functions of the state.                         *)

Members(t, i) == ToSet(t.memberList[i])

All(t, i) == Members(t, i) \cup {t.leader[i]}

Empty(t, i) == t.memberList[i] = <<>> /\ t.inviteList[i] = {}

\* getSharedExperienceStatus, with the notes that count.
Fit(t, i, at, notes) ==
    /\ t.memberList[i] # <<>>
    /\ \A p \in All(t, i) :
          /\ \A q \in All(t, i) : 3 * at[p][2] >= 2 * at[q][2]
          /\ at[p][1] \in at[t.leader[i]][1] - ShareRange .. at[t.leader[i]][1] + ShareRange
          /\ t.ticks[i][p] \in notes

UpdateSharedExperience(t, i, at) ==
    IF t.active[i] THEN [t EXCEPT !.enabled[i] = Fit(t, i, at, {"recent"})] ELSE t

SetParty(t, P, i) == [t EXCEPT !.party = [p \in Players |-> IF p \in P THEN i ELSE @[p]]]

KeepInvitationsMutant(t, i) ==
    [SetParty(t, Members(t, i) \cup {t.leader[i]}, 0) EXCEPT !.leader[i] = Nobody]

\* The lists, notes and flags of the party itself are left as they are in the
\* code; nobody names the party any more (BothSidesAgree), so they are forgotten
\* here.
Disband(t, i) ==
    LET u == [t EXCEPT !.invitations =
                 [p \in Players |-> IF p \in t.inviteList[i] THEN @[p] \ {i} ELSE @[p]]]
    IN  [SetParty(u, All(t, i), 0) EXCEPT
            !.leader[i] = Nobody, !.memberList[i] = <<>>, !.inviteList[i] = {},
            !.active[i] = FALSE, !.enabled[i] = FALSE,
            !.ticks[i] = [p \in Players |-> "none"]]

NeverDisbandMutant(t, i) == t

DisbandIfEmpty(t, i) == IF Empty(t, i) THEN Disband(t, i) ELSE t

\* The new leader leaves the list and the old one goes to its front.
ForgetSharingMutant(t, i, p) ==
    [t EXCEPT !.leader[i] = p,
              !.memberList[i] = <<t.leader[i]>> \o RemoveFirst(@, p)]

PassLeadership(t, i, p) ==
    LET u == [t EXCEPT !.leader[i] = p,
                       !.memberList[i] = <<t.leader[i]>> \o RemoveFirst(@, p)]
    IN  UpdateSharedExperience(u, i, standing)

\* removeInvite; a player who clears its own list does not touch it here.
RemoveInvite(t, i, p, removeFromPlayer) ==
    IF p \notin t.inviteList[i] THEN t
    ELSE LET u == [t EXCEPT !.inviteList[i] = @ \ {p},
                            !.invitations[p] = IF removeFromPlayer THEN @ \ {i} ELSE @]
         IN  DisbandIfEmpty(u, i)

\* A leader who leaves passes the leadership to the first member, unless
\* there would be nobody left for the party.
PassesOn(t, i, p) ==
    /\ t.leader[i] = p
    /\ t.memberList[i] # <<>>
    /\ ~(Len(t.memberList[i]) = 1 /\ t.inviteList[i] = {})

\* The note of who leaves stays: clearPlayerPoints looks at its party first,
\* which is none by then.
LeaveParty(t, i, p) ==
    LET u == IF PassesOn(t, i, p) THEN PassLeadership(t, i, Head(t.memberList[i])) ELSE t
        w == SetParty([u EXCEPT !.memberList[i] = RemoveFirst(@, p)], {p}, 0)
        v == UpdateSharedExperience(w, i, standing)
        missingLeader == t.leader[i] = p /\ ~PassesOn(t, i, p)
    IN  IF missingLeader \/ Empty(v, i) THEN Disband(v, i) ELSE v

\* Every party that invited the player forgets it.
ClearPartyInvitations(t, p) ==
    LET Forget(i, u) == RemoveInvite(u, i, p, FALSE)
    IN  [FoldSet(Forget, t, t.invitations[p]) EXCEPT !.invitations[p] = {}]

-----------------------------------------------------------------------------
(* The handlers of Game.                                                    *)

IsInviting(p, q) ==
    LET i == s.party[p] IN i # 0 /\ s.leader[i] = p /\ q \in s.inviteList[i]

\* invitePlayer: a second invitation, or one too many, does nothing.
Invite(t, i, q) ==
    IF q \in t.inviteList[i] \/ Cardinality(t.inviteList[i]) >= MaxInvites THEN t
    ELSE [t EXCEPT !.inviteList[i] = @ \cup {q}, !.invitations[q] = @ \cup {i}]

MayInvite(p, q) == ~IsInviting(q, p) /\ s.party[q] = 0

\* An invitation makes a party when there is none.  A script that vetoes it
\* leaves no party behind.
PlayerInviteToParty(p, q) ==
    /\ p # q /\ {p, q} \subseteq online
    /\ MayInvite(p, q)
    /\ \/ /\ s.party[p] = 0
          /\ created < MaxParties
          /\ created' = created + 1
          /\ LET t == [SetParty(s, {p}, created') EXCEPT !.leader[created'] = p]
             IN \/ s' = Invite(t, created', q)
                \/ s' = SetParty(t, {p}, 0)
       \/ /\ s.party[p] # 0
          /\ s.leader[s.party[p]] = p
          /\ s' = Invite(s, s.party[p], q)
          /\ UNCHANGED created
    /\ UNCHANGED <<online, standing>>

MayJoin(p) == s.party[p] = 0

PlayerJoinParty(p, q) ==
    LET i == s.party[q] IN
    /\ {p, q} \subseteq online
    /\ IsInviting(q, p)
    /\ MayJoin(p)
    /\ Len(s.memberList[i]) < MaxMembers
    /\ LET t == [SetParty(s, {p}, i) EXCEPT !.inviteList[i] = @ \ {p},
                                            !.memberList[i] = Append(@, p),
                                            !.invitations[p] = @ \ {i}]
       IN  s' = UpdateSharedExperience(t, i, standing)
    /\ UNCHANGED <<online, created, standing>>

PlayerRevokePartyInvitation(p, q) ==
    /\ {p, q} \subseteq online
    /\ IsInviting(p, q)
    /\ s' = RemoveInvite(s, s.party[p], q, TRUE)
    /\ UNCHANGED <<online, created, standing>>

PlayerPassPartyLeadership(p, q) ==
    /\ p # q /\ {p, q} \subseteq online
    /\ s.party[p] # 0
    /\ s.leader[s.party[p]] = p
    /\ s.party[q] = s.party[p]
    /\ s' = PassLeadership(s, s.party[p], q)
    /\ UNCHANGED <<online, created, standing>>

\* A player in a fight stays.
PlayerLeaveParty(p) ==
    /\ p \in online
    /\ s.party[p] # 0
    /\ s' = LeaveParty(s, s.party[p], p)
    /\ UNCHANGED <<online, created, standing>>

\* onRemoveCreature.  The notes go by the id of the creature, which is another
\* one when the player comes back.
Logout(p) ==
    /\ p \in online
    /\ online' = online \ {p}
    /\ LET t == ClearPartyInvitations(s, p)
           u == IF t.party[p] # 0 THEN LeaveParty(t, t.party[p], p) ELSE t
       IN  s' = [u EXCEPT !.ticks = [i \in Ids |-> [@[i] EXCEPT ![p] = "none"]]]
    /\ UNCHANGED <<created, standing>>

Login(p) ==
    /\ p \notin online
    /\ online' = online \cup {p}
    /\ UNCHANGED <<created, s, standing>>

(***************************************************************************)
(* Shared experience.                                                      *)
(***************************************************************************)
PlayerEnableSharedPartyExperience(p, active) ==
    LET i == s.party[p] IN
    /\ p \in online /\ i \in Sharing
    /\ s.leader[i] = p /\ s.active[i] # active
    /\ s' = UpdateSharedExperience([s EXCEPT !.active[i] = active], i, standing)
    /\ UNCHANGED <<online, created, standing>>

\* onTargetCreatureGainHealth: somebody else of the same party.
Heal(p, q) ==
    LET i == s.party[p] IN
    /\ p # q /\ {p, q} \subseteq online
    /\ i \in Sharing /\ s.party[q] = i
    /\ s' = UpdateSharedExperience([s EXCEPT !.ticks[i][p] = "recent"], i, standing)
    /\ UNCHANGED <<online, created, standing>>

\* onIdleStatus: the fight is over.
Idle(p) ==
    LET i == s.party[p] IN
    /\ p \in online /\ i # 0
    /\ s.ticks[i][p] # "none"
    /\ s' = UpdateSharedExperience([s EXCEPT !.ticks[i][p] = "none"], i, standing)
    /\ UNCHANGED <<online, created, standing>>

\* PZ_LOCKED milliseconds pass.
GrowOld(i, p) ==
    /\ s.ticks[i][p] = "recent"
    /\ s' = [s EXCEPT !.ticks[i][p] = "old"]
    /\ UNCHANGED <<online, created, standing>>

\* onCreatureMove, addExperience and removeExperience.
Change(p, standing1) ==
    /\ p \in online /\ standing[p] # standing1
    /\ standing' = [standing EXCEPT ![p] = standing1]
    /\ s' = IF s.party[p] # 0 THEN UpdateSharedExperience(s, s.party[p], standing') ELSE s
    /\ UNCHANGED <<online, created>>

Next ==
    \E p \in Players :
        \/ \E q \in Players :
              \/ PlayerInviteToParty(p, q)
              \/ PlayerJoinParty(p, q)
              \/ PlayerRevokePartyInvitation(p, q)
              \/ PlayerPassPartyLeadership(p, q)
              \/ Heal(p, q)
        \/ PlayerLeaveParty(p)
        \/ Logout(p)
        \/ Login(p)
        \/ Idle(p)
        \/ \E active \in BOOLEAN : PlayerEnableSharedPartyExperience(p, active)
        \/ \E i \in Ids : GrowOld(i, p)
        \/ \E standing1 \in Standings : Change(p, standing1)

Spec == Init /\ [][Next]_vars

-----------------------------------------------------------------------------
TypeOK ==
    /\ online \subseteq Players
    /\ created \in 0 .. MaxParties
    /\ s \in [party : [Players -> 0 .. MaxParties],
              invitations : [Players -> SUBSET Ids],
              leader : [Ids -> Players \cup {Nobody}],
              memberList : [Ids -> Seq(Players)],
              inviteList : [Ids -> SUBSET Players],
              active : [Ids -> BOOLEAN], enabled : [Ids -> BOOLEAN],
              ticks : [Ids -> [Players -> {"none", "recent", "old"}]]]
    /\ standing \in [Players -> Standings]

Active == {i \in Ids : s.leader[i] # Nobody /\ s.party[s.leader[i]] = i}

\* Player and party agree: whoever names a party leads it or is listed in it,
\* once, and it names every player it lists.  In particular every party that
\* a player names has a leader, whom the code uses without a test.
MembershipMutual ==
    \A p \in Players :
        LET i == s.party[p] IN
        /\ i # 0 => i \in Active /\ (s.leader[i] = p <=> p \notin Members(s, i))
        /\ \A j \in Active : p \in Members(s, j) => i = j
        /\ \A j \in Active : IsInjective(s.memberList[j])

\* An invitation is known to both sides or to none: a player who leaves the
\* game is in no list, a party that has been disbanded is in nobody's.
InvitationsMutual ==
    \A p \in Players, i \in Ids :
        i \in s.invitations[p] <=> (i \in Active /\ p \in s.inviteList[i])

\* Players and parties agree on who belongs to whom and who may join, and a
\* party lists players.
BothSidesAgree == TypeOK /\ MembershipMutual /\ InvitationsMutual

\* A party does not outlive its reason: its leader is never alone in it with
\* no invitation pending.
NoIdleParty == \A i \in Active : ~Empty(s, i)

\* Whoever is offline belongs to nothing.
OfflineIsGone ==
    \A p \in Players \ online :
        /\ s.party[p] = 0 /\ s.invitations[p] = {}
        /\ \A i \in Active : p \notin Members(s, i) \cup s.inviteList[i]

\* Nothing is left of a party without a reason, or of a player who is gone.
NothingLeftOver == NoIdleParty /\ OfflineIsGone

\* Experience is shared just as long as everybody is near the leader, of a
\* fitting level and not idle, through joining, leaving, handing over, walking
\* and advancing: the flag is kept and not computed.  Only notes that grow old
\* are not noticed before somebody does something.
SharedFairly ==
    \A i \in Active : s.active[i] =>
        /\ s.enabled[i] => Fit(s, i, standing, {"recent", "old"})
        /\ Fit(s, i, standing, {"recent"}) => s.enabled[i]
=============================================================================
