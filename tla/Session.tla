------------------------------- MODULE Session -------------------------------
(***************************************************************************)
(* src/protocolgame.cpp on the game thread: logging in, the waiting list,  *)
(* taking a character over, leaving the game and the release of a          *)
(* protocol, with the autosend pool that serves the clients.               *)
(*                                                                         *)
(* A ProtocolGame object belongs to one connection and logs in once; the   *)
(* Player object that this login makes carries the name of the protocol.   *)
(* The connection is the one of module Connection, reduced to what the     *)
(* game thread sees: it posts the login first and the release last, and    *)
(* the object may outlive the release a little.  Both modules are used     *)
(* together in NetworkProofs, hence the long names of this one.            *)
(***************************************************************************)
EXTENDS Naturals, Sequences, FiniteSets, SequencesExt

CONSTANTS
    Protocols,     \* ProtocolGame objects; a slot is used again once it is free
    Guids,         \* characters
    Premium,       \* characters of premium accounts
    Sheltered,     \* characters in a zone where nobody is logged out
    MaxPlayers,    \* max_players of server.toml
    MaxChains,     \* bound on the pending sendAll events
    None

ASSUME SessionAssumption ==
    /\ Premium \subseteq Guids /\ Sheltered \subseteq Guids
    /\ MaxPlayers \in Nat \ {0}
    /\ None \notin Protocols \cup Guids

Players == Protocols

VARIABLES
    conns,       \* "open", "asked" (to close), "closed" or "expired"
    tasks,       \* what each connection has posted to the dispatcher
    accepts,     \* acceptPackets
    player,      \* ProtocolGame::player
    event,       \* the player of a pending connect event (eventConnect)
    client,      \* Player::client
    body,        \* Game::players: the character of a player in the game
    connecting,  \* Player::isConnecting of the players in the game
    waitList,
    buffered,    \* OutputMessagePool::bufferedProtocols
    chains       \* pending sendAll events

linkVars == <<player, client>>
gameVars == <<body, connecting>>
poolVars == <<buffered, chains>>
sessionVars == <<conns, tasks, accepts, player, event, client, body, connecting,
                 waitList, buffered, chains>>

online == {o \in Players : body[o] # None}

SessionInit ==
    /\ conns = [p \in Protocols |-> "expired"]
    /\ tasks = [p \in Protocols |-> <<>>]
    /\ accepts = {}
    /\ player = [p \in Protocols |-> None]
    /\ event = [p \in Protocols |-> None]
    /\ client = [o \in Players |-> None]
    /\ body = [o \in Players |-> None]
    /\ connecting = {}
    /\ waitList = <<>>
    /\ buffered = {}
    /\ chains = 0

-----------------------------------------------------------------------------
(* The network thread.                                                      *)

\* Nothing refers to the protocol or to the player it made any more.
Unused(p) ==
    /\ conns[p] = "expired"
    /\ p \notin online
    /\ tasks[p] = <<>> /\ event[p] = None /\ player[p] = None /\ client[p] = None
    /\ \A q \in Protocols : event[q] # p /\ player[q] # p

Listening(p) == conns[p] \in {"open", "asked"}

\* A new connection and its ProtocolGame, as of its first message:
\* onRecvFirstMessage posts authenticateAndLogin.
FirstMessage(p) ==
    /\ Unused(p)
    /\ conns' = [conns EXCEPT ![p] = "open"]
    /\ tasks' = [tasks EXCEPT ![p] = <<"login">>]
    /\ accepts' = accepts \ {p}
    /\ UNCHANGED <<event, linkVars, gameVars, waitList, poolVars>>

\* parsePacket of a logout: the network thread reads acceptPackets and player
\* as the game thread left them.  One logout at a time is enough.
AskLogout(p) ==
    /\ Listening(p)
    /\ p \in accepts
    /\ player[p] # None
    /\ tasks[p] = <<>>
    /\ tasks' = [tasks EXCEPT ![p] = Append(@, "logout")]
    /\ UNCHANGED <<conns, accepts, event, linkVars, gameVars, waitList, poolVars>>

\* The connection closes, for its own reasons or because it was asked to,
\* and posts the release.
CloseConnection(p) ==
    /\ Listening(p)
    /\ conns' = [conns EXCEPT ![p] = "closed"]
    /\ tasks' = [tasks EXCEPT ![p] = Append(@, "release")]
    /\ UNCHANGED <<accepts, event, linkVars, gameVars, waitList, poolVars>>

\* The last handler of a closed connection lets go of the object.
ConnectionGone(p) ==
    /\ conns[p] = "closed"
    /\ conns' = [conns EXCEPT ![p] = "expired"]
    /\ UNCHANGED <<tasks, accepts, event, linkVars, gameVars, waitList, poolVars>>

-----------------------------------------------------------------------------
(* The waiting list.                                                        *)

Without(s, G) == SelectSeq(s, LAMBDA g : g \notin G)
Listed == {waitList[i] : i \in DOMAIN waitList}
SlotIn(s, g) == CHOOSE i \in DOMAIN s : s[i] = g

\* clientLogin: the slot the client is given (0: come in) and the list after
\* it, when the entries of Gone have timed out.  A premium client is put
\* where priorityEnd points, and its slot counts the clients before it, so
\* that the front of the list is slot 0.  priorityEnd is not kept valid over
\* changes of the deque: it may point anywhere.
\* Mutant: whoever comes when there is room walks past the waiting list.
JumpQueueMutant == Cardinality(online) < MaxPlayers

Directly == waitList = <<>> /\ Cardinality(online) < MaxPlayers

Waiting(g, Gone) ==
    LET rest == Without(waitList, Gone)
        slot == SlotIn(rest, g)
    IN CASE g \in Listed \ Gone /\ Cardinality(online) + slot <= MaxPlayers ->
                {[slot |-> 0, list |-> Without(rest, {g})]}
         [] g \in Listed \ Gone /\ Cardinality(online) + slot > MaxPlayers ->
                {[slot |-> slot, list |-> rest]}
         [] g \notin Listed \ Gone /\ g \in Premium ->
                {[slot |-> i - 1, list |-> InsertAt(rest, i, g)] : i \in 1 .. Len(rest) + 1}
         [] OTHER -> {[slot |-> Len(rest) + 1, list |-> Append(rest, g)]}

ClientLogin(g) ==
    IF Directly THEN {[slot |-> 0, list |-> waitList]}
    ELSE UNION {Waiting(g, Gone) : Gone \in SUBSET Listed}

-----------------------------------------------------------------------------
(* The autosend pool.                                                       *)

\* Mutant: the pool is looked at after the protocol is in it.
AddFirstMutant(p) ==
    /\ buffered' = buffered \cup {p}
    /\ chains' = IF buffered' = {} THEN chains + 1 ELSE chains

AddProtocolToAutosend(p) ==
    /\ buffered' = buffered \cup {p}
    /\ chains' = IF buffered = {} THEN chains + 1 ELSE chains

\* One sendAll event; it goes on as long as a protocol is buffered.
SendAll ==
    /\ chains > 0
    /\ buffered = {}
    /\ chains' = chains - 1
    /\ UNCHANGED <<conns, tasks, accepts, event, linkVars, gameVars, waitList, buffered>>

-----------------------------------------------------------------------------
(* The game thread.                                                         *)

NextTask(p, t) == tasks[p] # <<>> /\ Head(tasks[p]) = t
Done(p) == tasks' = [tasks EXCEPT ![p] = Tail(@)]

\* Protocol::disconnect asks the strand of the connection to close it.
Asked(P) == [p \in Protocols |-> IF p \in P /\ conns[p] = "open" THEN "asked" ELSE conns[p]]

\* authenticateAndLogin refuses before there is a player.
RefuseLogin(p) ==
    /\ NextTask(p, "login")
    /\ Done(p)
    /\ conns' = Asked({p})
    /\ UNCHANGED <<accepts, event, linkVars, gameVars, waitList, poolVars>>

\* login() of a character that is not in the game makes a player.
MakePlayer(p, g) ==
    /\ NextTask(p, "login")
    /\ Done(p)
    /\ \A o \in online : body[o] # g
    /\ player' = [player EXCEPT ![p] = p]
    /\ client' = [client EXCEPT ![p] = p]
    /\ UNCHANGED <<event, connecting>>

\* A check of login() fails: before the waiting list is asked, or the player
\* cannot be loaded or placed afterwards.
LoginFails(p, g) ==
    /\ MakePlayer(p, g)
    /\ waitList' \in {waitList} \cup {r.list : r \in {q \in ClientLogin(g) : q.slot = 0}}
    /\ conns' = Asked({p})
    /\ UNCHANGED <<accepts, body, poolVars>>

LoginWaits(p, g) ==
    /\ MakePlayer(p, g)
    /\ \E r \in ClientLogin(g) : r.slot > 0 /\ waitList' = r.list
    /\ conns' = Asked({p})
    /\ UNCHANGED <<accepts, body, poolVars>>

EnterGame(p, g) ==
    /\ MakePlayer(p, g)
    /\ \E r \in ClientLogin(g) : r.slot = 0 /\ waitList' = r.list
    /\ body' = [body EXCEPT ![p] = g]
    /\ accepts' = accepts \cup {p}
    /\ AddProtocolToAutosend(p)
    /\ chains' <= MaxChains
    /\ UNCHANGED conns

\* Mutant: a character that got a client in the meantime is connected again.
ConnectTwiceMutant(p, o) ==
    IF o \notin online
    THEN /\ conns' = Asked({p})
         /\ UNCHANGED <<accepts, linkVars, connecting>>
    ELSE /\ player' = [player EXCEPT ![p] = o]
         /\ client' = [client EXCEPT ![o] = p]
         /\ connecting' = connecting \ {o}
         /\ accepts' = accepts \cup {p}
         /\ UNCHANGED conns

\* Mutant: a refused connect event says nothing.
ConnectSilentMutant(p, o) ==
    IF o \notin online \/ client[o] # None \/ conns[p] = "expired"
    THEN UNCHANGED <<conns, accepts, linkVars, connecting>>
    ELSE /\ player' = [player EXCEPT ![p] = o]
         /\ client' = [client EXCEPT ![o] = p]
         /\ connecting' = connecting \ {o}
         /\ accepts' = accepts \cup {p}
         /\ UNCHANGED conns

\* connect(): the character must still be in the game without a client.  A
\* connection that is gone is left alone.
Connect(p, o) ==
    IF o \notin online \/ client[o] # None
    THEN /\ conns' = Asked({p})
         /\ UNCHANGED <<accepts, linkVars, connecting>>
    ELSE IF conns[p] = "expired"
    THEN UNCHANGED <<conns, accepts, linkVars, connecting>>
    ELSE /\ player' = [player EXCEPT ![p] = o]
         /\ client' = [client EXCEPT ![o] = p]
         /\ connecting' = connecting \ {o}
         /\ accepts' = accepts \cup {p}
         /\ UNCHANGED conns

\* login() of a character in the game that has no client.
Reconnect(p, o) ==
    /\ NextTask(p, "login")
    /\ Done(p)
    /\ o \in online
    /\ client[o] = None
    /\ Connect(p, o)
    /\ AddProtocolToAutosend(p)
    /\ chains' <= MaxChains
    /\ UNCHANGED <<event, body, waitList>>

\* login() of a character that is played: its client is disconnected, and a
\* second later the new one connects.  (eventConnect is 0: a protocol logs in
\* once; with replace_kick_on_login off this is a RefuseLogin.)
TakeOver(p, o) ==
    /\ NextTask(p, "login")
    /\ Done(p)
    /\ o \in online
    /\ client[o] # None
    /\ conns' = Asked({client[o]})
    /\ connecting' = connecting \cup {o}
    /\ event' = [event EXCEPT ![p] = o]
    /\ AddProtocolToAutosend(p)
    /\ chains' <= MaxChains
    /\ UNCHANGED <<accepts, linkVars, body, waitList>>

ConnectEvent(p) ==
    /\ event[p] # None
    /\ event' = [event EXCEPT ![p] = None]
    /\ Connect(p, event[p])
    /\ UNCHANGED <<tasks, body, waitList, poolVars>>

\* Game::removeCreature, once for each player.
RemoveCreatures(O) ==
    /\ body' = [o \in Players |-> IF o \in O THEN None ELSE body[o]]
    /\ connecting' = connecting \ O

\* logout() of protocol p, forced: nothing without a player.
ForcedLogout(p) ==
    /\ RemoveCreatures({player[p]})
    /\ conns' = IF player[p] = None THEN conns ELSE Asked({p})

\* The logout a client asked for.  A fight, a zone or a script may keep a
\* player in the game, not one that was removed.
Logout(p) ==
    /\ NextTask(p, "logout")
    /\ Done(p)
    /\ \/ ForcedLogout(p)
       \/ player[p] \in online /\ UNCHANGED <<gameVars, conns>>
    /\ UNCHANGED <<accepts, event, linkVars, waitList, poolVars>>

\* sendPing() of a client that has not answered for too long: the client is
\* logged out and the player removed, unless a take-over is on its way.
KickNoPong(o) ==
    /\ o \in online \ connecting
    /\ body[o] \notin Sheltered
    /\ LET clients == {p \in Protocols : client[o] = p /\ player[p] # None}
       IN /\ RemoveCreatures({o} \cup {player[p] : p \in clients})
          /\ conns' = Asked(clients)
    /\ UNCHANGED <<tasks, accepts, event, linkVars, waitList, poolVars>>

\* kickPlayer() of a player who has been idle for too long.
KickIdle(o) ==
    /\ o \in online
    /\ body[o] \notin Sheltered
    /\ IF client[o] # None THEN ForcedLogout(client[o])
       ELSE RemoveCreatures({o}) /\ UNCHANGED conns
    /\ UNCHANGED <<tasks, accepts, event, linkVars, waitList, poolVars>>

\* A player who dies is removed; the client stays and may only log out.
Die(o) ==
    /\ o \in online
    /\ RemoveCreatures({o})
    /\ UNCHANGED <<conns, tasks, accepts, event, linkVars, waitList, poolVars>>

Attached(p) == player[p] # None /\ client[player[p]] = p

\* release(): the last thing a connection posts.
Release(p) ==
    /\ NextTask(p, "release")
    /\ Done(p)
    /\ IF Attached(p)
       THEN /\ client' = [client EXCEPT ![player[p]] = None]
            /\ player' = [player EXCEPT ![p] = None]
       ELSE UNCHANGED linkVars
    /\ buffered' = buffered \ {p}
    /\ UNCHANGED <<conns, accepts, event, gameVars, waitList, chains>>

-----------------------------------------------------------------------------
Login(p) ==
    \/ RefuseLogin(p)
    \/ \E g \in Guids : LoginFails(p, g) \/ LoginWaits(p, g) \/ EnterGame(p, g)
    \/ \E o \in Players : Reconnect(p, o) \/ TakeOver(p, o)

RunTask(p) == Login(p) \/ Logout(p) \/ Release(p)

SessionNext ==
    \/ \E p \in Protocols :
          \/ FirstMessage(p) \/ AskLogout(p) \/ CloseConnection(p)
          \/ ConnectionGone(p) \/ RunTask(p) \/ ConnectEvent(p)
    \/ \E o \in Players : KickNoPong(o) \/ KickIdle(o) \/ Die(o)
    \/ SendAll

SessionSpec == SessionInit /\ [][SessionNext]_sessionVars

Live(o) == client[o] # None /\ conns[client[o]] = "open"

-----------------------------------------------------------------------------
SessionTypeOK ==
    /\ conns \in [Protocols -> {"open", "asked", "closed", "expired"}]
    /\ tasks \in [Protocols -> Seq({"login", "logout", "release"})]
    /\ accepts \subseteq Protocols
    /\ player \in [Protocols -> Players \cup {None}]
    /\ event \in [Protocols -> Players \cup {None}]
    /\ client \in [Players -> Protocols \cup {None}]
    /\ body \in [Players -> Guids \cup {None}]
    /\ connecting \subseteq online
    /\ waitList \in Seq(Guids)
    /\ buffered \subseteq Protocols
    /\ chains \in Nat

\* A protocol and a player that know each other do so on both sides through
\* logins that fail, take-overs, deaths and releases: a task of an old client
\* never reaches a player who has a new one, and a player with a client can
\* always be logged out through it.
LinkedBothWays ==
    \A p \in Protocols, o \in Players : player[p] = o <=> client[o] = p

\* Whoever plays over an open connection is in the autosend pool, and as long
\* as the pool has protocols some sendAll event is pending.
AutosendServed ==
    /\ buffered # {} => chains > 0
    /\ \A o \in Players : Live(o) => client[o] \in buffered

\* A client without privileges comes in only if there is room for everybody
\* who stays before it on the waiting list.
Before(g) ==
    {i \in DOMAIN waitList : /\ \A j \in 1 .. i : waitList[j] # g
                             /\ \E j \in DOMAIN waitList' : waitList'[j] = waitList[i]}

QueueRespected ==
    [][\A o \in online' \ online : body'[o] \notin Premium =>
          Cardinality(online) + Cardinality(Before(body'[o])) < MaxPlayers]_sessionVars

\* Nobody who logs in is forgotten: an open connection that does not play a
\* character has its login, or the connect event of a take-over, ahead of it.
NobodyForgotten ==
    \A p \in Protocols :
        conns[p] = "open" /\ ~Attached(p) => event[p] # None \/ NextTask(p, "login")

\* The server is never fuller than max_players ("0 = no limit" says
\* config/server.toml, and any other number is one).
CapRespected == Cardinality(online) <= MaxPlayers
=============================================================================
