# A TLA+ model of the BlackTek server core

BlackTek (`src/BlackTek-Server-master/`) is a C++ game server: one thread owns the whole
game state, a few others feed it. This directory holds TLA+ modules translated from that
code, TLC configurations that check them on small instances, and proofs that TLAPS checks
for every value of the constants. File names below are relative to
`src/BlackTek-Server-master/src/`.

To repeat a check or a proof, from this directory:

    tlc -workers 2 -config Dispatcher.cfg Dispatcher
    tlapm DispatcherProofs.tla

## 1. The system

### Threads

| thread | code | what it does |
|---|---|---|
| main | `otserv.cpp` | starts everything, runs the network `io_context`, joins the others |
| game (`g_dispatcher`) | `tasks.cpp` | runs every task that touches game state, one at a time |
| utility (`g_utility_boss`) | `tasks.cpp` | a second instance of the same queue |
| scheduler (`g_scheduler`) | `scheduler.cpp` | timers; hands expired tasks to the game thread |
| database (`g_databaseTasks`) | `databasetasks.cpp` | asynchronous SQL; hands callbacks to the game thread |
| network | `server.cpp`, `connection.cpp` | sockets; one strand per connection; posts to the game thread |
| signals | `signals.cpp` | turns signals into game-thread tasks |

### Components

What each keeps, what changes it, what is hard about it and what makes it correct.
`PROJECT.json` has the same list with the status of each, and the hazards of each at the
line where they bite.

| component | state | operations | interactions | correct when |
|---|---|---|---|---|
| Dispatcher | task list, thread state, mutex, condition variable | `addTask`, `threadMain`, `stop`, `shutdown`, expiration | called by every thread | FIFO, each task once, no lost wakeup, thread ends after an orderly stop with nothing left behind |
| Database worker | deque, thread state | `addTask`, `flush`, `runTask`, `threadMain`, `shutdown` | callbacks to the dispatcher; game thread flushes before a save | each query once, order deviates only by what is in somebody's hand, ends |
| Scheduler | id counter, timer map | `addEvent`, `stopEvent`, timer handler, `shutdown` | raw task pointers pass from client to timer to dispatcher | one owner per pointer, map is cleaned, an event is lost only by its own cancellation |
| Connection | socket, timers, message queue, flags | `accept`, header and body handlers, `send`, write handler, `close`, timeouts | protocol lives on the game thread, handlers on the strand | one read and one write at a time, order of messages, protocol released once and last, closed connections end |
| Game session | links between client and player, waiting list, connect event | login, take-over, reconnect, logout, kicks, death, release | connection, scheduler, player object | links agree on both sides, nobody who logs in is forgotten, the queue is respected |
| Autosend pool | buffered protocols | add, remove, `sendAll` | one scheduled event while the pool is not empty | whoever plays is served |
| Trade | state, partner and item per player; registry of items | request, accept, transfer, close, hooks of moves, walks and logout | item, container, tile and player notifications | two-sided, exact registry, an offer that was accepted does not change before the transfer |
| Party | leader, members, invitations; the players' side of each; shared experience | invite, join, revoke, pass, leave, disband, share, logout | player lists on both sides; walking, healing, advancing | both sides agree, no party without leader or purpose, experience shared just as long as everybody is fit |
| Zones, spawns | entries, tracked creatures, Run frame, sleeping frames | triggers, waves, respawns, boss fights, schedule | timer queue, placement of creatures | no entry lost or spawned twice, one boss, nothing spawned under a player's eyes |
| Market | offers in the database, balances, items | create, cancel, accept, expire | asynchronous queries | coins and items are conserved, every unit is accounted for |
| Decay | pre-caches, queues, `decaying_eq`, durations | equip, take off, swap, use, save, cycles | timers of the game thread | what is worn is on the clock, lasts as long as it should, and only that goes |
| Server lifecycle | game state, loader signal | start, `setGameState`, `shutdown`, join | calls stop, flush and shutdown of all threads | everything is joined, nothing accepted is lost |
| Service ports | acceptor, pending start | open, accept, retry, close | creates connections; reopens through the scheduler | one acceptor, retried after failure |
| Item moves, walk and action events, creature checks, raids, houses, chat | see `PROJECT.json` | | game thread only, delayed by scheduler events | a delayed event meets the object it was made for |
| Combat, monsters, map, Lua, persistence formats, cryptography, tools | see `PROJECT.json` | | | computation or input/output without a protocol between actors |

The hard behaviours are of four kinds. The threaded components interleave at the level of
single lock operations and unlocked state reads. Everything on the game thread is atomic,
but is spread over many handlers that other actors' handlers come between: a trade lasts
from a request to a transfer, minutes later. Delayed work (timers, completions, callbacks,
sleeping coroutines) may come too late: after a cancel, a close, a take-over or a
shutdown. And flags are kept that could be computed (a party's `sharedExpEnabled`, a
zone's `paused`, an item's decay state), so that every handler must bring them up to date.

## 2. Modules

    TaskQueue  <--implements--  Dispatcher    <-- DispatcherProofs
                                DatabaseTasks <-- DatabaseProofs
                                Scheduler     <-- SchedulerProofs
                                Connection    <-- NetworkProofs
                                Session       <-- MCSession, NetworkProofs
                                Trade         <-- MCTrade, TradeProofs
                                Party         <-- MCParty, PartyProofs
                                Zones         <-- MCZones, WorldProofs
                                Market        <-- MCMarket, MarketProofs
                                Decay         <-- WorldProofs

`TaskQueue` is what all game-thread code assumes: tasks run alone and in order. `Dispatcher`
is proved to implement it, and it is the reason why `Session`, `Trade`, `Party`, `Zones`,
`Market` and `Decay` take one action per handler. The threaded modules model the others by
what they do to them: a flag `gameOpen` says whether the dispatcher still accepts tasks. `NetworkProofs` and
`WorldProofs` each prove about two modules, one after the other, over the variables of both.

**Dispatcher** (`tasks.cpp`, `tasks.h`, `thread_holder_base.h`). A call of `addTask` or
`shutdown` is *call, lock, critical section, notify*; `threadMain` is *check, lock, wait,
swap, then one step per task*. The state test of the loop reads `threadState` without the
lock, as the code does. The wait may wake spuriously. `mode` is how this instance will be
closed: by a task that runs `setGameState(SHUTDOWN)` (`"signal"`), by another thread
(`"utility"`, the second instance) or by `main()` without a `stop()` (`"offline"`).
`accepted` and `finished` are histories.

**DatabaseTasks** (`databasetasks.cpp`). The game thread adds, flushes and shuts down, the
network thread adds (bans), `main()` shuts down offline, and the worker pops. A query is one
step: the database has a mutex of its own. `hand[r]` is a query that `r` has popped and not
finished, outside `taskLock`.

**Scheduler** (`scheduler.cpp`). A task object is in one place: the posted insert handler,
the timer, the completion handler, the dispatcher, or freed. The id counter wraps at
`IdMax`, so ids are reused, `emplace` finds an existing timer, `expires_after` aborts its
wait, and id 0, which `stopEvent` ignores, is given out. `addEvent` reads the id from the
task *after* posting it; if the task has been freed by then, the value is arbitrary. Time
is abstracted: a timer may expire whenever it is waited on. The heartbeat coroutine that
ticks the timer queue of the game thread is left out.

**Connection** (`connection.cpp`, `server.cpp` `onAccept`). The record `conn` is the object;
`strand` the queue of its handlers; sockets and timers queue completions on it. `Alive` is
the reference count: a pending operation or a queued handler holds a `shared_ptr`, a timer
only a `weak_ptr`. What a packet contains is a choice of outcomes (accepted, refused by the
protocol with a message or without, too fast, bad size). `CloseAll` runs off the strand, as in the code.

**Session** (`protocolgame.cpp` 28-398, `outputmessage.cpp`, the kicks of `game.cpp` and
`player.cpp`). A `ProtocolGame` logs in once, so the `Player` object that its login makes
carries its name. The connection is reduced to what the game thread sees of it: it posts
the login first and the release last, and the object outlives the release a little
(`"expired"`: the slot may be used again). `LoginFails` stands for every check that refuses
after the player object exists, `LoginWaits` for the waiting list, `EnterGame`, `Reconnect`
and `TakeOver` for the ways into the game; `ConnectEvent` is the event a second after a
take-over. `priorityEnd` is an iterator that insertions and erasures of the deque
invalidate, so `clientLogin` may insert anywhere and return any position. `buffered` and
`chains` are the autosend pool and its pending `sendAll` events.

**Trade** (`game.cpp` 3898-4280, `player.cpp` hooks, `itemcontainer.cpp`, `tile.cpp`). `loc`
is the tree of items. `RequestTrade`, `AcceptFirst`, `AcceptFails`, `AcceptCrashes`, `Transfer` and
`CloseTrade` are the handlers; `down` is the null pointer that `AcceptCrashes` follows (section 5); `MoveItem`, `Walk` and `Logout` close trades through
`ClosedByRemoval`, `ClosedByAddition` and `LeavesTrade`, which translate the hooks with
their different audiences: neighbours of a container, spectators of a tile, the owner of an
inventory. `Reachable` asks for no owner, as the code does not: a bag whose window is open can be
offered from, or changed, in the backpack of somebody else. `offered` and `agreed` are histories: what
an offer was when it was made, and when it was accepted. `Look` is what `Item::equals` compares. Stack counts, slots and capacity are
abstracted to whether the receiver has room (`"slot"`) or only room on a stack, which the
tests accept and the moves do not.

**Party** (`party.cpp`, `game.cpp` 6944-7075, `player.cpp`). The state is one record because
one call makes others: leaving passes the leadership and may disband; a logout clears every
invitation, each of which may disband a party. Script hooks may veto a handler, which then
changes nothing, except on an invitation that has already made a party; `onDisband` is off
in the shipped `events.xml`. Shared experience: `standing` is where a player is and at which
level, `ticks` the note a party keeps of the last heal, which is recent, old or missing;
`enabled` is recomputed where the code recomputes it, and only there. What disbanding leaves
in the lists of the dead party is not kept, since nobody names it any more. Parties
made by scripts and players with the flag that they gain nothing in a fight are left out.

**Zones** (`zones.cpp`, `zones.h`, the calls of `creature.cpp`, `game.cpp` and `tile.cpp`).
One zone. Its table (`cfg`: kind, policy, flags, triggers, roles and waves of the entries)
is chosen in the initial state. A handler is an operator from a zone to the *set* of zones
it may leave behind, because a trigger resumes the Run frame inside the event that fires it,
and that frame may place creatures, which fire triggers again. `frames` is the bag of
spawn coroutines that sleep in the timer queue, `timers` the timers of the Run frame; both
wake in any order. Bags are functions from what is in them to how often it is. `list` is the bag of entries to spawn, `active` the entry of each tracked
creature, `world` what really stands on the map, which is not the same thing: a zone hears of a
creature's end only where its own tiles are, and while it is active. `unheard` is a history, the
tracked creatures whose end it was not told of. While a boss is in the cooldown of a fight that was cut
short (`"cut"`) the handler takes the fight for one that goes on.

**Market** (`game.cpp` 7237-7645, `iomarket.cpp`). The handlers run on the game thread and
query as they go; only the search for expired offers is left to the database worker, whose
`answers` come back as tasks and may be out of date. `coins` is cash and bank balance,
`items` depot and inbox; `due` is whether an offer has expired. `down` is the crash that
loading an offline buyer leads to. `recorded` counts what is handed to the database worker for the
history; the row itself comes later, and not at all if the server crashes first. The fee is computed in
floating point and cut off, so it may be one less than that of the model. `made` and `raced` are histories.

**Decay** (`game.cpp` 6545-6776 and the moves, `item.cpp`, `itemevents.cpp`). Rings last while they are
worn, torches while they are lit. The entries of the clock are kept with their item, as the
ticks that are left; `eq` is the entry of `decaying_eq`, which finds an entry by its item
alone, so that entries which are out of date stay in the queue. A ring put where another is may be
refused when the other is off. `worn` and `rested` are histories.

## 3. Runs

| run | instance | distinct states | shows |
|---|---|---|---|
| `dispatcher` | one producer, owner and worker; two plain tasks, one of which may expire; the three closing tasks | 37k | safety, that it implements `TaskQueue`, every accepted task finishes, `join` returns |
| `database` | 3 queries, 2 with callbacks, one flush before the shutdown | 126k | each query once, what `flush` leaves, how far the order deviates, every accepted query is run |
| `database_join` | the same | violation | `join` may never return (section 5) |
| `scheduler` | 3 events of 2 threads, ids 0 and 1 | 244k | one owner per task, no stale entries, what may be lost, when the id is read from a live task, every event ends |
| `connection` | 2 messages, 1 packet | 363k | operations do not overlap, order, release, graceful close, silent clients are dropped, closed connections end |
| `session` | 3 connections, 3 characters, one of them premium, room for two | 603k | links agree, the pool is served, nobody is forgotten, the queue is respected |
| `session_cap` | the same | violation | a premium client comes in on a full server (section 5) |
| `trade` | 3 players; bag, box in it, coin; 3 places | 452k | trades stay two-sided, offers unchanged and traders near, an accepted offer stands until the transfer |
| `party` | 3 players, 2 parties, 2 members, 2 invitations, 3 places, 2 levels | 255k | both sides of membership and invitation agree, nothing is left over, experience is shared fairly |
| `zones` | one zone of every kind, policy and flag; 2 entries, 3 creatures, 2 players | 1531k | no entry doubled, none lost but with a creature the zone did not see end, one boss, quiet while watched |
| `market` | 2 players, 2 offers, 2 overlapping expiry checks | 288k | no debt, every unit accounted for, nothing lost or made up, expired offers are settled |
| `decay` | 2 rings, a torch, 2 ticks | 517k | what is worn is on the clock, for as long as it lasts, only that goes, and it does |

Several properties are conjunctions of named parts that belong together: `Owned`
(`OneOwner`, `NoStaleEntry`), `WritesInTurn` (`OneOperation`, `WrittenInOrder`), `TwoSided`
(`PartnersMutual`, `RegistryExact`), `OffersKept` (`OffersApart`, `OfferUnchanged`),
`BothSidesAgree` (types, `MembershipMutual`, `InvitationsMutual`), `NothingLeftOver`
(`NoIdleParty`, `OfflineIsGone`), `EntriesKept` (types, `NoneTwice`, `NoneLost`,
`NoneHeldBack`). The type invariants of `Dispatcher`, `DatabaseTasks`, `Scheduler`,
`Connection` and `Trade` are theorems and not run; those of `Session` and `Decay` are proved
as far as the other proofs need them.

Why the bounds are enough:

- *Dispatcher.* Two tasks make a batch, a list behind it and an empty list, the cases
  `do_signal` tells apart; with the three closing tasks up to five tasks are in
  flight. Three threads post: a network thread, the closing thread and tasks themselves.
  More threads and tasks are covered by the proofs.
- *Database.* Three queries: one in the worker's hand, one in the flusher's, one in the
  deque. `MaxFlush` is 1 because a shutdown drains the deque a second time, so two threads
  that drain one after the other occur.
- *Scheduler.* With ids 0 and 1 and three events each id is used and one is reused while
  its owner may still wait.
- *Connection.* The second message finds the first in the queue; the third would find the
  same. One packet is enough for each outcome of its body, and the next header is awaited
  after it.
- *Session.* Three clients are one that plays, one that takes over and one that waits; room
  for two makes a full server with somebody on the waiting list. A slot is used again, so
  runs are not bounded in length. `MaxChains` lets two chains of `sendAll` go on at once.
- *Trade.* The third player is the bystander who takes an item away or whose trade a move
  closes, or who carries somebody else's offer. The bag in which a box lies gives offers inside offers. The distances 1, 2 and 3
  are those the code compares (1 for items, 2 for players).
- *Party.* A leader who leaves with one member and with two, and a player invited by two
  parties at once, occur. The third place is out of range of the first, and one level is
  too low for the other. A party of three players is full but nobody is left to be
  refused by it: the refusals of a full party are translated and not exercised.
  `MaxParties` bounds a counter, `Sharing` names the party whose members heal.
- *Zones.* Two entries are a master and its minion, two waves, or two that are alike; with three
  creatures one can be in the world and untracked. `ForcedNaps` is 2 where the code counts
  to 5: the frame gives up after some and not at once. `MaxSleepers`, `MaxTimers`
  and `MaxWave` bound frames, timers and the wave counter, in guards.
- *Market.* Two offers, of one player or of both; the second check overlaps the first.
  An amount of 2 can be accepted in part. With `Coins` of 5 a player can pay for one purchase offer
  and its fee but not for two.
- *Decay.* Two rings are swapped for each other. A ring of two ticks can be taken off unused,
  half used and at the very end, with a stale entry on the clock in each case.

Players in `trade` and `party` and protocols in `session` are interchangeable, hence the
symmetry; these runs check safety only. `CHECK_DEADLOCK FALSE` is set where the system may
stop: a closed queue, a destroyed connection, events that are all over,
a zone that is `wild` (section 5). The other runs are checked for deadlock.

### Fairness

- *Dispatcher, DatabaseTasks.* A thread inside a call, or in `threadMain`, keeps running
  (weak fairness). Taking the mutex is strongly fair: the lock is released and taken again
  and again, and each waiter gets it in the end, which no standard promises but every
  implementation of `std::mutex` the server runs on gives in practice. Nothing is assumed
  about who posts, flushes or stops, nor about spurious wakeups. `setGameState` and
  `Game::shutdown` make the calls that follow in their code.
- *Scheduler.* The io thread and the game thread run, `addEvent` returns, timers expire.
- *Connection.* Handlers and expired timers run; an operation on a closed or broken socket
  fails. A read or a write on a healthy socket is **not** fair: a client may stay silent or
  never read. `ClosedEnds` therefore names the one case in which a closed connection does
  not end, a last write that a client holds up for ever, whose timeout calls
  `close()`, which does nothing by then (`connection.cpp:371-382`, `50-53`).
- *Market.* The expiry check is an event that asks for itself again (as long as
  `check_expired_each_minutes` is not 0); the worker and the game thread run. Nothing is
  assumed about players.
- *Decay.* The cycles are timers of the game thread. Time is strongly fair: a player who
  keeps putting a ring on and taking it off fills the pre-cache, and a tick waits for
  the cycles, but the clock does not stand still for it. `WornOut` assumes nothing about the
  player and is about rings that stay on.

`Session`, `Trade`, `Party` and `Zones` state safety only, without fairness: what happens
next is up to the players, or, for a zone, to frames whose waking the model leaves open.

### Mutants

Each property of each passing run has a mutant: a mapped definition with a plausible bug (a signal
after the push, a handler that forgets one side, a missing reset). The mutants are the definitions
whose names end in `Mutant`; nothing in the specifications uses them.

## 4. Proofs

Proved for all values of the constants that satisfy the `ASSUME` of the module:

| theorem | property |
|---|---|
| `DispatcherTypes`, `DispatcherNoLostWakeup`, `DispatcherFifoNoLoss`, `DispatcherLockDiscipline`, `DispatcherNothingAfterTerm`, `DispatcherOrderlyExit` | the six invariants of the dispatcher |
| `DispatcherImplementsTaskQueue` | every step of the dispatcher is a step of `TaskQueue` or a stutter |
| `DatabaseTypes`, `DatabaseNoLostWakeup`, `DatabaseOnceOrOwed`, `DatabaseReorder`, `DatabaseFlushLeavesInHand` | all safety of the database worker |
| `SchedulerTypes`, `SchedulerOwned`, `SchedulerLosesNothing`, `SchedulerReadsLive` | all safety of the scheduler |
| `ConnectionTypes`, `ConnectionReleasedLast`, `ConnectionWritesInTurn`, `ConnectionGracefulClose` | all safety of a connection: one operation at a time, messages in turn, the release last, a graceful close only behind the last message |
| `TradeTypes`, `TradePartnersMutual`, `TradeRegistryExact`, `TradeTwoSided` | trades are two-sided and the registry is exact |
| `TradeOffersKept`, `TradeTradersNear`, `TradeAcceptedOfferStands` | an offer that no third player carries stays what it was at every depth, and near; the partners stay near; what a player has accepted is what the partner goes on offering |
| `MarketTypes`, `MarketHistoryAccounts`, `MarketGoodsKept` | the tables of the market, its history of every unit, and the conservation of coins and items |
| `SessionLinkedBothWays`, `SessionNobodyForgotten`, `SessionAutosendServed` | client and player know each other or neither does; who logs in is heard; who plays is served |
| `PartyBothSidesAgree`, `PartyNothingLeftOver`, `PartySharedFairly` | all safety of parties: both sides agree, nothing is left over, experience is shared fairly |
| `ZonesEntriesKept`, `ZonesOneMaster`, `ZonesQuietWhileWatched` | all safety of zones: no entry is doubled, none is lost but with a creature whose end the zone was not told of, there is one boss, nothing is spawned under a player's eyes |
| `DecayCounted`, `DecayOnlyWornGo`, `DecayLastsAsLong` | all safety of decay |

Assumptions: the named tasks, threads and players are distinct from each other and from the null
values; the homes of the items exist, and no bag lies in itself, at any depth (`Rooted`: every
set of items has one whose place is outside of it, which the tree of `Item::parent` is);
players, items and places are different things; players are finitely many where they are counted (Party, Market), the
amounts of the market are 1 to some `MaxAmount`; the null value is no number. A zone's table
is what `ParseZoneEntry` makes of a file (`zones.cpp` 2141-2204): one master at most, which like the
minions is in no wave; entries are finite in number, and a nap is allowed at least once. Nothing is assumed about how
many tasks, messages, players, items or offers there are, nor about how far the id counter,
a ring's duration or a price goes.

The arguments:

- *Dispatcher.* `NoLostWakeup` is inductive with the types: only the push into an empty list
  makes the list non-empty, and its caller is then at `"notify"`. `FifoNoLoss` needs
  `BatchInv` (outside a batch the temporary list is empty), so that the swap loses nothing.
  `NothingAcceptedAfterTerm` is about three tasks that must come in order, so it needs
  `CallInv` (a task in a call has been made and has not been accepted, and no two calls hold the same task)
  and `ClosingInv` (while the dispatcher is `RUNNING` the final task exists only during the
  closing task that made it, and the termination task does not exist): together `QueueInv`.
  `OrderlyExit` adds `ExitInv`: once `TERMINATED` is stored nothing is left but, perhaps, the
  termination task, because it was accepted last. The refinement maps `pending` to what follows the current task; its
  step lemma uses `QueueInv` for the uniqueness of tasks.
- *Database.* `HandInv` ties `hand` to the program counters. The deque is the suffix of
  `accepted` of its length (`SuffixInv`), and what stands before that suffix is exactly what
  has been executed, each query once, or is in a hand (`OwnerInv`); with `ArgInv` (a query in a call is fresh)
  these give `OnceOrOwed`, `ReorderOnlyInHand` and the action property of `flush`.
- *Scheduler.* `OneOwner` counts places, and a count is awkward in a proof. `PlaceInv` says it
  task by task: a task that exists is in one of the places and in no second one, its handler is in
  the queue once, and its timer, if it has one, is under its id. Lemmas say what
  appending to a queue, taking its head and filtering do to "in it" and "in it once".
- *Connection.* `FreshInv` says that an object which has not been accepted has done nothing.
  `PendingInv` says that the strand and the socket together hold at most one completion of a
  read, and one of a write just while there are messages. `OneOperation` follows, and with it the order: the
  message that is written is the head of the queue all the while. `GracefulClose` is an action
  property and needs only the types: a case for each way to `CloseNow`.
- *Session.* `LinkInv` strengthens the two-sided link by what makes it inductive: a connection
  posts its login first and its release last (`PostedInOrder`), before its login a protocol
  has no player and no event (`FreshLogin`), and an event is of a protocol without a player
  (`FreshEvent`). A take-over then cannot meet an old link of the protocol that comes in.
  `PoolInv` adds that a protocol which has, or will have, a player over an open connection
  is buffered: it may leave the pool only by its release, which comes after the close.
- *Trade.* `TradeInv` is the conjunction of the first three properties. The lemma `CloseStep` shows
  that closing the trades of *any* set of players preserves it, so the hooks only have to
  yield a set of players. What an offer holds is recursive over the tree of items. `Rooted` is an
  invariant (a step that moves an item moves it under nothing of its own), and gives induction along the tree:
  the recursive functions have a value everywhere, and it satisfies their equation. `OfferInv` then
  adds to `TradeInv` that nothing under an offer has changed and that those whose offer no third player
  carried (`Keepers`) have it at hand, out of everybody else's inventory (`AtHand`): a step that
  changes anything at or under such an offer, or moves it or its trader, is one whose hooks close that trade. What a
  player has accepted is then what was offered (`Agreement`), because a counter-offer is made once, and
  before its maker accepts.
- *Party.* `PartyInv` says one thing of each party: if its leader names it (`Led`), it lists exactly
  those who name it, knows those it invites (`Known`) and is not empty; if not, it holds
  nothing and nobody knows it (`Bare`). The flag is right (`Shared`). The three
  properties follow. One call makes others, so a lemma follows each method from any
  state to the next: what it makes of the party it is called for, that the other parties see nothing of it (`Others`),
  and, of what only takes away, that nothing is new (`Fewer`), which is all that players who
  are offline need. A logout folds over the parties that invited the player: the list of that player counts no
  more while it is cleared, so the lemmas name the players whose own list counts (`Q`). The value of the fold
  is the least relation closed under its steps (`SolutionExists`), and what is left after any set of
  parties has forgotten the player follows by the smallest set for which it does not.
- *Market.* Coins and items are sums over players, offers and answers. The lemmas of the first
  part of `MarketProofs` count a sum as a set of units, `{<<x, n>> : n \in 1 .. f[x]}`, so that the
  theorems about cardinalities say what a sum becomes when one value changes, a row is
  removed or added, or a set falls into two parts. `MarketInv` is `Tables` (the ids of a table's rows
  differ, and the rows of an answer `Agree` with the offers as long as nothing has raced), `Records` (the
  history accounts for every unit of every offer made, and has nothing of the offers to come) and
  `GoodsKept` itself; the first two imply that what is paid back or paid out was held.
- *Zones.* Between two actions `ZoneInv` holds (checked by TLC before it was proved), but a handler runs through
  states in which it does not: an entry has left the list and is not yet in the map, or a monster
  has been placed and is not yet tracked. So the proof is about `Good(z, x, H, W)`, which says of a zone in
  the middle of a handler what is so if the entries `H` are in hand, the monster `x`
  has just died or been placed, and the monsters `W` were away when the event began. Its parts: `Kept` (an
  entry that is in hand or in the list is nowhere else, and any other is in one place, as far as the
  policy guards it: `Guarded`), `Listing` (the list has each guarded entry once), `Linked`
  (the master is the monster of the master's entry) and
  `Calm` (in a quiet zone with players none of `W` has appeared). `EntriesKept` alone is not inductive, since it says
  neither what a frame that sleeps will do, nor that a monster which dies is tracked under the
  entry it was made from. There is one lemma per handler, and a trigger is followed into
  the Run frame it resumes. The walks over a list are folds; `ClosedWalk` is the least
  relation closed under their steps, which gives the fold a value (`WalkExists`) and shows that what each step
  preserves the walk preserves (`WalkKeeps`). That an entry comes back needs more than its one place, which
  may be a creature that is no more: no handler comes to track a creature that is not in the world (`Aware`),
  so whatever is tracked is in the world or `unheard` (`Recorded`). With `W` the monsters that are away before a
  step, the same lemma about `Next` proves the action property.
- *Decay.* No step looks at two items but a swap, which does to each what putting on and
  taking off do; so the invariant is per item: `RingOK` or `TorchOK`, with one lemma per operation.
  For the duration `TimeOK` is added: neither the duration that is stored nor any
  entry that counts promises a ring more than it has left, and a ring that has never
  been taken off has one entry, which promises exactly that. Entries that are out of date
  may promise anything: what is looked up is the one of `decaying_eq`.

Only model-checked:

- liveness (`AcceptedFinishes`, `JoinReturns`, `AcceptedRuns`, `EventSettles`, `ClosedEnds`,
  `SilentDropped`, `ExpiredSettles`, `WornOut`): fairness and `ENABLED` are beyond the prover;
- `QueueRespected` of the session: it speaks of a filtered deque (`SelectSeq`), of which
  the prover knows only the type.

An operator that takes an operator cannot be instantiated by the prover, and so the induction
theorems of the library cannot be used as they stand. Their forms over *sets* can (a non-empty
set of subsets has a smallest element), which is how the sums and the trees are handled.

## 5. Where code and documentation disagree

Two runs show a violation:

- **`database_join`.** `DatabaseTasks::threadMain` tests the state without the lock
  (`databasetasks.cpp:20`) and waits without testing it again (22-24). `shutdown()` between
  the two stores `TERMINATED` and sends its only notification, which is lost, and
  `main()` waits in `join()` for ever, although `signals.cpp:114` speaks of blocking "until
  all threads have joined". The dispatcher does not have this flaw, because its shutdown is
  a task: `JoinReturns` holds there.
- **`session_cap`.** A premium client that joins the waiting list gets
  `std::distance(waitList.begin(), priorityEnd)` as its slot (`protocolgame.cpp:134`), which is 0
  at the front, and `login()` takes 0 for permission (224). So it comes in on a full server,
  against `max_players` of `config/server.toml`, and its entry stays on the list.

Met while modelling, translated as the code does it, without a run of their own:

- *Connection.* When the write of a gracefully closed connection fails, `onWriteOperation`
  empties the queue and calls `close(FORCE_CLOSE)`, which returns at once because `closed` is
  set; `connection.cpp:67` says that the socket is closed once the queue drains. The destructor
  closes it in the end.
- *Database.* `flush()` is not a barrier: `FlushLeavesInHand` says exactly what may remain
  when it returns, one query in each other runner's hand.
- *Trade.* `isHoldingItem` compares with `Item::equals` (`itemcontainer.cpp:298`), so "This item
  is already being traded." is said of an item that merely looks like one in an offer.
  `playerRequestTrade` does not ask in whose inventory the item lies (`game.cpp:3950-3968`): a bag that is open
  in front of a player stays open when a neighbour picks it up into a backpack (`player.cpp:3941-3986`), and
  what lies in it can still be offered. The neighbour then walks off with the offer, or changes it
  out of the trader's sight, and no hook closes the trade; `OffersKept` and `TradersNear` except such
  an offer (`Borrowers`), and `AcceptedOfferStands` promises nothing of it. A player may accept before there is any counter-offer, and is not
  asked again when one comes. If both accept and there is only one offer, the backpack its player wears,
  the missing one is looked up through a null pointer (`game.cpp:4098-4105`). The result of the second
  move of a transfer is not looked at (4121): one offer may change hands alone.
- *Party.* A member who leaves keeps the note of the last heal, since `leaveParty` clears it
  after `setParty(0)` (`party.cpp:147`). Only healing a partner makes a note, while the
  comment at 487 speaks of attacking too.
- *Zones.* A fixed zone that is not passive stays paused once its last player has left and
  loses every entry whose creature dies then (`zones.cpp:397`), so `NoneLost` and
  `NoneHeldBack` are stated of passive ones. These lose an entry too: a creature that dies or is removed on a tile
  outside of the zone (`creature.cpp:669`, `game.cpp:675-691`), or while the zone is not active
  (`zones.cpp:333`), stays in `active_creatures` for ever, and its entry is never spawned again; `NoneLost`
  says that no other is lost. Triggered zones respawn by delay as well, unlike
  the comments of the example scripts (`examples/zones/`), and a boss cooldown may be skipped.
  A Run frame that ends with a timer or an event still to come is resumed after it has been freed:
  the zone is `wild` from then on, and the model goes no further.
- *Market.* Who accepts a purchase gives the items to his own inbox (`game.cpp:7547`); an
  offline buyer is loaded through a null pointer (7521), which is `down`; an expired offer is
  paid back by the amount of the worker's answer, even if part of it has been accepted since
  (`iomarket.cpp:105`). `GoodsKept` is exact about that one race.
- *Decay.* A ring taken off at the moment it expires keeps a duration of 0, and is never on
  the clock again; a torch that has been put out keeps `DECAYING_TRUE` and burns for ever when
  lit again. `Counted` and `LastsAsLong` name both.

## 6. Not modelled, and why

Left for further work, in this order:

1. **ZonePool** (`zones.h` 215-640, `zones.cpp` 305-311): slots, generations and the reload, after
   which a sleeping frame takes a zone of the new pool for its own. The timer queue with its instants.
2. **Lifecycle** (`otserv.cpp` 243-294, `game.cpp` 139-215, 6727-6750): the composition of
   Dispatcher, Scheduler and DatabaseTasks over the game states; the loader signal; the service ports.
3. **Player events** (`player.cpp` 2290-2320, 4340-4420): walk and action events whose ids
   outlive them. Then creature checks, raids, house transfer, item moves with stacks, chat and guilds.

Abstracted inside the modelled parts: the instants of timers (Scheduler, Zones), stack
counts, slots and which windows are open (Trade), the difference between cash and bank and a crash between memory and
database (Market), time that passes offline and the wrap of the millisecond clock (Decay),
the contents of messages and buffers (Connection, Session).

Left out for good: combat and condition arithmetic, monster heuristics, map geometry and
path finding, SQL and file formats, Lua bindings, cryptography, the vendored libraries. They
are most of the lines of this repository, and large computations without a protocol between
actors, or input and output; TLC would check the model of a table, not of the program.
