------------------------------- MODULE Zones -------------------------------
(***************************************************************************)
(* One spawn zone of zones.cpp: its entries, the creatures it tracks, its  *)
(* Run coroutine and the spawn coroutines that sleep in the timer queue.   *)
(* Everything runs on the game thread, but not one call after the other:   *)
(* a trigger resumes the Run frame inside the event that fires it, and a   *)
(* timer resumes a sleeping frame whatever has happened since it slept.    *)
(*                                                                         *)
(* A handler is an operator from a zone to the set of zones it may leave   *)
(* behind: a placement may fail, and a chance test may.                    *)
(***************************************************************************)
EXTENDS Naturals, FiniteSets, FiniteSetsExt

CONSTANTS Entries,     \* the SpawnCreature records of the zone
          Monsters,    \* the creatures that can be in the world at a time
          Players,
          Configs,     \* the zones to choose from, see ConfigOK
          ForcedNaps,  \* 5 in SpawnMonsterFixed
          MaxSleepers, \* bound on the frames asleep at a time
          MaxTimers,   \* bound on the timers of the Run frame
          MaxWave,     \* bound on current_wave
          Nothing

Roles == {"plain", "master", "minion"}

\* What a zone's table may say: at most one master, waves only when staged, and
\* neither the master nor the minions in a wave (0: the entry belongs to none).
ConfigOK(c) ==
    /\ c.kind \in {"monster", "boss", "npc"}
    /\ c.policy \in {"fixed", "relative", "staged", "triggered"}
    /\ {c.passive, c.forced, c.positional, c.interval, c.scheduled} \subseteq BOOLEAN
    /\ c.again \in {"rebootable", "resumable", "neither"}
    /\ c.trigger \in {"Enter", "Death", "Other"}
    /\ c.minions \in {"none", "despawn", "finish", "independent"}
    /\ c.role \in [Entries -> Roles] /\ c.wave \in [Entries -> 0 .. MaxWave]
    /\ \A e \in Entries : c.role[e] # "plain" => c.wave[e] = 0
    /\ Cardinality({e \in Entries : c.role[e] = "master"}) <= 1

ASSUME ZonesAssumption ==
    /\ \A c \in Configs : ConfigOK(c)
    /\ IsFiniteSet(Entries)
    /\ {ForcedNaps, MaxWave} \subseteq Nat \ {0} /\ MaxTimers \in Nat
    /\ Nothing \notin Entries \cup Monsters \cup (Monsters \X Entries)

VARIABLES
    cfg,     \* policy, flags and entries: never change once the zone is registered
    zone,    \* everything else, see ZonesTypeOK
    unheard  \* history: the tracked creatures whose end the zone was not told of
zonesVars == <<cfg, zone, unheard>>

(* Bags: functions to numbers of copies, written out for the proofs. *)
IsBag(b, S) == DOMAIN b \subseteq S /\ b \in [DOMAIN b -> Nat \ {0}]
BagOf(S) == [x \in S |-> 1]
Empty == BagOf({})
Copies(b) == UNION {{x} \X (1 .. b[x]) : x \in DOMAIN b}
Count(b, x) == IF x \in DOMAIN b THEN b[x] ELSE 0
Merged(b, c) == [x \in DOMAIN b \cup DOMAIN c |-> Count(b, x) + Count(c, x)]
Added(b, x) == Merged(b, BagOf({x}))
Taken(b, x) ==
    [y \in {d \in DOMAIN b : d # x \/ b[d] > 1} |-> IF y = x THEN b[y] - 1 ELSE b[y]]

Is(kind, policy) == cfg.kind = kind /\ cfg.policy = policy
Wave(n) == {e \in Entries : cfg.wave[e] = n}
ByRole(z, r) == {e \in DOMAIN z.list : cfg.role[e] = r}
Tracked(z) == {m \in Monsters : z.active[m] # Nothing}
TrackedBag(z) ==
    [e \in {z.active[m] : m \in Tracked(z)} |-> Cardinality({m \in Tracked(z) : z.active[m] = e})]

(* Small changes of a zone. *)
Listed(z, e) == [z EXCEPT !.list = Added(@, e)]
ForgottenMutant(z, m) == z
Forgotten(z, m) == [z EXCEPT !.active[m] = Nothing]
Join(z, p) == [z EXCEPT !.players = @ \cup {p}]
Quit(z, p) == [z EXCEPT !.players = @ \ {p}]
Asleep(z, f) ==
    IF Cardinality(Copies(z.frames)) < MaxSleepers THEN {[z EXCEPT !.frames = Added(@, f)]} ELSE {}

\* A coroutine that spawns an entry; "at" is where it goes on when it wakes.
Frame(e, startup) == [entry |-> e, at |-> "top", startup |-> startup, naps |-> 0]
DelaySpawn(z, e) == Asleep(z, Frame(e, FALSE))

(***************************************************************************)
(* Spawning.  It ends with <<m, e>> in z.placing when monster m is placed  *)
(* for entry e: the game triggers Enter for the monster before the zone    *)
(* tracks it, which the zone ignores while it dispatches an event itself.  *)
(***************************************************************************)
\* TryMonsterSpawn: an id is never used twice, so one that nobody remembers.
TrySpawn(z, e) ==
    LET fresh == {m \in Monsters : z.world[m] = Nothing /\ z.active[m] = Nothing /\ z.master # m}
    IN  IF fresh = {} THEN {}
        ELSE {[z EXCEPT !.placing = <<CHOOSE m \in fresh : TRUE, e>>]}

SpawnOrSleep(z, f) ==
    TrySpawn(z, f.entry) \cup Asleep(z, [f EXCEPT !.at = "top"])

\* A passive zone spawns at once only while it tracks no player.
MaySpawnMutant(z) == TRUE
MaySpawn(z) == ~cfg.passive \/ z.players = {}

\* SpawnMonsterFixed behind its startup branch: the chance test, and what a
\* passive zone does while a player is inside.
FixedDraw(z, f) ==
    Asleep(z, [f EXCEPT !.at = "top"]) \cup
    (IF MaySpawn(z) THEN SpawnOrSleep(z, f)
     ELSE IF ~cfg.forced THEN {Listed(z, f.entry)}
     ELSE IF f.naps < ForcedNaps THEN Asleep(z, [f EXCEPT !.at = "nap"])
     ELSE SpawnOrSleep(z, f))

FixedTop(z, f) ==
    IF z.paused THEN {Listed(z, f.entry)}
    ELSE IF f.startup /\ cfg.passive /\ cfg.positional
         THEN TrySpawn(z, f.entry) \cup Asleep(z, [f EXCEPT !.at = "draw"])
         ELSE FixedDraw(z, f)

FixedNap(z, f) ==
    IF f.naps + 1 < ForcedNaps THEN Asleep(z, [f EXCEPT !.naps = @ + 1])
    ELSE SpawnOrSleep(z, [f EXCEPT !.naps = @ + 1])

\* The relative spawns need a player to place the creature at.
RelativeTop(z, f) ==
    IF z.players = {} \/ (cfg.kind = "monster" /\ z.paused) THEN {Listed(z, f.entry)}
    ELSE SpawnOrSleep(z, f)

NpcTop(z, f) ==
    TrySpawn(z, f.entry) \cup
    (IF cfg.interval THEN Asleep(z, [f EXCEPT !.at = "top"]) ELSE {z})

\* Zone::Spawn, and a frame that goes on from where it slept.
Spawn(z, f) ==
    CASE cfg.kind = "npc" -> NpcTop(z, f)
      [] Is("monster", "fixed") ->
            (CASE f.at = "top" -> FixedTop(z, f)
               [] f.at = "draw" -> FixedDraw(z, f)
               [] f.at = "nap" -> FixedNap(z, f))
      [] cfg.kind # "npc" /\ cfg.policy = "relative" -> RelativeTop(z, f)
      [] OTHER -> SpawnOrSleep(z, f)

\* A spawn inside a dispatch.
Placing(z) ==
    IF z.placing = Nothing THEN z
    ELSE [z EXCEPT !.world[z.placing[1]] = z.placing[2],
                   !.active[z.placing[1]] = z.placing[2], !.placing = Nothing]
Spawned(z, f) == {Placing(y) : y \in Spawn(z, f)}

\* An entry is begun at startup, at once, or after a delay that may be 0.
Begun(z, e, how) ==
    (IF how = "delayed" THEN DelaySpawn(z, e) ELSE {})
    \cup Spawned(z, Frame(e, how = "startup"))

\* Each copy of each entry of a bag is begun.
EachBegun(z, todo, how) ==
    FoldSet(LAMBDA c, zs : UNION {Begun(y, c[1], how) : y \in zs}, {z}, Copies(todo))

\* ProcessCreatures walks the list and clears it: what the walk has put back
\* is gone.  (The list grows under the walk: undefined, at best this.)
SpawnListed(z, how) == {[y EXCEPT !.list = Empty] : y \in EachBegun(z, z.list, how)}
ProcessCreatures(z) == SpawnListed(z, "at once")

(***************************************************************************)
(* onTrigger of the monster zones (RunMonster...): players, then monsters. *)
(***************************************************************************)
Woken(z) == ProcessCreatures([z EXCEPT !.paused = FALSE])

FixedLeave(z) ==
    CASE cfg.passive -> IF z.players = {} THEN Woken(z) ELSE {z}
      [] ~cfg.passive -> {[z EXCEPT !.paused = @ \/ z.players = {}]}

FixedOnPlayer(z, p, t) ==
    LET gone == Quit(z, p)
        held == [Join(z, p) EXCEPT !.paused = @ \/ ~cfg.forced]
    IN CASE t = "Enter" /\ cfg.passive -> {held}
         [] t = "Enter" /\ ~cfg.passive ->
                IF z.players = {} THEN ProcessCreatures(Join(z, p)) ELSE {Join(z, p)}
         [] t = "Leave" -> FixedLeave(gone)
         [] t = "Death" ->
                IF cfg.passive /\ gone.players = {} /\ z.list # Empty
                THEN Woken(gone) ELSE {gone}
         [] OTHER -> {z}

FixedOnMonster(z, m, t) ==
    LET free == Forgotten(z, m)
    IN IF t \notin {"Death", "Despawn"} \/ m \notin Tracked(z) THEN {z}
       ELSE IF cfg.passive = (z.players = {}) THEN DelaySpawn(free, z.active[m])
       ELSE {Listed(free, z.active[m])}

RelativeOnPlayer(z, p, t) ==
    LET gone == Quit(z, p)
    IN CASE t = "Enter" ->
                IF z.players = {} THEN ProcessCreatures(Join(z, p)) ELSE {Join(z, p)}
         [] t \in {"Leave", "Death"} -> {[gone EXCEPT !.paused = @ \/ gone.players = {}]}
         [] OTHER -> {z}

RelativeOnMonster(z, m, t) ==
    LET free == Forgotten(z, m)
    IN IF t \notin {"Death", "Despawn"} \/ m \notin Tracked(z) THEN {z}
       ELSE IF z.players # {} THEN Spawned(free, Frame(z.active[m], FALSE))
       ELSE {Listed(free, z.active[m])}

NoneActive == [m \in Monsters |-> Nothing]
Rewound(z) == [z EXCEPT !.active = NoneActive, !.wave = 1]

StagedEnter(z) ==
    LET y == IF cfg.again = "rebootable" THEN Rewound(z) ELSE z
    IN IF Wave(y.wave) # {} /\ y.list = Empty
       THEN ProcessCreatures([y EXCEPT !.list = BagOf(Wave(y.wave))])
       ELSE IF cfg.again = "resumable" THEN ProcessCreatures(y) ELSE {y}

StagedOnPlayer(z, p, t) ==
    LET gone == Quit(z, p)
    IN CASE t = "Enter" ->
                IF z.players = {} THEN StagedEnter(Join(z, p)) ELSE {Join(z, p)}
         [] t \in {"Leave", "Death"} ->
                IF gone.players # {} THEN {gone}
                ELSE IF cfg.again = "resumable" THEN {[gone EXCEPT !.paused = TRUE]}
                ELSE {[Rewound(gone) EXCEPT !.list = Empty]}
         [] OTHER -> {z}

NextWave(z) == [z EXCEPT !.wave = IF @ < MaxWave THEN @ + 1 ELSE @]

StagedOnMonster(z, m, t) ==
    LET free == Forgotten(z, m)
        next == NextWave(free)
    IN IF t \notin {"Death", "Despawn"} \/ m \notin Tracked(z) THEN {z}
       ELSE IF Tracked(free) # {} \/ z.list # Empty \/ z.players = {} THEN {free}
       ELSE IF Wave(next.wave) = {} THEN {next}
       ELSE ProcessCreatures([next EXCEPT !.list = BagOf(Wave(next.wave))])

TriggeredOnMonster(z, m, t) ==
    IF t \in {"Death", "Despawn"} /\ m \in Tracked(z)
    THEN DelaySpawn(Forgotten(z, m), z.active[m]) ELSE {z}

\* The configured trigger counts for every creature that fires it.
Configured(z, t) == IF t = cfg.trigger THEN ProcessCreatures(z) ELSE {z}

(***************************************************************************)
(* onTrigger of the boss and NPC zones.  A boss waits for a player, then   *)
(* fights; "started" and "over" are the flags the frame reads when it goes *)
(* on.  In the cooldown the handler of the fight is still registered, and  *)
(* while it lasts after a fight that was cut short bossCycleEnded is unset. *)
(***************************************************************************)
BossOnPlayer(z, p, t) ==
    LET seen == CASE t = "Enter" -> Join(z, p)
                  [] t \in {"Leave", "Death"} -> Quit(z, p)
                  [] OTHER -> z
        starts == IF cfg.policy = "triggered" THEN t = cfg.trigger
                  ELSE t = "Enter" /\ z.players = {}
    IN {IF z.run = "wait" /\ starts THEN [seen EXCEPT !.run = "started"] ELSE seen}

\* bossCycleEnded = true
Over(z) == [z EXCEPT !.run = CASE @ = "fight" -> "over" [] @ = "cut" -> "cooldown" [] OTHER -> @]

HandleMasterDeath(z, e) ==
    LET back == CASE cfg.minions \in {"despawn", "finish"} -> TrackedBag(z)
                  [] OTHER -> Empty
        left == IF cfg.minions = "none" THEN z.active ELSE NoneActive
        world == IF cfg.minions # "despawn" THEN z.world
                 ELSE [m \in Monsters |-> IF m \in Tracked(z) THEN Nothing ELSE z.world[m]]
    IN Over(Listed([z EXCEPT !.master = Nothing, !.active = left, !.world = world,
                             !.list = Merged(@, back)], e))

IsMasterMutant(z, m) == m \in Tracked(z)
IsMaster(z, m) == m = z.master

BossOnMonster(z, m, t) ==
    LET e == z.active[m]
        free == Forgotten(z, m)
        fight == z.run \in {"fight", "cut"}
        minion == IF fight THEN Listed(free, e) ELSE free
    IN IF z.run = "wait" \/ t # "Death" \/ m \notin Tracked(z) THEN {z}
       ELSE IF cfg.policy = "staged"
            THEN IF IsMaster(z, m) THEN {Over(Listed([free EXCEPT !.master = Nothing], e))}
                 ELSE IF Tracked(free) = {} /\ fight
                 THEN EachBegun(NextWave(free), BagOf(Wave(NextWave(free).wave)), "delayed")
                 ELSE {free}
       ELSE IF IsMaster(z, m) THEN {HandleMasterDeath(free, e)}
       ELSE IF Tracked(free) = {} THEN {Over(minion)} ELSE {minion}

NpcOnPlayer(z, p, t) ==
    CASE cfg.policy = "fixed" -> {z}
      [] t = "Enter" -> IF z.players = {} THEN ProcessCreatures(Join(z, p)) ELSE {Join(z, p)}
      [] t \in {"Leave", "Death"} -> {Quit(z, p)}
      [] OTHER -> {z}

NpcOnDeath(z, m, t) ==
    IF t # "Death" \/ m \notin Tracked(z) THEN {z}
    ELSE IF cfg.interval THEN DelaySpawn(Forgotten(z, m), z.active[m])
    ELSE {Forgotten(z, m)}

OnPlayer(z, p, t) ==
    CASE cfg.kind = "boss" -> BossOnPlayer(z, p, t)
      [] cfg.kind = "npc" -> NpcOnPlayer(z, p, t)
      [] Is("monster", "fixed") -> FixedOnPlayer(z, p, t)
      [] Is("monster", "relative") -> RelativeOnPlayer(z, p, t)
      [] Is("monster", "staged") -> StagedOnPlayer(z, p, t)
      [] Is("monster", "triggered") -> Configured(z, t)

OnCreature(z, m, t) ==
    CASE cfg.kind = "boss" -> BossOnMonster(z, m, t)
      [] cfg.kind = "npc" -> NpcOnDeath(z, m, t)
      [] Is("monster", "fixed") -> FixedOnMonster(z, m, t)
      [] Is("monster", "relative") -> RelativeOnMonster(z, m, t)
      [] Is("monster", "staged") -> StagedOnMonster(z, m, t)
      [] Is("monster", "triggered") ->
            UNION {TriggeredOnMonster(y, m, t) : y \in Configured(z, t)}

(***************************************************************************)
(* The Run frame: what it does when cb(), or a timer, resumes it.          *)
(***************************************************************************)
\* A fight begins: the master is placed, the minions (or the wave) follow
\* after their delay, which may be 0.
BeginFight(z) ==
    LET masters == ByRole(z, "master")
        followers == IF cfg.policy = "staged" THEN Wave(z.wave) ELSE ByRole(z, "minion")
        cleared == [z EXCEPT !.list = Empty, !.run = "fight"]
        Found(y) == {m \in Tracked(y) : y.active[m] \in masters}
        Named(y) == IF Found(y) = {} THEN {y} ELSE {[y EXCEPT !.master = m] : m \in Found(y)}
        placed == UNION {Named(y) : y \in EachBegun(cleared, BagOf(masters), "at once")}
    IN UNION {EachBegun(y, BagOf(followers), "delayed") : y \in placed}

EndFight(z) ==
    IF z.timers = MaxTimers THEN {}
    ELSE {[z EXCEPT !.players = {}, !.run = IF @ = "over" THEN "cooldown" ELSE "cut",
                    !.timers = @ + 1,
                    !.wave = IF cfg.policy = "staged" THEN 1 ELSE @]}

\* RunMonsterFixed tests for its first spawns whenever its loop comes round.
FixedLoop(z) ==
    IF z.startup /\ cfg.passive /\ z.players = {} /\ z.list # Empty
    THEN SpawnListed([z EXCEPT !.startup = FALSE], "startup") ELSE {z}

\* A frame that ends leaves its timers behind: one will resume what is freed.
Ended(z) == [z EXCEPT !.run = "ended", !.wild = @ \/ z.timers > 0]

Resume(z) ==
    CASE z.run \in {"cooldown", "cut"} -> {IF z.on THEN [z EXCEPT !.run = "wait"] ELSE Ended(z)}
      [] z.run = "started" -> BeginFight(z)
      [] z.run = "over" \/ (z.run = "fight" /\ ~z.on) -> EndFight(z)
      [] z.run = "fight" /\ z.on -> {z}
      [] z.run = "wait" ->
            IF ~z.on THEN {Ended(z)}
            ELSE IF Is("monster", "fixed") THEN FixedLoop(z)
            ELSE IF Is("monster", "staged") THEN {[z EXCEPT !.paused = FALSE]}
            ELSE {z}

\* ZoneOverlay::Trigger: the handler, which ends with cb().  A zone that is
\* switched off hears nothing.
Fire(z, Handler(_)) ==
    IF ~z.on THEN {z}
    ELSE IF z.run = "ended" THEN {[z EXCEPT !.wild = TRUE]}
    ELSE UNION {Resume(y) : y \in Handler(z)}
TriggerPlayer(z, p, t) == Fire(z, LAMBDA y : OnPlayer(y, p, t))
TriggerCreature(z, m, t) == Fire(z, LAMBDA y : OnCreature(y, m, t))

\* A placement outside a dispatch: the Enter of the creature is heard before
\* the zone tracks it.
PlacingAloud(z) ==
    LET m == z.placing[1]
        e == z.placing[2]
    IN  IF z.placing = Nothing THEN {z}
        ELSE {[y EXCEPT !.active[m] = e] :
                 y \in TriggerCreature([z EXCEPT !.world[m] = e, !.placing = Nothing], m, "Enter")}

\* Zone::Run: the frame runs up to its first awaiter.
Run(z) ==
    LET begun == [z EXCEPT !.on = TRUE, !.run = "wait"]
    IN IF Is("monster", "fixed") THEN FixedLoop([begun EXCEPT !.startup = TRUE])
       ELSE IF Is("npc", "fixed") THEN SpawnListed(begun, "startup")
       ELSE {begun}

(***************************************************************************)
(* The actions: what happens in the world, and the timers.                 *)
(***************************************************************************)
Loaded(c) ==
    [on |-> FALSE, paused |-> FALSE, run |-> "none", startup |-> FALSE, spare |-> FALSE,
     list |-> BagOf({e \in Entries : cfg.policy = "staged" => c.wave[e] \in {0, 1}}),
     active |-> NoneActive, world |-> NoneActive, frames |-> Empty,
     players |-> {}, inside |-> {}, timers |-> 0, master |-> Nothing, wave |-> 1,
     placing |-> Nothing, wild |-> FALSE]

\* A zone that a script has activated is run again when the game starts.
ZonesInit ==
    /\ cfg \in Configs
    /\ zone \in Run(Loaded(cfg))
                \cup UNION {Run([z EXCEPT !.spare = TRUE]) : z \in Run(Loaded(cfg))}
    /\ unheard = {}

Happens(zs) == ~zone.wild /\ zone' \in zs /\ UNCHANGED cfg
Becomes(zs) == Happens(zs) /\ unheard' = unheard \cap Tracked(zone')

\* A creature leaves the world, and the zone is told of it or not.
Vanishes(m, zs, told) ==
    /\ zone.world[m] # Nothing
    /\ Happens(zs)
    /\ unheard' = (unheard \cup IF told THEN {} ELSE {m}) \cap Tracked(zone')

PlayerEnters(p) ==
    /\ p \notin zone.inside
    /\ Becomes(TriggerPlayer([zone EXCEPT !.inside = @ \cup {p}], p, "Enter"))

\* Walks out, logs out, or is removed.  A step between two tiles of the zone of
\* which one lies in a second zone too is a leave and an enter, one by one.
PlayerLeaves(p) ==
    /\ p \in zone.inside
    /\ Becomes(TriggerPlayer([zone EXCEPT !.inside = @ \ {p}], p, "Leave"))

PlayerDies(p) ==
    /\ p \in zone.inside
    /\ Becomes(UNION {TriggerPlayer([z EXCEPT !.inside = @ \ {p}], p, "Leave") :
                        z \in TriggerPlayer(zone, p, "Death")})

\* A creature is taken off its tile, and the zone there hears of it.
Removed(z, m) ==
    TriggerCreature([z EXCEPT !.world[m] = Nothing], m,
                    IF cfg.kind = "npc" THEN "Leave" ELSE "Despawn")

CreatureDies(m) ==
    Vanishes(m, UNION {Removed(z, m) : z \in TriggerCreature(zone, m, "Death")}, zone.on)

CreatureRemoved(m) == Vanishes(m, Removed(zone, m), zone.on)

\* Dies, or is removed, where it has been lured: no tile of the zone.
CreatureGone(m) == Vanishes(m, {[zone EXCEPT !.world[m] = Nothing]}, FALSE)

\* A creature fires one of the triggers that no zone waits for unless its
\* table says so, or a monster walks in.
OtherTrigger ==
    Becomes((UNION {TriggerCreature(zone, m, t) :
                      m \in {n \in Monsters : zone.world[n] # Nothing}, t \in {"Enter", "Other"}})
            \cup (UNION {TriggerPlayer(zone, p, "Other") : p \in zone.inside}))

Wake(f) ==
    /\ f \in DOMAIN zone.frames
    /\ Becomes(UNION {PlacingAloud(z) : z \in Spawn([zone EXCEPT !.frames = Taken(@, f)], f)})

RunTimer ==
    /\ zone.timers > 0
    /\ Becomes(Resume([zone EXCEPT !.timers = @ - 1]))

\* Supervise, at midnight.
Deactivate ==
    /\ cfg.scheduled /\ zone.on
    /\ Becomes({[zone EXCEPT !.on = FALSE]})

\* Any frame that is left counts as the Run frame.
Activate ==
    /\ cfg.scheduled /\ ~zone.on
    /\ Becomes(IF zone.run = "ended" /\ zone.frames = Empty /\ ~zone.spare
               THEN Run(zone) ELSE {[zone EXCEPT !.on = TRUE]})

ZonesNext ==
    \/ \E p \in Players : PlayerEnters(p) \/ PlayerLeaves(p) \/ PlayerDies(p)
    \/ \E m \in Monsters : CreatureDies(m) \/ CreatureRemoved(m) \/ CreatureGone(m)
    \/ OtherTrigger
    \/ \E f \in DOMAIN zone.frames : Wake(f)
    \/ RunTimer \/ Deactivate \/ Activate

ZonesSpec == ZonesInit /\ [][ZonesNext]_zonesVars

-----------------------------------------------------------------------------
Frames == [entry : Entries, at : {"top", "draw", "nap"}, startup : BOOLEAN, naps : 0 .. ForcedNaps]

\* The type of the zone: what its fields hold between two events.
ZonesTypeOK ==
    /\ cfg \in Configs
    /\ {zone.on, zone.paused, zone.startup, zone.spare, zone.wild} \subseteq BOOLEAN
    /\ zone.run \in {"wait", "fight", "cooldown", "cut", "ended"}
    /\ IsBag(zone.list, Entries)
    /\ {zone.active, zone.world} \subseteq [Monsters -> Entries \cup {Nothing}]
    /\ IsBag(zone.frames, Frames)
    /\ zone.players \cup zone.inside \subseteq Players
    /\ zone.timers \in 0 .. MaxTimers /\ zone.wave \in 1 .. MaxWave
    /\ zone.master \in Monsters \cup {Nothing} /\ zone.placing = Nothing
    /\ unheard \subseteq Monsters

Quiet == Is("monster", "fixed") /\ cfg.passive

\* The places an entry is in: its copies in the list, the creatures tracked for
\* it, and the frames that sleep for it.
Listings(e) == {"list"} \X {c \in Copies(zone.list) : c[1] = e}
Creatures(e) == {"creature"} \X {m \in Tracked(zone) : zone.active[m] = e}
Sleepers(e) == {"frame"} \X {c \in Copies(zone.frames) : c[1].entry = e}
Places(e) == Listings(e) \cup Creatures(e) \cup Sleepers(e)

\* The list, the tracked creatures and the sleeping frames share the entries out
\* among them: an entry is never in two places, or a monster would be spawned
\* twice (the waves of a staged zone are copied, and exempt).
NoneTwice ==
    \A e \in Entries : cfg.policy # "staged" \/ cfg.role[e] = "master" =>
        \A here, there \in Places(e) : here = there

\* The entry comes back by itself: it is in the list, in a sleeping frame, or out
\* with a creature that is in the world.
ComesBack(e) ==
    \/ Listings(e) \cup Sleepers(e) # {}
    \/ \E m \in Monsters : zone.active[m] = e /\ zone.world[m] # Nothing

\* A passive fixed zone loses an entry only with a creature whose end it was not
\* told of: one that ended on a tile that is not the zone's, or while the zone
\* was switched off.  (Such an entry is lost for good: nothing frees it.)
\* Whatever else dies, wakes or walks in first, the entry comes back.
NoneLost ==
    Quiet => \A e \in Entries : ComesBack(e) \/ \E m \in unheard : zone.active[m] = e

\* While it tracks no player it is not paused and keeps nothing back, whoever has
\* left, and however.
NoneHeldBack == Quiet /\ zone.players = {} => ~zone.paused /\ zone.list = Empty

\* Every entry is where it should be, in a zone of the right shape.
EntriesKept == ZonesTypeOK /\ NoneTwice /\ NoneLost /\ NoneHeldBack

\* A passive zone that is not forced spawns nothing while it tracks a player:
\* not even from a frame that went to sleep before the player came.
QuietWhileWatched ==
    [][Quiet /\ ~cfg.forced /\ (\E m \in Monsters : zone.world[m] = Nothing /\ zone'.world[m] # Nothing)
       => zone'.players = {}]_zonesVars

\* One boss at a time: fights that end early, minions that come late, a
\* cooldown that is cut short or a timer that is left from the last fight never
\* bring a second master into the world.
OneMaster ==
    LET Masters == {m \in Monsters : zone.world[m] # Nothing /\ cfg.role[zone.world[m]] = "master"}
    IN  \A m, n \in Masters : m = n
=============================================================================
