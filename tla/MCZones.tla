------------------------------ MODULE MCZones ------------------------------
(* The zones of the run: one for every policy and every flag that a handler  *)
(* reads, each with two entries.                                             *)
EXTENDS Zones, TLC

CONSTANTS first, second

Alike == [e \in Entries |-> "plain"]
Unstaged == [e \in Entries |-> 0]
Zone(kind, policy) ==
    [kind |-> kind, policy |-> policy, passive |-> FALSE, forced |-> FALSE,
     positional |-> FALSE, interval |-> TRUE, scheduled |-> FALSE, again |-> "neither",
     trigger |-> "Other", minions |-> "none", role |-> Alike, wave |-> Unstaged]

FixedZones ==
    {[Zone("monster", "fixed") EXCEPT !.passive = p, !.forced = f, !.positional = q, !.scheduled = s] :
        p, f, q, s \in BOOLEAN}
StagedZones ==
    {[Zone("monster", "staged") EXCEPT !.again = a, !.wave = (first :> 1 @@ second :> 2)] :
        a \in {"rebootable", "resumable", "neither"}}
TriggeredZones ==
    {[Zone("monster", "triggered") EXCEPT !.trigger = t] : t \in {"Enter", "Death", "Other"}}
BossZones ==
    {[Zone("boss", q) EXCEPT !.minions = b, !.trigger = "Enter", !.scheduled = (b = "despawn"),
         !.role = (first :> "master" @@ second :> IF q = "staged" THEN "plain" ELSE "minion"),
         !.wave = IF q = "staged" THEN (first :> 0 @@ second :> 1) ELSE Unstaged] :
        q \in {"fixed", "relative", "staged", "triggered"},
        b \in {"none", "despawn", "finish", "independent"}}
NpcZones ==
    {[Zone("npc", q) EXCEPT !.interval = i] : q \in {"fixed", "relative"}, i \in BOOLEAN}

MCConfigs == FixedZones \cup StagedZones \cup TriggeredZones \cup BossZones \cup NpcZones
                \cup {Zone("monster", "relative")}
=============================================================================
