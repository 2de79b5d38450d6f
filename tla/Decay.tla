-------------------------------- MODULE Decay --------------------------------
(***************************************************************************)
(* The decay of items (game.cpp, item.cpp, itemevents.cpp).  Rings are     *)
(* items that last while they are worn: putting one on transforms it into  *)
(* its active form, taking it off transforms it back and stores what is    *)
(* left.  Torches last while they are lit, wherever they are.              *)
(*                                                                         *)
(* An entry of the clock is an item and when it expires.  It is put into a *)
(* pre-cache, which decay_clean_cycle empties into a queue; for rings the  *)
(* set decaying_eq says which of them count, and finds them by the item    *)
(* alone.  An entry is never taken out of a queue before it has expired.   *)
(*                                                                         *)
(* Times are what is left, in ticks that are longer than the intervals of  *)
(* the cycles: both have run before the next tick.  Entries are kept with  *)
(* their item, since no step looks at those of another.                    *)
(***************************************************************************)
EXTENDS Integers, Sequences, SequencesExt

CONSTANTS Rings, Torches,   \* the items of a player
          Lasts,            \* how long the active form of an item lasts
          None

Items == Rings \cup Torches

ASSUME DecayAssumption ==
    Lasts \in Nat \ {0} /\ Rings \cap Torches = {} /\ None \notin Int

VARIABLES
    items,          \* per item, see Init
    worn,           \* history: per item, the ticks it has been worn
    rested          \* history: items that have been taken off or put out
vars == <<items, worn, rested>>

\* form: "idle", "active" or, for torches, "spent"; state: the decay state;
\* dur: ITEM_ATTRIBUTE_DURATION, None when it is not set, -1 when it is the
\* negative time of an entry that was overdue; cache: the entries in the
\* pre-cache, eq: the one in decaying_eq, queue: those in the queue.
Init ==
    /\ items = [i \in Items |-> [form |-> "idle", place |-> "bag", state |-> "no", dur |-> None,
                                 cache |-> <<>>, eq |-> None, queue |-> {}]]
    /\ worn = [i \in Items |-> 0] /\ rested = {}

(***************************************************************************)
(* What the operations are made of.                                        *)
(***************************************************************************)
\* getDuration() > 0, which is unsigned.
Lasting(x) == x.dur \notin {None, 0}

\* An entry like one that waits already changes nothing.
Push(x) ==
    LET left == IF x.dur < 0 THEN 0 ELSE x.dur
    IN  IF left \in ToSet(x.cache) THEN x ELSE [x EXCEPT !.cache = Append(@, left)]

\* Item::setID: an item that counts gets what is left, an item that has no
\* duration yet gets the one of its new form.
KeepDurationMutant(x) == {[x EXCEPT !.state = "no", !.eq = None]}
Stopped(x) ==
    {[x EXCEPT !.state = "no", !.eq = None, !.dur = left] :
        left \in IF x.eq = 0 THEN {0, -1} ELSE {x.eq}}
SetID(x, form) ==
    LET y == IF form = "spent" THEN [x EXCEPT !.state = "no", !.dur = None] ELSE x
        zs == IF y.eq # None /\ y.state # "no" THEN Stopped(y) ELSE {y}
        Fresh(z) == form = "active" /\ (x.form # "idle" \/ z.dur = None)
    IN  {[z EXCEPT !.form = form, !.state = IF Fresh(z) THEN "no" ELSE @,
                   !.dur = IF Fresh(z) THEN Lasts ELSE @] : z \in zs}

\* Game::startDecay.  Only an active form can decay, and not once its duration
\* is 0.
StartDecay(x) ==
    IF x.place = "gone" \/ x.form # "active" \/ x.dur = 0 \/ x.state = "yes" THEN x
    ELSE Push([x EXCEPT !.state = "yes"])

\* Defaults::EquipItem and DeEquipItem, for a ring that is in the slot and for
\* one that has just left it.
EquipItem(x) ==
    IF x.form = "active" THEN {x} ELSE {StartDecay(y) : y \in SetID(x, "active")}
DeEquipItem(x) == SetID(x, "idle")

\* Game::internalDecayItem.
DecayAnyMutant(i, x) == {[x EXCEPT !.place = "gone"]}
InternalDecayItem(i, x) ==
    IF x.form # "active" \/ x.place = "gone" THEN {x}
    ELSE IF i \in Rings THEN {[x EXCEPT !.place = "gone"]}
    ELSE SetID(x, "spent")

\* The end of internalMoveItem: an item that arrives in a slot counts, any
\* other is marked as decaying.
UncountedMutant(x) ==
    IF ~Lasting(x) THEN x
    ELSE [x EXCEPT !.state = IF x.place = "slot" /\ @ # "yes" THEN "no" ELSE "yes"]
Arrived(x) ==
    IF ~Lasting(x) THEN x
    ELSE IF x.state # "yes" THEN [x EXCEPT !.state = IF x.place = "slot" THEN "no" ELSE "yes"]
    ELSE IF x.place = "slot" THEN Push(x) ELSE x

(***************************************************************************)
(* The player.                                                             *)
(***************************************************************************)
InSlot == {i \in Items : items[i].place = "slot"}
InBag == {i \in Items : items[i].place = "bag"}
Worn(x) == {Arrived(y) : y \in EquipItem([x EXCEPT !.place = "slot"])}
Off(x) == DeEquipItem([x EXCEPT !.place = "bag"])

PutOn(i) ==
    /\ i \in InBag \cap Rings /\ InSlot = {}
    /\ \E x \in Worn(items[i]) : items' = [items EXCEPT ![i] = x]
    /\ UNCHANGED <<worn, rested>>

TakeOff(i) ==
    /\ i \in InSlot
    /\ \E x \in Off(items[i]) : items' = [items EXCEPT ![i] = Arrived(x)]
    /\ rested' = rested \cup {i} /\ UNCHANGED worn

\* A ring is put where another is: that one goes first, and is not marked; the
\* new one may be refused when the old one is off.
Swap(i, j) ==
    /\ i \in InBag \cap Rings /\ j \in InSlot
    /\ \E x \in Worn(items[i]) \cup {items[i]}, y \in Off(items[j]) :
           items' = [items EXCEPT ![i] = x, ![j] = y]
    /\ rested' = rested \cup {j} /\ UNCHANGED worn

\* From one place that is no slot to another.
Move(i) ==
    /\ i \in InBag /\ items' = [items EXCEPT ![i] = Arrived(items[i])]
    /\ UNCHANGED <<worn, rested>>

\* The script of a torch transforms it and calls decay().
Use(t) ==
    /\ t \in Torches /\ items[t].form \in {"idle", "active"}
    /\ \E x \in SetID(items[t], IF items[t].form = "idle" THEN "active" ELSE "idle") :
           items' = [items EXCEPT ![t] = StartDecay(x)]
    /\ rested' = IF items[t].form = "active" THEN rested \cup {t} ELSE rested
    /\ UNCHANGED worn

\* The player leaves: what is in the slot is taken off, and put on again by the
\* transformation.  The player returns: the items are made anew from what was
\* saved, and those that can decay start to.
Saved(x) ==
    [x EXCEPT !.cache = <<>>, !.eq = None, !.queue = {},
              !.state = IF @ = "no" THEN "no" ELSE "pending", !.dur = IF @ = -1 THEN 0 ELSE @]
Left(x) == IF x.place = "slot" THEN UNION {EquipItem(y) : y \in DeEquipItem(x)} ELSE {x}
Relog ==
    /\ items' \in {[i \in Items |-> StartDecay(Saved(f[i]))] :
                      f \in {g \in [Items -> UNION {Left(items[i]) : i \in Items}] :
                                \A i \in Items : g[i] \in Left(items[i])}}
    /\ UNCHANGED <<worn, rested>>

(***************************************************************************)
(* The cycles and the time.                                                *)
(***************************************************************************)
\* Inserting into decaying_eq keeps the entry that is there.
DecayCleanCycle ==
    /\ \E i \in Items : items[i].cache # <<>>
    /\ items' = [i \in Items |->
           LET x == items[i]
           IN  [x EXCEPT !.cache = <<>>, !.queue = @ \cup ToSet(x.cache),
                         !.eq = IF i \in Rings /\ @ = None /\ x.cache # <<>>
                                THEN Head(x.cache) ELSE @]]
    /\ UNCHANGED <<worn, rested>>

ForgetEntryMutant(i) ==
    /\ i \in Rings /\ 0 \in items[i].queue
    /\ items' = [items EXCEPT ![i].queue = @ \ {0}, ![i].eq = None]
    /\ UNCHANGED <<worn, rested>>
EquipmentDecayCycle(i) ==
    LET x == [items[i] EXCEPT !.queue = @ \ {0}, !.eq = None]
    IN  /\ i \in Rings /\ 0 \in items[i].queue
        /\ \E y \in IF items[i].eq = None THEN {x} ELSE InternalDecayItem(i, x) :
               items' = [items EXCEPT ![i] = y]
        /\ UNCHANGED <<worn, rested>>

ItemDecayCycle(i) ==
    LET x == [items[i] EXCEPT !.queue = @ \ {0}]
    IN  /\ i \in Torches /\ 0 \in items[i].queue
        /\ \E y \in IF x.state = "yes" THEN InternalDecayItem(i, x) ELSE {x} :
               items' = [items EXCEPT ![i] = y]
        /\ UNCHANGED <<worn, rested>>

Tick ==
    /\ \A i \in Items : items[i].cache = <<>> /\ 0 \notin items[i].queue
    /\ items' = [i \in Items |->
           [items[i] EXCEPT !.queue = {r - 1 : r \in @}, !.eq = IF @ = None THEN None ELSE @ - 1]]
    /\ worn' = [i \in Items |->
           IF i \in InSlot /\ worn[i] <= Lasts THEN worn[i] + 1 ELSE worn[i]]
    /\ UNCHANGED rested

Next ==
    \/ \E i \in Items : PutOn(i) \/ TakeOff(i) \/ Move(i) \/ Use(i)
    \/ \E i, j \in Items : Swap(i, j)
    \/ Relog
    \/ DecayCleanCycle
    \/ \E i \in Items : EquipmentDecayCycle(i) \/ ItemDecayCycle(i)
    \/ Tick

\* The cycles are timers of the game thread; time passes whatever the player
\* does.
Fairness ==
    /\ WF_vars(DecayCleanCycle)
    /\ \A i \in Items : WF_vars(EquipmentDecayCycle(i)) /\ WF_vars(ItemDecayCycle(i))
    /\ SF_vars(Tick)
Spec == Init /\ [][Next]_vars /\ Fairness

-----------------------------------------------------------------------------
Counts(i) ==
    LET x == items[i]
    IN  \/ x.cache # <<>>
        \/ IF i \in Rings THEN x.eq # None /\ \E r \in x.queue : r <= x.eq ELSE x.queue # {}

\* A ring that is worn is on the clock, in the pre-cache or in both the queue
\* and decaying_eq, however often it is put on, taken off, swapped and saved;
\* a lit torch is, if it has never been put out.  But for a duration of exactly
\* 0, which startDecay takes for an item that does not decay.
Counted ==
    \A i \in Items :
        /\ items[i].place = "slot" /\ items[i].dur # 0 => Counts(i)
        /\ i \in Torches \ rested /\ items[i].form = "active" => Counts(i)

\* No ring is worn for longer than it lasts, whatever is done to it in between;
\* one that is never taken off is worn for all of it.  But for a ring left with a
\* duration of exactly 0, which startDecay takes for one that does not decay.
LastsAsLong ==
    \A i \in Rings :
        /\ worn[i] <= Lasts \/ items[i].dur = 0
        /\ items[i].place = "gone" /\ i \notin rested => worn[i] = Lasts

\* What the clock takes is a ring that is worn, at the time, never one that
\* has been put away with its entry still in the queue.
OnlyWornGo ==
    [][\A i \in Items : items'[i].place = "gone" => items[i].place \in {"slot", "gone"}]_vars

\* A ring that stays in the slot comes to its end.
WornOut == \A i \in Rings : []<>(items[i].place # "slot" \/ items[i].dur = 0)
=============================================================================
