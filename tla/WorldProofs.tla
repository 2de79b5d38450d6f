----------------------------- MODULE WorldProofs -----------------------------
(***************************************************************************)
(* Two parts of the world that run on the timers of the game thread, the   *)
(* decay of items and the spawn zones, each with its own variables: the    *)
(* first half of the module is about Decay, the second about Zones.        *)
(***************************************************************************)
EXTENDS Decay, Zones, FiniteSetTheorems, TLAPS

(***************************************************************************)
(* DECAY.  What is worn is on the clock and nothing else goes, for every   *)
(* set of rings and torches and every duration.  No operation looks at two *)
(* items, so the invariant is one of each item: a ring is active just as   *)
(* long as it is in the slot, an entry that counts has an entry in the     *)
(* queue that comes no later, and a torch that was never put out has been  *)
(* marked and pushed.                                                      *)
(***************************************************************************)
Entry == [form : {"idle", "active", "spent"}, place : {"bag", "slot", "gone"},
          state : {"no", "yes", "pending"}, dur : Int \cup {None}, cache : Seq(Nat),
          eq : Nat \cup {None}, queue : SUBSET Nat]

\* An item that can be pushed has a duration.
Sound(x) == x \in Entry /\ (x.form = "active" => x.dur # None)

\* The entry of decaying_eq comes after one of the queue.
Queued(x) == x.eq # None => \E r \in x.queue : r <= x.eq

RingOK(x) ==
    /\ Sound(x) /\ Queued(x)
    /\ x.form # "spent"
    /\ x.place = "slot" => x.form = "active"
    /\ x.place = "bag" => x.form = "idle"
    /\ x.place = "slot" /\ x.dur # 0 => x.cache # <<>> \/ x.eq # None

\* fresh: the torch has never been put out.
TorchOK(x, fresh) ==
    /\ Sound(x) /\ x.place = "bag" /\ x.eq = None
    /\ fresh /\ x.form = "idle" => x.dur = None /\ x.state = "no"
    /\ fresh /\ x.form = "active" =>
          x.dur = Lasts /\ x.state = "yes" /\ (x.cache # <<>> \/ x.queue # {})

DecayInv ==
    /\ items \in [Items -> Entry]
    /\ \A i \in Rings : RingOK(items[i])
    /\ \A i \in Torches : TorchOK(items[i], i \notin rested)

-----------------------------------------------------------------------------
(* What the operations on one item return.                                  *)

LEMMA PushLemma ==
  ASSUME NEW x, Sound(x), x.dur # None
  PROVE  /\ Push(x) \in Entry /\ Push(x).cache # <<>>
         /\ \E c : Push(x) = [x EXCEPT !.cache = c]
  <1> DEFINE left == IF x.dur < 0 THEN 0 ELSE x.dur
  <1>1. left \in Nat /\ x.cache \in Seq(Nat)
    BY DEF Sound, Entry
  <1>2. CASE left \in ToSet(x.cache)
    <2>1. x.cache # <<>>
      BY <1>1, <1>2 DEF ToSet
    <2>2. x = [x EXCEPT !.cache = x.cache]
      BY DEF Sound, Entry
    <2> QED  BY <1>2, <2>1, <2>2 DEF Push, Sound
  <1>3. CASE left \notin ToSet(x.cache)
    <2>1. Append(x.cache, left) \in Seq(Nat) /\ Append(x.cache, left) # <<>>
      BY <1>1
    <2>2. Push(x) = [x EXCEPT !.cache = Append(x.cache, left)]
      BY <1>3 DEF Push
    <2> HIDE DEF left
    <2> QED  BY <2>1, <2>2 DEF Sound, Entry
  <1> QED  BY <1>2, <1>3

LEMMA StartDecayLemma ==
  ASSUME NEW x, Sound(x)
  PROVE  /\ StartDecay(x) \in Entry
         /\ \E s, c : StartDecay(x) = [x EXCEPT !.state = s, !.cache = c]
         /\ x.form # "active" => StartDecay(x) = x
         /\ StartDecay(x) = x \/ (StartDecay(x).cache # <<>> /\ StartDecay(x).state = "yes")
         /\ x.form = "active" /\ x.dur # 0 /\ x.state # "yes" /\ x.place # "gone" =>
               StartDecay(x).cache # <<>> /\ StartDecay(x).state = "yes"
  <1>1. CASE x.place = "gone" \/ x.form # "active" \/ x.dur = 0 \/ x.state = "yes"
    <2>1. StartDecay(x) = x /\ x = [x EXCEPT !.state = x.state, !.cache = x.cache]
      BY <1>1 DEF StartDecay, Sound, Entry
    <2>2. \E s, c : StartDecay(x) = [x EXCEPT !.state = s, !.cache = c]
      BY <2>1, Zenon
    <2>3. StartDecay(x) \in Entry
      BY <2>1 DEF Sound
    <2>4. ~(x.form = "active" /\ x.dur # 0 /\ x.state # "yes" /\ x.place # "gone")
      BY <1>1
    <2> QED  BY <2>1, <2>2, <2>3, <2>4, Zenon
  <1>2. CASE ~(x.place = "gone" \/ x.form # "active" \/ x.dur = 0 \/ x.state = "yes")
    <2> DEFINE y == [x EXCEPT !.state = "yes"]
    <2>1. Sound(y) /\ y.dur # None /\ y.state = "yes"
      BY <1>2 DEF Sound, Entry
    <2>2. StartDecay(x) = Push(y)
      BY <1>2 DEF StartDecay
    <2>3. PICK c : Push(y) = [y EXCEPT !.cache = c]
      BY <2>1, PushLemma
    <2>4. [y EXCEPT !.cache = c] = [x EXCEPT !.state = "yes", !.cache = c]
      BY DEF Sound, Entry
    <2>5. Push(y) \in Entry /\ Push(y).cache # <<>>
      BY <2>1, PushLemma
    <2>6. Push(y).state = "yes"
      BY <2>1, <2>3 DEF Sound, Entry
    <2>7. \E s, e : StartDecay(x) = [x EXCEPT !.state = s, !.cache = e]
      BY <2>2, <2>3, <2>4, Zenon
    <2> HIDE DEF y
    <2> QED  BY <1>2, <2>2, <2>5, <2>6, <2>7, Zenon
  <1> QED  BY <1>1, <1>2

LEMMA StoppedLemma ==
  ASSUME NEW x, Sound(x), x.eq # None, NEW y \in Stopped(x)
  PROVE  /\ y \in Entry /\ y.state = "no" /\ y.eq = None /\ y.dur # None
         /\ \E d : y = [x EXCEPT !.state = "no", !.eq = None, !.dur = d]
  <1>1. PICK left \in IF x.eq = 0 THEN {0, -1} ELSE {x.eq} :
               y = [x EXCEPT !.state = "no", !.eq = None, !.dur = left]
    BY DEF Stopped
  <1>2. left \in Int
    BY <1>1 DEF Sound, Entry
  <1> QED  BY <1>1, <1>2, DecayAssumption DEF Sound, Entry

\* Of an item only the form, the state, the duration and the entry that counts
\* change; what becomes active has a duration.
LEMMA SetIDLemma ==
  ASSUME NEW x, Sound(x), NEW form \in {"idle", "active", "spent"}, NEW y \in SetID(x, form)
  PROVE  /\ Sound(y) /\ y.form = form
         /\ y.place = x.place /\ y.cache = x.cache /\ y.queue = x.queue
         /\ y.eq \in {x.eq, None}
         /\ form = "active" /\ x.eq = None /\ x.dur = None => y.dur = Lasts /\ y.state = "no"
  <1> DEFINE w == IF form = "spent" THEN [x EXCEPT !.state = "no", !.dur = None] ELSE x
             zs == IF w.eq # None /\ w.state # "no" THEN Stopped(w) ELSE {w}
             Fresh(z) == form = "active" /\ (x.form # "idle" \/ z.dur = None)
             Set(z) == [z EXCEPT !.form = form, !.state = IF Fresh(z) THEN "no" ELSE @,
                                 !.dur = IF Fresh(z) THEN Lasts ELSE @]
  <1>1. PICK z \in zs : y = Set(z)
    BY DEF SetID
  <1>2. /\ w \in Entry /\ (form # "spent" => w = x)
        /\ w.place = x.place /\ w.cache = x.cache /\ w.queue = x.queue /\ w.eq = x.eq
    BY DEF Sound, Entry
  <1>3. w.eq # None /\ w.state # "no" => form # "spent"
    BY <1>2 DEF Sound, Entry
  <1> HIDE DEF w
  <1>4. /\ z \in Entry /\ z.eq \in {x.eq, None}
        /\ z.place = x.place /\ z.cache = x.cache /\ z.queue = x.queue
    <2>1. CASE w.eq # None /\ w.state # "no"
      <3>1. z \in Stopped(x) /\ x.eq # None
        BY <1>2, <1>3, <2>1
      <3>2. PICK d : z = [x EXCEPT !.state = "no", !.eq = None, !.dur = d]
        BY <3>1, StoppedLemma
      <3>3. z \in Entry /\ z.eq = None
        BY <3>1, StoppedLemma
      <3> QED  BY <3>2, <3>3 DEF Sound, Entry
    <2>2. CASE ~(w.eq # None /\ w.state # "no")
      BY <1>2, <2>2
    <2> QED  BY <2>1, <2>2
  <1>5. x.eq = None /\ form = "active" => z = x
    BY <1>2
  <1> HIDE DEF zs
  <1>6. y \in Entry /\ y.form = form /\ y.place = z.place /\ y.cache = z.cache
                    /\ y.queue = z.queue /\ y.eq = z.eq
    <2>1. CASE Fresh(z)
      <3>1. y = [z EXCEPT !.form = form, !.state = "no", !.dur = Lasts]
        BY <1>1, <2>1
      <3>2. Lasts \in Int \cup {None}
        BY DecayAssumption
      <3> HIDE DEF Fresh, Set
      <3> QED  BY <1>4, <3>1, <3>2 DEF Entry
    <2>2. CASE ~Fresh(z)
      <3>1. y = [z EXCEPT !.form = form, !.state = z.state, !.dur = z.dur]
        BY <1>1, <2>2
      <3> QED  BY <1>4, <3>1 DEF Entry
    <2> QED  BY <2>1, <2>2
  <1>7. Fresh(z) => y.dur = Lasts /\ y.state = "no"
    BY <1>1, <1>4 DEF Entry
  <1>8. ~Fresh(z) => y.dur = z.dur
    BY <1>1, <1>4 DEF Entry
  <1>9. form = "active" => y.dur # None
    BY <1>7, <1>8, DecayAssumption
  <1> QED  BY <1>4, <1>5, <1>6, <1>7, <1>9 DEF Sound

\* An item that arrives in a place: what is in the slot is pushed, for the rest
\* only the state changes.
LEMMA ArrivedLemma ==
  ASSUME NEW x, Sound(x)
  PROVE  /\ Sound(Arrived(x)) /\ Arrived(x).form = x.form /\ Arrived(x).place = x.place
         /\ Arrived(x).eq = x.eq /\ Arrived(x).queue = x.queue /\ Arrived(x).dur = x.dur
         /\ x.place # "slot" => Arrived(x).cache = x.cache
         /\ x.cache # <<>> => Arrived(x).cache # <<>>
         /\ x.place = "slot" /\ x.state = "yes" /\ Lasting(x) => Arrived(x).cache # <<>>
         /\ ~Lasting(x) \/ (x.place # "slot" /\ x.state = "yes") => Arrived(x) = x
  <1>1. CASE ~Lasting(x)
    BY <1>1 DEF Arrived, Sound
  <1>2. CASE Lasting(x) /\ x.state # "yes"
    <2>1. PICK s \in {"no", "yes"} : Arrived(x) = [x EXCEPT !.state = s]
      BY <1>2 DEF Arrived
    <2> QED  BY <1>2, <2>1 DEF Sound, Entry
  <1>3. CASE Lasting(x) /\ x.state = "yes" /\ x.place = "slot"
    <2>1. x.dur # None /\ Arrived(x) = Push(x)
      BY <1>3 DEF Arrived, Lasting
    <2>2. Push(x) \in Entry /\ Push(x).cache # <<>>
      BY <2>1, PushLemma
    <2>3. PICK c : Push(x) = [x EXCEPT !.cache = c]
      BY <2>1, PushLemma
    <2> QED  BY <1>3, <2>1, <2>2, <2>3 DEF Sound, Entry
  <1>4. CASE Lasting(x) /\ x.state = "yes" /\ x.place # "slot"
    BY <1>4 DEF Arrived, Sound
  <1> QED  BY <1>1, <1>2, <1>3, <1>4

\* A ring that is put on is in the pre-cache, or has nothing left.
LEMMA WornLemma ==
  ASSUME NEW x, RingOK(x), x.place = "bag", NEW y \in Worn(x)
  PROVE  RingOK(y) /\ y.place = "slot"
  <1> DEFINE w == [x EXCEPT !.place = "slot"]
  <1>1. Sound(w) /\ Queued(w) /\ w.form = "idle" /\ w.place = "slot"
    BY DEF RingOK, Sound, Queued, Entry
  <1>2. PICK z \in SetID(w, "active") : y = Arrived(StartDecay(z))
    BY <1>1 DEF Worn, EquipItem
  <1> HIDE DEF w
  <1>3. /\ Sound(z) /\ z.form = "active" /\ z.place = "slot"
        /\ z.queue = w.queue /\ z.eq \in {w.eq, None}
    BY <1>1, <1>2, SetIDLemma
  <1> DEFINE v == StartDecay(z)
  <1>4. PICK s, c : v = [z EXCEPT !.state = s, !.cache = c]
    BY <1>3, StartDecayLemma
  <1>5. v \in Entry
    BY <1>3, StartDecayLemma
  <1>6. /\ v.form = "active" /\ v.place = "slot" /\ v.queue = w.queue
        /\ v.eq \in {w.eq, None} /\ v.dur = z.dur /\ z.dur # None
    BY <1>3, <1>4 DEF Sound, Entry
  <1>7. v.dur # 0 => v.state = "yes" /\ Lasting(v)
    <2>1. v = z \/ v.state = "yes"
      BY <1>3, StartDecayLemma
    <2>2. z.dur # 0 /\ z.state # "yes" => v.state = "yes"
      BY <1>3, StartDecayLemma
    <2> QED  BY <1>6, <2>1, <2>2 DEF Lasting
  <1> HIDE DEF v
  <1>8. Sound(v)
    BY <1>5, <1>6 DEF Sound
  <1>9. /\ Sound(y) /\ y.form = "active" /\ y.place = "slot" /\ y.eq = v.eq
        /\ y.queue = v.queue /\ y.dur = v.dur /\ (v.dur # 0 => y.cache # <<>>)
    BY <1>2, <1>6, <1>7, <1>8, ArrivedLemma DEF v
  <1>10. Queued(y)
    BY <1>1, <1>6, <1>9 DEF Queued
  <1> QED  BY <1>9, <1>10 DEF RingOK

\* A ring that is taken off is idle in the bag, whatever it waits for there.
LEMMA OffLemma ==
  ASSUME NEW x, RingOK(x), NEW y \in Off(x)
  PROVE  /\ RingOK(y) /\ y.place = "bag"
         /\ RingOK(Arrived(y)) /\ Arrived(y).place = "bag"
  <1> DEFINE w == [x EXCEPT !.place = "bag"]
  <1>1. Sound(w) /\ Queued(w) /\ w.place = "bag"
    BY DEF RingOK, Sound, Queued, Entry
  <1>2. y \in SetID(w, "idle")
    BY DEF Off, DeEquipItem
  <1> HIDE DEF w
  <1>3. /\ Sound(y) /\ y.form = "idle" /\ y.place = "bag"
        /\ y.queue = w.queue /\ y.eq \in {w.eq, None}
    BY <1>1, <1>2, SetIDLemma
  <1>4. Queued(y)
    BY <1>1, <1>3 DEF Queued
  <1>5. /\ Sound(Arrived(y)) /\ Arrived(y).form = "idle" /\ Arrived(y).place = "bag"
        /\ Arrived(y).eq = y.eq /\ Arrived(y).queue = y.queue
    BY <1>3, ArrivedLemma
  <1>6. Queued(Arrived(y))
    BY <1>4, <1>5 DEF Queued
  <1> QED  BY <1>3, <1>4, <1>5, <1>6 DEF RingOK

LEMMA MovedRingLemma ==
  ASSUME NEW x, RingOK(x), x.place = "bag"
  PROVE  RingOK(Arrived(x)) /\ Arrived(x).place = "bag"
  <1>1. /\ Sound(Arrived(x)) /\ Arrived(x).form = "idle" /\ Arrived(x).place = "bag"
        /\ Arrived(x).eq = x.eq /\ Arrived(x).queue = x.queue
    BY ArrivedLemma DEF RingOK
  <1> QED  BY <1>1 DEF RingOK, Queued

LEMMA MovedTorchLemma ==
  ASSUME NEW x, NEW fresh \in BOOLEAN, TorchOK(x, fresh)
  PROVE  TorchOK(Arrived(x), fresh)
  <1>1. /\ Sound(Arrived(x)) /\ Arrived(x).form = x.form /\ Arrived(x).place = "bag"
        /\ Arrived(x).eq = None
        /\ ~Lasting(x) \/ x.state = "yes" => Arrived(x) = x
    BY ArrivedLemma DEF TorchOK
  <1>2. fresh /\ x.form \in {"idle", "active"} => ~Lasting(x) \/ x.state = "yes"
    BY DEF TorchOK, Lasting
  <1> QED  BY <1>1, <1>2 DEF TorchOK

\* Lighting a torch puts it into the pre-cache the first time.
LEMMA UsedLemma ==
  ASSUME NEW x, NEW fresh \in BOOLEAN, TorchOK(x, fresh), x.form \in {"idle", "active"},
         NEW y \in SetID(x, IF x.form = "idle" THEN "active" ELSE "idle")
  PROVE  TorchOK(StartDecay(y), fresh /\ x.form = "idle")
  <1> DEFINE v == StartDecay(y)
  <1>1. /\ Sound(y) /\ y.place = "bag" /\ y.eq = None
        /\ y.form = IF x.form = "idle" THEN "active" ELSE "idle"
        /\ x.form = "idle" /\ x.dur = None => y.dur = Lasts /\ y.state = "no"
    BY SetIDLemma DEF TorchOK
  <1>2. PICK s, c : v = [y EXCEPT !.state = s, !.cache = c]
    BY <1>1, StartDecayLemma
  <1>3. v \in Entry
    BY <1>1, StartDecayLemma
  <1>4. v.form = y.form /\ v.place = "bag" /\ v.eq = None /\ v.dur = y.dur
    BY <1>1, <1>2 DEF Sound, Entry
  <1>5. y.form = "active" /\ y.dur # 0 /\ y.state # "yes" => v.cache # <<>> /\ v.state = "yes"
    BY <1>1, StartDecayLemma
  <1> HIDE DEF v
  <1>6. Sound(v)
    BY <1>1, <1>3, <1>4 DEF Sound
  <1>7. fresh /\ x.form = "idle" =>
          v.form = "active" /\ v.dur = Lasts /\ v.state = "yes" /\ v.cache # <<>>
    BY <1>1, <1>4, <1>5, DecayAssumption DEF TorchOK
  <1>8. TorchOK(v, fresh /\ x.form = "idle")
    BY <1>4, <1>6, <1>7 DEF TorchOK
  <1> QED  BY <1>8 DEF v

\* What has been saved has no entry anywhere.
LEMMA SavedLemma ==
  ASSUME NEW x, Sound(x)
  PROVE  /\ Sound(Saved(x)) /\ Saved(x).form = x.form /\ Saved(x).place = x.place
         /\ Saved(x).eq = None /\ Saved(x).queue = {} /\ Saved(x).cache = <<>>
         /\ Saved(x).state # "yes"
         /\ x.dur = -1 => Saved(x).dur = 0
         /\ x.state = "no" => Saved(x).state = "no"
         /\ x.dur # -1 => Saved(x).dur = x.dur
  <1>1. <<>> \in Seq(Nat)
    OBVIOUS
  <1>2. PICK s \in {"no", "pending"}, d \in {x.dur, 0} :
            /\ Saved(x) = [x EXCEPT !.cache = <<>>, !.eq = None, !.queue = {},
                                    !.state = s, !.dur = d]
            /\ x.state = "no" => s = "no"
            /\ x.dur # -1 => d = x.dur
            /\ x.dur = -1 => d = 0
    <2> DEFINE s == IF x.state = "no" THEN "no" ELSE "pending"
               d == IF x.dur = -1 THEN 0 ELSE x.dur
    <2>1. Saved(x) = [x EXCEPT !.cache = <<>>, !.eq = None, !.queue = {},
                               !.state = s, !.dur = d]
      BY DEF Saved, Sound, Entry
    <2>2. s \in {"no", "pending"} /\ d \in {x.dur, 0}
      OBVIOUS
    <2> QED  BY <2>1, <2>2
  <1>3. d \in Int \cup {None} /\ (x.form = "active" => d # None)
    BY DecayAssumption DEF Sound, Entry
  <1>4. Saved(x) = [form |-> x.form, place |-> x.place, state |-> s, dur |-> d,
                    cache |-> <<>>, eq |-> None, queue |-> {}]
    BY <1>2 DEF Sound, Entry
  <1>5. Saved(x) \in Entry
    <2>1. x.form \in {"idle", "active", "spent"} /\ x.place \in {"bag", "slot", "gone"}
      BY DEF Sound, Entry
    <2> QED  BY <1>1, <1>3, <1>4, <2>1 DEF Entry
  <1>6. /\ Saved(x).form = x.form /\ Saved(x).place = x.place /\ Saved(x).state = s
        /\ Saved(x).dur = d /\ Saved(x).eq = None /\ Saved(x).queue = {}
        /\ Saved(x).cache = <<>>
    BY <1>4
  <1> QED  BY <1>2, <1>3, <1>5, <1>6 DEF Sound

\* A ring that was worn is worn again, and anew in the pre-cache.
LEMMA RelogRingLemma ==
  ASSUME NEW x, RingOK(x), NEW z \in Left(x)
  PROVE  RingOK(StartDecay(Saved(z))) /\ (StartDecay(Saved(z)).place = "gone" => x.place = "gone")
  <1>1. /\ Sound(z) /\ z.place = x.place /\ z.form # "spent"
        /\ z.place = "slot" => z.form = "active"
        /\ z.place = "bag" => z.form = "idle"
    <2>1. CASE x.place = "slot"
      <3>1. PICK y \in SetID(x, "idle") : z \in EquipItem(y)
        BY <2>1 DEF Left, DeEquipItem
      <3>2. Sound(y) /\ y.form = "idle" /\ y.place = "slot"
        BY <2>1, <3>1, SetIDLemma DEF RingOK
      <3>3. PICK w \in SetID(y, "active") : z = StartDecay(w)
        BY <3>1, <3>2 DEF EquipItem
      <3>4. Sound(w) /\ w.form = "active" /\ w.place = "slot"
        BY <3>2, <3>3, SetIDLemma
      <3>5. PICK s, c : StartDecay(w) = [w EXCEPT !.state = s, !.cache = c]
        BY <3>4, StartDecayLemma
      <3>6. StartDecay(w) \in Entry
        BY <3>4, StartDecayLemma
      <3> QED  BY <2>1, <3>3, <3>4, <3>5, <3>6 DEF Sound, Entry
    <2>2. CASE x.place # "slot"
      BY <2>2 DEF Left, RingOK
    <2> QED  BY <2>1, <2>2
  <1> DEFINE u == Saved(z)
             v == StartDecay(u)
  <1>2. Sound(u) /\ u.form = z.form /\ u.place = z.place /\ u.eq = None /\ u.state # "yes"
    BY <1>1, SavedLemma
  <1> HIDE DEF u
  <1>3. PICK s, c : v = [u EXCEPT !.state = s, !.cache = c]
    BY <1>2, StartDecayLemma
  <1>4. v \in Entry /\ (u.place = "slot" /\ u.dur # 0 => v.cache # <<>>)
    BY <1>1, <1>2, StartDecayLemma
  <1>5. v.form = z.form /\ v.place = z.place /\ v.eq = None /\ v.dur = u.dur
    BY <1>2, <1>3 DEF Sound, Entry
  <1> HIDE DEF v
  <1>6. RingOK(v) /\ (v.place = "gone" => x.place = "gone")
    BY <1>1, <1>2, <1>4, <1>5 DEF RingOK, Sound, Queued
  <1> QED  BY <1>6 DEF u, v

LEMMA RelogTorchLemma ==
  ASSUME NEW x, NEW fresh \in BOOLEAN, TorchOK(x, fresh), NEW z \in Left(x)
  PROVE  TorchOK(StartDecay(Saved(z)), fresh)
  <1> DEFINE u == Saved(x)
             v == StartDecay(u)
  <1>1. z = x
    BY DEF Left, TorchOK
  <1>2. /\ Sound(u) /\ u.form = x.form /\ u.place = "bag" /\ u.eq = None /\ u.state # "yes"
        /\ (x.state = "no" => u.state = "no") /\ (x.dur # -1 => u.dur = x.dur)
    BY SavedLemma DEF TorchOK
  <1> HIDE DEF u
  <1>3. PICK s, c : v = [u EXCEPT !.state = s, !.cache = c]
    BY <1>2, StartDecayLemma
  <1>4. /\ v \in Entry
        /\ u.form # "active" => v = u
        /\ u.form = "active" /\ u.dur # 0 => v.cache # <<>> /\ v.state = "yes"
    BY <1>2, StartDecayLemma
  <1>5. v.form = u.form /\ v.place = "bag" /\ v.eq = None /\ v.dur = u.dur
    BY <1>2, <1>3 DEF Sound, Entry
  <1> HIDE DEF v
  <1>6. TorchOK(v, fresh)
    BY <1>2, <1>4, <1>5, DecayAssumption DEF TorchOK, Sound
  <1> QED  BY <1>1, <1>6 DEF u, v

-----------------------------------------------------------------------------
(* The invariant.                                                           *)

\* What a step does to one item: it stays sound, and goes only from the slot.
Stays(i) ==
    /\ i \in Rings => RingOK(items'[i])
    /\ i \in Torches => TorchOK(items'[i], i \notin rested')
    /\ items'[i].place = "gone" => items[i].place \in {"slot", "gone"}

LEMMA UntouchedLemma ==
  ASSUME DecayInv, NEW i \in Items, items'[i] = items[i], rested \subseteq rested'
  PROVE  Stays(i)
  <1>1. i \in Torches => (i \notin rested' => i \notin rested)
    OBVIOUS
  <1>2. i \in Torches => TorchOK(items[i], i \notin rested)
    BY DEF DecayInv
  <1>3. i \in Torches => TorchOK(items[i], i \notin rested')
    BY <1>1, <1>2 DEF TorchOK
  <1>4. items[i] \in Entry
    BY DEF DecayInv
  <1> QED  BY <1>3, <1>4 DEF Stays, DecayInv, Entry

LEMMA CleanLemma ==
  ASSUME DecayInv, DecayCleanCycle, NEW i \in Items
  PROVE  Stays(i)
  <1> DEFINE x == items[i]
             e == IF i \in Rings /\ x.eq = None /\ x.cache # <<>> THEN Head(x.cache) ELSE x.eq
             y == [x EXCEPT !.cache = <<>>, !.queue = @ \cup ToSet(x.cache), !.eq = e]
  <1>1. items'[i] = y /\ rested' = rested
    BY DEF DecayCleanCycle
  <1>2. x \in Entry /\ x.cache \in Seq(Nat)
    BY DEF DecayInv, Entry
  <1>3. ToSet(x.cache) \subseteq Nat
    BY <1>2 DEF ToSet
  <1>4. x.cache # <<>> => Head(x.cache) \in ToSet(x.cache)
    BY <1>2 DEF ToSet
  <1>5. e \in Nat \cup {None}
    <2>1. x.eq \in Nat \cup {None}
      BY <1>2 DEF Entry
    <2> QED  BY <1>3, <1>4, <2>1
  <1>6. /\ y \in Entry /\ y.form = x.form /\ y.place = x.place /\ y.dur = x.dur
        /\ y.state = x.state /\ y.eq = e /\ y.queue = x.queue \cup ToSet(x.cache)
    <2>1. <<>> \in Seq(Nat) /\ x.queue \cup ToSet(x.cache) \subseteq Nat
      BY <1>2, <1>3 DEF Entry
    <2> HIDE DEF e
    <2> QED  BY <1>2, <1>5, <2>1 DEF Entry
  <1>7. ASSUME i \in Rings PROVE RingOK(y)
    <2>1. RingOK(x)
      BY <1>7 DEF DecayInv
    <2>2. Queued(y)
      <3>1. CASE x.eq # None
        BY <1>6, <2>1, <3>1 DEF RingOK, Queued
      <3>2. CASE x.eq = None /\ x.cache # <<>>
        <4>1. e \in ToSet(x.cache) /\ e \in Nat
          BY <1>3, <1>4, <1>7, <3>2
        <4> QED  BY <1>6, <4>1 DEF Queued
      <3>3. CASE x.eq = None /\ x.cache = <<>>
        BY <1>6, <3>3 DEF Queued
      <3> QED  BY <3>1, <3>2, <3>3
    <2>3. x.cache # <<>> \/ x.eq # None => y.eq # None
      BY <1>3, <1>4, <1>6, <1>7, DecayAssumption
    <2> HIDE DEF x, y, e
    <2> QED  BY <1>6, <2>1, <2>2, <2>3 DEF RingOK, Sound
  <1>8. ASSUME i \in Torches PROVE TorchOK(y, i \notin rested)
    <2>1. TorchOK(x, i \notin rested)
      BY <1>8 DEF DecayInv
    <2>2. i \notin Rings
      BY <1>8, DecayAssumption
    <2>3. x.cache # <<>> \/ x.queue # {} => y.queue # {}
      BY <1>4, <1>6
    <2>4. y.eq = None
      BY <1>6, <2>1, <2>2 DEF TorchOK
    <2> HIDE DEF x, y, e
    <2> QED  BY <1>6, <2>1, <2>3, <2>4 DEF TorchOK, Sound
  <1>9. y.place = "gone" => x.place = "gone"
    BY <1>6
  <1> HIDE DEF y
  <1> QED  BY <1>1, <1>7, <1>8, <1>9 DEF Stays

LEMMA TickLemma ==
  ASSUME DecayInv, Tick, NEW i \in Items
  PROVE  Stays(i)
  <1> DEFINE x == items[i]
             e == IF x.eq = None THEN None ELSE x.eq - 1
             q == {r - 1 : r \in x.queue}
             y == [x EXCEPT !.queue = q, !.eq = e]
  <1>1. items'[i] = y /\ rested' = rested /\ 0 \notin x.queue /\ x.cache = <<>>
    BY DEF Tick
  <1>2. x \in Entry
    BY DEF DecayInv
  <1>3. q \subseteq Nat
    BY <1>1, <1>2 DEF Entry
  <1>4. ASSUME Queued(x) PROVE e \in Nat \cup {None} /\ Queued(y) /\ (x.eq # None => e # None)
    <2>1. CASE x.eq = None
      BY <1>2, <2>1 DEF Queued, Entry
    <2>2. CASE x.eq # None
      <3>1. PICK r \in x.queue : r <= x.eq
        BY <1>4, <2>2 DEF Queued
      <3>2. x.eq \in Nat /\ r \in Nat /\ r # 0
        BY <1>1, <1>2, <2>2 DEF Entry
      <3>3. e \in Nat /\ e = x.eq - 1 /\ r - 1 \in q /\ r - 1 <= e
        BY <2>2, <3>1, <3>2
      <3>4. y.queue = q /\ y.eq = e
        BY <1>2 DEF Entry
      <3> HIDE DEF q, e, y
      <3> QED  BY <3>3, <3>4, DecayAssumption DEF Queued
    <2> QED  BY <2>1, <2>2
  <1>5. e \in Nat \cup {None} =>
        /\ y \in Entry /\ y.form = x.form /\ y.place = x.place /\ y.dur = x.dur
        /\ y.state = x.state /\ y.eq = e /\ y.queue = q /\ y.cache = x.cache
    <2> HIDE DEF q, e
    <2> QED  BY <1>2, <1>3 DEF Entry
  <1>6. ASSUME i \in Rings PROVE RingOK(y) /\ (y.place = "gone" => x.place = "gone")
    <2>1. RingOK(x)
      BY <1>6 DEF DecayInv
    <2>2. e \in Nat \cup {None} /\ Queued(y) /\ (x.eq # None => e # None)
      BY <1>4, <2>1 DEF RingOK
    <2> HIDE DEF x, y, e, q
    <2> QED  BY <1>5, <2>1, <2>2 DEF RingOK, Sound
  <1>7. ASSUME i \in Torches PROVE TorchOK(y, i \notin rested) /\ y.place # "gone"
    <2>1. TorchOK(x, i \notin rested)
      BY <1>7 DEF DecayInv
    <2>2. e = None
      BY <2>1 DEF TorchOK
    <2>3. x.queue # {} => q # {}
      OBVIOUS
    <2> HIDE DEF x, y, e, q
    <2> QED  BY <1>5, <2>1, <2>2, <2>3 DEF TorchOK, Sound
  <1> HIDE DEF y
  <1> QED  BY <1>1, <1>6, <1>7 DEF Stays, Items

\* A cycle that takes an entry finds a ring that is worn, or lets the item be.
LEMMA CycleLemma ==
  ASSUME DecayInv, NEW j \in Items, EquipmentDecayCycle(j) \/ ItemDecayCycle(j), NEW i \in Items
  PROVE  Stays(i)
  <1>1. rested' = rested /\ (i # j => items'[i] = items[i])
    BY DEF DecayInv, EquipmentDecayCycle, ItemDecayCycle
  <1>2. CASE i # j
    BY <1>1, <1>2, UntouchedLemma
  <1>3. CASE i = j /\ EquipmentDecayCycle(j)
    <2> DEFINE x == items[j]
               w == [x EXCEPT !.queue = @ \ {0}, !.eq = None]
    <2>1. j \in Rings /\ j \notin Torches /\ RingOK(x)
      BY <1>3, DecayAssumption DEF EquipmentDecayCycle, DecayInv
    <2>2. \E y \in IF x.eq = None THEN {w} ELSE InternalDecayItem(j, w) : items'[j] = y
      BY <1>3 DEF EquipmentDecayCycle, DecayInv
    <2>3. /\ Sound(w) /\ w.form = x.form /\ w.place = x.place /\ w.eq = None
          /\ w.dur = x.dur /\ w.cache = x.cache
      BY <2>1 DEF RingOK, Sound, Entry
    <2>4. CASE items'[j] = w /\ (x.eq = None \/ x.place # "slot")
      BY <1>3, <2>1, <2>3, <2>4 DEF Stays, RingOK, Queued
    <2>5. CASE items'[j] = [w EXCEPT !.place = "gone"] /\ x.form = "active"
      <3>1. Sound([w EXCEPT !.place = "gone"]) /\ x.place \in {"slot", "gone"}
        BY <2>1, <2>3, <2>5 DEF RingOK, Sound, Entry
      <3>2. RingOK([w EXCEPT !.place = "gone"])
        BY <2>1, <2>3, <3>1 DEF RingOK, Queued, Sound, Entry
      <3> QED  BY <1>3, <2>1, <2>5, <3>1, <3>2 DEF Stays
    <2>6. (items'[j] = w /\ (x.eq = None \/ x.place # "slot"))
          \/ (items'[j] = [w EXCEPT !.place = "gone"] /\ x.form = "active")
      <3>1. x.form # "active" => x.place # "slot"
        BY <2>1 DEF RingOK
      <3>2. w.place = "gone" => x.place # "slot"
        BY <2>3
      <3> HIDE DEF w
      <3> QED  BY <2>1, <2>2, <2>3, <3>1, <3>2 DEF InternalDecayItem
    <2> QED  BY <2>4, <2>5, <2>6
  <1>4. CASE i = j /\ ItemDecayCycle(j)
    <2> DEFINE x == items[j]
               w == [x EXCEPT !.queue = @ \ {0}]
               fresh == j \notin rested
    <2>1. j \in Torches /\ j \notin Rings /\ TorchOK(x, fresh)
      BY <1>4, DecayAssumption DEF ItemDecayCycle, DecayInv
    <2>2. \E y \in IF w.state = "yes" THEN InternalDecayItem(j, w) ELSE {w} : items'[j] = y
      BY <1>4 DEF ItemDecayCycle, DecayInv
    <2>3. /\ Sound(w) /\ w.form = x.form /\ w.place = "bag" /\ w.eq = None
          /\ w.dur = x.dur /\ w.state = x.state
      BY <2>1 DEF TorchOK, Sound, Entry
    <2> HIDE DEF w
    <2>4. CASE items'[j] = w /\ (w.state # "yes" \/ w.form # "active")
      <3>1. TorchOK(w, fresh)
        BY <2>1, <2>3, <2>4 DEF TorchOK
      <3> QED  BY <1>1, <1>4, <2>1, <2>3, <2>4, <3>1 DEF Stays
    <2>5. CASE items'[j] \in SetID(w, "spent")
      <3>1. /\ Sound(items'[j]) /\ items'[j].form = "spent"
            /\ items'[j].place = "bag" /\ items'[j].eq = None
        BY <2>3, <2>5, SetIDLemma
      <3>2. TorchOK(items'[j], fresh)
        BY <3>1 DEF TorchOK
      <3> QED  BY <1>1, <1>4, <2>1, <3>1, <3>2 DEF Stays
    <2>6. (items'[j] = w /\ (w.state # "yes" \/ w.form # "active"))
          \/ items'[j] \in SetID(w, "spent")
      BY <2>1, <2>2, <2>3 DEF InternalDecayItem
    <2> QED  BY <2>4, <2>5, <2>6
  <1> QED  BY <1>2, <1>3, <1>4

LEMMA PlaceLemma ==
  ASSUME DecayInv
  PROVE  InSlot \subseteq Rings /\ InSlot \cap InBag = {} /\ InSlot \subseteq Items
  BY DEF DecayInv, InSlot, InBag, Items, TorchOK

LEMMA PlayerLemma ==
  ASSUME DecayInv, NEW j \in Items, PutOn(j) \/ TakeOff(j) \/ Move(j) \/ Use(j), NEW i \in Items
  PROVE  Stays(i)
  <1>1. rested \subseteq rested' /\ (i # j => items'[i] = items[i] /\ (i \in rested' => i \in rested))
    BY DEF DecayInv, PutOn, TakeOff, Move, Use
  <1>2. CASE i # j
    BY <1>1, <1>2, UntouchedLemma
  <1>3. ASSUME PutOn(j) PROVE Stays(j)
    <2>1. j \in Rings /\ j \notin Torches /\ items[j].place = "bag" /\ RingOK(items[j])
      BY <1>3, DecayAssumption DEF PutOn, InBag, DecayInv
    <2>2. items'[j] \in Worn(items[j])
      BY <1>3 DEF PutOn, DecayInv
    <2>3. RingOK(items'[j]) /\ items'[j].place = "slot"
      BY <2>1, <2>2, WornLemma
    <2> QED  BY <2>1, <2>3 DEF Stays
  <1>4. ASSUME TakeOff(j) PROVE Stays(j)
    <2>1. j \in Rings /\ j \notin Torches /\ RingOK(items[j])
      BY <1>4, PlaceLemma, DecayAssumption DEF TakeOff, DecayInv
    <2>2. PICK y \in Off(items[j]) : items'[j] = Arrived(y)
      BY <1>4 DEF TakeOff, DecayInv
    <2>3. RingOK(items'[j]) /\ items'[j].place = "bag"
      BY <2>1, <2>2, OffLemma
    <2> QED  BY <2>1, <2>3 DEF Stays
  <1>5. ASSUME Move(j) PROVE Stays(j)
    <2>1. items'[j] = Arrived(items[j]) /\ items[j].place = "bag" /\ rested' = rested
      BY <1>5 DEF Move, InBag, DecayInv
    <2>2. j \in Rings => RingOK(items'[j]) /\ items'[j].place = "bag"
      BY <2>1, MovedRingLemma DEF DecayInv
    <2>3. j \in Torches => TorchOK(items'[j], j \notin rested)
      BY <2>1, MovedTorchLemma DEF DecayInv
    <2> QED  BY <2>1, <2>2, <2>3 DEF Stays, Items, TorchOK
  <1>6. ASSUME Use(j) PROVE Stays(j)
    <2> DEFINE x == items[j]
               fresh == j \notin rested
    <2>1. j \in Torches /\ j \notin Rings /\ TorchOK(x, fresh) /\ x.form \in {"idle", "active"}
      BY <1>6, DecayAssumption DEF Use, DecayInv
    <2>2. PICK y \in SetID(x, IF x.form = "idle" THEN "active" ELSE "idle") :
                  items'[j] = StartDecay(y)
      BY <1>6 DEF Use, DecayInv
    <2>3. TorchOK(items'[j], fresh /\ x.form = "idle")
      <3> HIDE DEF x, fresh
      <3>1. fresh \in BOOLEAN
        BY DEF fresh
      <3> QED  BY <2>1, <2>2, <3>1, UsedLemma
    <2>4. j \notin rested' <=> fresh /\ x.form # "active"
      BY <1>6 DEF Use
    <2>5. TorchOK(items'[j], j \notin rested')
      BY <2>1, <2>3, <2>4 DEF TorchOK
    <2> QED  BY <2>1, <2>5 DEF Stays, TorchOK
  <1> QED  BY <1>2, <1>3, <1>4, <1>5, <1>6

LEMMA SwapLemma ==
  ASSUME DecayInv, NEW j \in Items, NEW k \in Items, Swap(j, k), NEW i \in Items
  PROVE  Stays(i)
  <1>1. /\ j # k /\ {j, k} \subseteq Rings /\ items[j].place = "bag"
        /\ RingOK(items[j]) /\ RingOK(items[k]) /\ {j, k} \cap Torches = {}
    BY PlaceLemma, DecayAssumption DEF Swap, InBag, DecayInv
  <1>2. /\ items'[j] \in Worn(items[j]) \cup {items[j]} /\ items'[k] \in Off(items[k])
        /\ (i \notin {j, k} => items'[i] = items[i])
        /\ rested' = rested \cup {k}
    BY <1>1 DEF Swap, DecayInv
  <1>3. RingOK(items'[j]) /\ items'[j].place \in {"slot", "bag"}
    BY <1>1, <1>2, WornLemma
  <1>4. RingOK(items'[k]) /\ items'[k].place = "bag"
    BY <1>1, <1>2, OffLemma
  <1>5. CASE i \notin {j, k}
    BY <1>2, <1>5, UntouchedLemma
  <1> QED  BY <1>1, <1>3, <1>4, <1>5 DEF Stays

LEMMA RelogLemma ==
  ASSUME DecayInv, Relog, NEW i \in Items
  PROVE  Stays(i)
  <1>1. PICK z \in Left(items[i]) : items'[i] = StartDecay(Saved(z))
    BY DEF Relog
  <1>2. rested' = rested
    BY DEF Relog
  <1>3. i \in Rings => RingOK(items'[i]) /\ (items'[i].place = "gone" => items[i].place = "gone")
    BY <1>1, RelogRingLemma DEF DecayInv
  <1>4. i \in Torches => TorchOK(items'[i], i \notin rested)
    BY <1>1, RelogTorchLemma DEF DecayInv
  <1> QED  BY <1>2, <1>3, <1>4 DEF Stays, Items, TorchOK

LEMMA InitLemma == Init => DecayInv
  <1> SUFFICES ASSUME Init PROVE DecayInv
    OBVIOUS
  <1>1. <<>> \in Seq(Nat)
    OBVIOUS
  <1>2. \A i \in Items : items[i] = [form |-> "idle", place |-> "bag", state |-> "no",
                                   dur |-> None, cache |-> <<>>, eq |-> None, queue |-> {}]
    BY DEF Init
  <1>3. items \in [Items -> Entry]
    BY <1>1 DEF Init, Entry
  <1>4. \A i \in Items : Sound(items[i])
    BY <1>2, <1>3 DEF Sound
  <1> QED  BY <1>2, <1>3, <1>4 DEF DecayInv, Items, RingOK, TorchOK, Queued

LEMMA StepLemma ==
  ASSUME DecayInv, Next
  PROVE  DecayInv' /\ \A i \in Items : Stays(i)
  <1>1. \A i \in Items : Stays(i)
    BY CleanLemma, TickLemma, CycleLemma, PlayerLemma, SwapLemma, RelogLemma DEF Next
  <1>2. \A i \in Items : items'[i] \in Entry
    BY <1>1 DEF Stays, Items, RingOK, TorchOK, Sound
  <1>3. items' = [i \in Items |-> items'[i]]
    BY DEF DecayInv, Next, PutOn, TakeOff, Move, Use, Swap, Relog, DecayCleanCycle,
           EquipmentDecayCycle, ItemDecayCycle, Tick
  <1>4. items' \in [Items -> Entry]
    BY <1>2, <1>3
  <1>5. \A i \in Rings : RingOK(items'[i])
    BY <1>1 DEF Stays, Items
  <1>6. \A i \in Torches : TorchOK(items'[i], i \notin rested')
    BY <1>1 DEF Stays, Items
  <1>7. (\A i \in Rings : RingOK(items[i]))' /\ (\A i \in Torches : TorchOK(items[i], i \notin rested))'
    BY <1>5, <1>6
  <1> QED  BY <1>1, <1>4, <1>7 DEF DecayInv

-----------------------------------------------------------------------------
\* Whatever is worn is on the clock, and so is a lit torch that was never put
\* out, for every set of items and every duration.
THEOREM DecayCounted == Spec => []Counted
  <1>1. DecayInv /\ UNCHANGED vars => DecayInv'
    BY DEF DecayInv, vars
  <1>2. DecayInv => Counted
    <2> SUFFICES ASSUME DecayInv, NEW i \in Items
                 PROVE  /\ items[i].place = "slot" /\ items[i].dur # 0 => Counts(i)
                        /\ i \in Torches \ rested /\ items[i].form = "active" => Counts(i)
      BY DEF Counted
    <2>1. CASE i \in Rings
      BY <2>1, DecayAssumption DEF DecayInv, RingOK, Queued, Counts
    <2>2. CASE i \in Torches
      BY <2>2, DecayAssumption DEF DecayInv, TorchOK, Counts
    <2> QED  BY <2>1, <2>2 DEF Items
  <1> QED  BY <1>1, <1>2, InitLemma, StepLemma, PTL DEF Spec

\* The clock takes no ring that is not worn at the time.
THEOREM DecayOnlyWornGo == Spec => OnlyWornGo
  <1>1. DecayInv /\ UNCHANGED vars => DecayInv'
    BY DEF DecayInv, vars
  <1>2. DecayInv /\ [Next]_vars =>
          [\A i \in Items : items'[i].place = "gone" => items[i].place \in {"slot", "gone"}]_vars
    BY StepLemma DEF Stays
  <1> QED  BY <1>1, <1>2, InitLemma, StepLemma, PTL DEF Spec, OnlyWornGo

-----------------------------------------------------------------------------
(* How long a ring lasts.                                                   *)

\* What a push puts into the pre-cache.
Ahead(x) == IF x.dur < 0 THEN 0 ELSE x.dur

\* w: the ticks the ring has been worn; fresh: it has never been taken off.
\* Neither the duration of a ring that does not count, nor any entry that has
\* come in, promises more than is left; of a fresh ring there is one entry, and
\* it promises exactly that.
TimeOK(x, w, fresh) ==
    /\ w \in Nat /\ x.dur \in Nat \cup {-1, None}
    /\ x.dur = None => w = 0
    /\ x.dur \in {None, 0} => x.cache = <<>> /\ x.eq = None
    /\ x.dur # 0 => w <= Lasts
    /\ x.cache # <<>> \/ x.eq # None => x.state = "yes"
    /\ x.cache # <<>> => x.eq = None
    /\ x.dur \notin {None, 0} /\ (x.place = "bag" \/ (x.place = "slot" /\ x.eq = None)) =>
          w + Ahead(x) <= Lasts
    /\ \A c \in ToSet(x.cache) : w + c <= Lasts
    /\ x.eq # None => w + x.eq <= Lasts
    /\ fresh /\ x.place = "bag" => x.dur = None /\ x.state = "no" /\ x.queue = {}
    /\ fresh /\ x.place = "gone" => w = Lasts
    /\ fresh /\ x.place = "slot" /\ x.dur # 0 /\ x.eq # None =>
          w + x.eq = Lasts /\ x.queue = {x.eq}
    /\ fresh /\ x.place = "slot" /\ x.dur # 0 /\ x.eq = None =>
          w + Ahead(x) = Lasts /\ x.queue = {} /\ x.cache = <<Ahead(x)>>

TimeInv == worn \in [Items -> Nat] /\ \A i \in Rings : TimeOK(items[i], worn[i], i \notin rested)

\* What is left when an item stops to count.
Left0(x) == IF x.eq = 0 THEN {0, -1} ELSE {x.eq}

LEMMA IdleLemma ==
  ASSUME NEW x, Sound(x), x.eq # None => x.state = "yes", NEW y \in SetID(x, "idle")
  PROVE  \/ x.eq = None /\ y = [x EXCEPT !.form = "idle"]
         \/ /\ x.eq # None
            /\ \E d \in Left0(x) :
                  y = [x EXCEPT !.form = "idle", !.state = "no", !.eq = None, !.dur = d]
  <1> DEFINE zs == IF x.eq # None /\ x.state # "no" THEN Stopped(x) ELSE {x}
  <1>1. PICK z \in zs : y = [z EXCEPT !.form = "idle", !.state = z.state, !.dur = z.dur]
    BY DEF SetID
  <1>2. CASE x.eq = None
    <2>1. z = x
      BY <1>2
    <2>2. y = [x EXCEPT !.form = "idle"]
      BY <1>1, <2>1 DEF Sound, Entry
    <2> QED  BY <1>2, <2>2
  <1>3. CASE x.eq # None
    <2>1. z \in Stopped(x)
      BY <1>3
    <2>2. PICK d \in Left0(x) : z = [x EXCEPT !.state = "no", !.eq = None, !.dur = d]
      BY <2>1 DEF Stopped, Left0
    <2>3. y = [x EXCEPT !.form = "idle", !.state = "no", !.eq = None, !.dur = d]
      BY <1>1, <2>2 DEF Sound, Entry
    <2> QED  BY <1>3, <2>3
  <1> QED  BY <1>2, <1>3

LEMMA ActiveLemma ==
  ASSUME NEW x, Sound(x), x.form = "idle", x.eq # None => x.state = "yes",
         NEW y \in SetID(x, "active")
  PROVE  \/ /\ x.eq = None /\ x.dur = None
            /\ y = [x EXCEPT !.form = "active", !.state = "no", !.dur = Lasts]
         \/ x.eq = None /\ x.dur # None /\ y = [x EXCEPT !.form = "active"]
         \/ /\ x.eq # None
            /\ \E d \in Left0(x) :
                  y = [x EXCEPT !.form = "active", !.state = "no", !.eq = None, !.dur = d]
  <1> DEFINE zs == IF x.eq # None /\ x.state # "no" THEN Stopped(x) ELSE {x}
  <1>1. PICK z \in zs :
          y = [z EXCEPT !.form = "active", !.state = IF z.dur = None THEN "no" ELSE z.state,
                        !.dur = IF z.dur = None THEN Lasts ELSE z.dur]
    <2>1. PICK z \in zs :
          y = [z EXCEPT !.form = "active",
                        !.state = IF x.form # "idle" \/ z.dur = None THEN "no" ELSE z.state,
                        !.dur = IF x.form # "idle" \/ z.dur = None THEN Lasts ELSE z.dur]
      BY DEF SetID
    <2> QED  BY <2>1
  <1>2. CASE x.eq = None
    <2>1. z = x
      BY <1>2
    <2>2. CASE x.dur = None
      <3>1. y = [x EXCEPT !.form = "active", !.state = "no", !.dur = Lasts]
        BY <1>1, <2>1, <2>2
      <3> QED  BY <1>2, <2>2, <3>1
    <2>3. CASE x.dur # None
      <3>1. y = [x EXCEPT !.form = "active", !.state = x.state, !.dur = x.dur]
        BY <1>1, <2>1, <2>3
      <3>2. y = [x EXCEPT !.form = "active"]
        BY <3>1 DEF Sound, Entry
      <3> QED  BY <1>2, <2>3, <3>2
    <2> QED  BY <2>2, <2>3
  <1>3. CASE x.eq # None
    <2>1. z \in Stopped(x)
      BY <1>3
    <2>2. PICK d \in Left0(x) : z = [x EXCEPT !.state = "no", !.eq = None, !.dur = d]
      BY <2>1 DEF Stopped, Left0
    <2>3. d # None
      BY <1>3, DecayAssumption DEF Left0, Sound, Entry
    <2>4. z.dur = d /\ z.state = "no"
      BY <2>2 DEF Sound, Entry
    <2>5. y = [z EXCEPT !.form = "active", !.state = z.state, !.dur = z.dur]
      BY <1>1, <2>3, <2>4
    <2>6. y = [x EXCEPT !.form = "active", !.state = "no", !.eq = None, !.dur = d]
      BY <2>2, <2>4, <2>5 DEF Sound, Entry
    <2> QED  BY <1>3, <2>6
  <1> QED  BY <1>2, <1>3

\* The pre-cache after a push.
Pushed(x) == IF Ahead(x) \in ToSet(x.cache) THEN x.cache ELSE Append(x.cache, Ahead(x))

LEMMA PushedLemma ==
  ASSUME NEW x, Sound(x), x.dur # None
  PROVE  /\ Pushed(x) \in Seq(Nat) /\ Pushed(x) # <<>>
         /\ ToSet(Pushed(x)) = ToSet(x.cache) \cup {Ahead(x)}
         /\ x.cache = <<>> => Pushed(x) = <<Ahead(x)>>
         /\ Push(x) = [x EXCEPT !.cache = Pushed(x)]
  <1>1. Ahead(x) \in Nat /\ x.cache \in Seq(Nat)
    BY DEF Sound, Entry, Ahead
  <1> DEFINE s == x.cache
             e == Ahead(x)
  <1>2. CASE e \in ToSet(s)
    <2>1. s # <<>>
      BY <1>1, <1>2 DEF ToSet
    <2>2. x = [x EXCEPT !.cache = x.cache]
      BY DEF Sound, Entry
    <2> QED  BY <1>1, <1>2, <2>1, <2>2 DEF Pushed, Push, Ahead
  <1>3. CASE e \notin ToSet(s)
    <2>1. Append(s, e) \in Seq(Nat) /\ Append(s, e) # <<>>
      BY <1>1
    <2>2. ToSet(Append(s, e)) = ToSet(s) \cup {e}
      <3> HIDE DEF e, s
      <3>1. s \in Seq(Nat) /\ e \in Nat
        BY <1>1 DEF e, s
      <3>2. /\ DOMAIN Append(s, e) = 1 .. Len(s) + 1 /\ DOMAIN s = 1 .. Len(s) /\ Len(s) \in Nat
            /\ Append(s, e)[Len(s) + 1] = e
            /\ \A n \in 1 .. Len(s) : Append(s, e)[n] = s[n]
        BY <3>1
      <3>3. 1 .. Len(s) + 1 = 1 .. Len(s) \cup {Len(s) + 1}
        BY <3>2
      <3> QED  BY <3>2, <3>3 DEF ToSet
    <2>3. s = <<>> => Append(s, e) = <<e>>
      OBVIOUS
    <2>4. Push(x) = [x EXCEPT !.cache = Append(s, e)]
      BY <1>3 DEF Push, Ahead
    <2> QED  BY <1>3, <2>1, <2>2, <2>3, <2>4 DEF Pushed
  <1> QED  BY <1>2, <1>3

\* A ring in the slot whose entry does not count is put on the clock, for as
\* long as its duration.
LEMMA PutLemma ==
  ASSUME NEW z, Sound(z), z.form = "active", z.place = "slot"
  PROVE  /\ z.dur = 0 => StartDecay(z) = z /\ Arrived(z) = z
         /\ z.dur # 0 =>
               Arrived(StartDecay(z)) = [z EXCEPT !.state = "yes", !.cache = Pushed(z)]
  <1>1. z.dur = 0 => StartDecay(z) = z /\ Arrived(z) = z
    BY DEF StartDecay, Arrived, Lasting
  <1>2. ASSUME z.dur # 0
        PROVE  Arrived(StartDecay(z)) = [z EXCEPT !.state = "yes", !.cache = Pushed(z)]
    <2> DEFINE y == [z EXCEPT !.state = "yes"]
               p == [z EXCEPT !.state = "yes", !.cache = Pushed(z)]
    <2>1. Sound(y) /\ y.dur # None /\ Pushed(y) = Pushed(z)
      BY DEF Sound, Entry, Pushed, Ahead
    <2>2. Push(y) = p
      <3>1. Push(y) = [y EXCEPT !.cache = Pushed(y)]
        BY <2>1, PushedLemma
      <3> QED  BY <2>1, <3>1
    <2>3. /\ Pushed(z) \in Seq(Nat) /\ ToSet(Pushed(z)) = ToSet(z.cache) \cup {Ahead(z)}
      BY PushedLemma DEF Sound
    <2>4. /\ p \in Entry /\ p.dur = z.dur /\ p.cache = Pushed(z) /\ p.state = "yes"
          /\ p.place = "slot" /\ p.form = "active"
      BY <2>3 DEF Sound, Entry
    <2>5. Arrived(p) = p
      <3>1. Lasting(p)
        BY <1>2, <2>4 DEF Lasting, Sound
      <3>2. Arrived(p) = Push(p)
        BY <2>4, <3>1 DEF Arrived
      <3>3. Ahead(p) = Ahead(z)
        BY <2>4 DEF Ahead
      <3>4. Push(p) = p
        BY <2>3, <2>4, <3>3 DEF Push, Ahead
      <3> QED  BY <3>2, <3>4
    <2>6. CASE z.state = "yes"
      <3>1. StartDecay(z) = z /\ y = z
        BY <2>6 DEF StartDecay, Sound, Entry
      <3>2. Arrived(z) = Push(z)
        BY <1>2, <2>6 DEF Arrived, Lasting, Sound
      <3> QED  BY <2>2, <3>1, <3>2
    <2>7. CASE z.state # "yes"
      <3>1. StartDecay(z) = Push(y)
        BY <1>2, <2>7 DEF StartDecay
      <3> QED  BY <2>2, <2>5, <3>1
    <2> QED  BY <2>6, <2>7
  <1> QED  BY <1>1, <1>2

\* The duration of a ring that is put on or taken off does not promise more
\* than is left.
LEMMA WornTimeLemma ==
  ASSUME NEW x, NEW w, NEW fresh \in BOOLEAN, RingOK(x), TimeOK(x, w, fresh), x.place = "bag",
         NEW y \in Worn(x)
  PROVE  TimeOK(y, w, fresh)
  <1> DEFINE b == [x EXCEPT !.place = "slot"]
  <1>1. /\ Sound(b) /\ b.form = "idle" /\ b.place = "slot" /\ b.eq = x.eq /\ b.dur = x.dur
        /\ b.state = x.state /\ b.cache = x.cache /\ b.queue = x.queue
        /\ (b.eq # None => b.state = "yes")
    BY DEF RingOK, Sound, Entry, TimeOK
  <1>2. PICK z \in SetID(b, "active") : y = Arrived(StartDecay(z))
    BY <1>1 DEF Worn, EquipItem
  <1> HIDE DEF b
  <1>3. /\ Sound(z) /\ z.form = "active" /\ z.place = "slot"
        /\ z.queue = x.queue /\ z.cache = x.cache
    BY <1>1, <1>2, SetIDLemma
  <1>4. w \in Nat /\ x.dur \in Nat \cup {-1, None} /\ x.queue \subseteq Nat /\ x.cache \in Seq(Nat)
    BY DEF TimeOK, RingOK, Sound, Entry
  <1>5. /\ z.eq = None /\ z.dur \in Nat \cup {-1} /\ (z.dur = 0 => z.cache = <<>>)
        /\ (z.dur # 0 => w <= Lasts /\ w + Ahead(z) <= Lasts)
        /\ fresh => w + Ahead(z) = Lasts /\ z.queue = {} /\ z.cache = <<>>
    <2>1. CASE b.eq = None /\ b.dur = None /\ z = [b EXCEPT !.form = "active", !.state = "no", !.dur = Lasts]
      <3>1. z.eq = None /\ z.dur = Lasts
        BY <1>1, <2>1 DEF Sound, Entry
      <3>2. w = 0 /\ x.cache = <<>> /\ (fresh => x.queue = {})
        BY <1>1, <2>1 DEF TimeOK
      <3> QED  BY <1>3, <3>1, <3>2, DecayAssumption DEF Ahead
    <2>2. CASE b.eq = None /\ b.dur # None /\ z = [b EXCEPT !.form = "active"]
      <3>1. z.eq = None /\ z.dur = x.dur /\ x.dur # None
        BY <1>1, <2>2 DEF Sound, Entry
      <3>2. Ahead(z) = Ahead(x)
        BY <3>1 DEF Ahead
      <3>3. ~fresh
        BY <1>1, <2>2 DEF TimeOK
      <3>4. /\ x.dur = 0 => x.cache = <<>>
            /\ x.dur # 0 => w <= Lasts /\ w + Ahead(x) <= Lasts
        BY <3>1 DEF TimeOK
      <3> QED  BY <1>3, <1>4, <3>1, <3>2, <3>3, <3>4
    <2>3. CASE /\ b.eq # None
               /\ \E d \in Left0(b) :
                     z = [b EXCEPT !.form = "active", !.state = "no", !.eq = None, !.dur = d]
      <3>1. PICK d \in Left0(b) :
                     z = [b EXCEPT !.form = "active", !.state = "no", !.eq = None, !.dur = d]
        BY <2>3
      <3>2. z.eq = None /\ z.dur = d
        BY <1>1, <3>1 DEF Sound, Entry
      <3>3. x.eq \in Nat /\ d \in Nat \cup {-1} /\ Ahead(z) = x.eq
        BY <1>1, <2>3, <3>1, <3>2 DEF Left0, Sound, Entry, Ahead
      <3>4. x.cache = <<>> /\ w + x.eq <= Lasts /\ ~fresh
        BY <1>1, <2>3 DEF TimeOK
      <3> QED  BY <1>3, <1>4, <3>2, <3>3, <3>4, DecayAssumption
    <2> QED  BY <1>1, <1>2, <2>1, <2>2, <2>3, ActiveLemma
  <1>6. \A c \in ToSet(x.cache) : w + c <= Lasts
    BY DEF TimeOK
  <1>7. CASE z.dur = 0
    <2>1. y = z
      BY <1>2, <1>3, <1>7, PutLemma
    <2> QED
      BY <1>3, <1>4, <1>5, <1>6, <1>7, <2>1, DecayAssumption DEF TimeOK
  <1>8. CASE z.dur # 0
    <2>1. y = [z EXCEPT !.state = "yes", !.cache = Pushed(z)]
      BY <1>2, <1>3, <1>8, PutLemma
    <2>2. /\ Pushed(z) \in Seq(Nat) /\ ToSet(Pushed(z)) = ToSet(z.cache) \cup {Ahead(z)}
          /\ z.cache = <<>> => Pushed(z) = <<Ahead(z)>>
      BY <1>3, PushedLemma DEF Sound
    <2>3. /\ y.dur = z.dur /\ y.state = "yes" /\ y.cache = Pushed(z) /\ y.eq = None
          /\ y.queue = z.queue /\ y.place = "slot"
      BY <1>3, <1>5, <2>1 DEF Sound, Entry
    <2>4. Ahead(y) = Ahead(z) /\ y.dur # None
      BY <1>3, <2>3 DEF Ahead, Sound
    <2>5. \A c \in ToSet(y.cache) : w + c <= Lasts
      BY <1>3, <1>5, <1>6, <1>8, <2>2, <2>3
    <2> QED
      BY <1>4, <1>5, <1>8, <2>2, <2>3, <2>4, <2>5 DEF TimeOK
  <1> QED  BY <1>7, <1>8

LEMMA ArrivedTimeLemma ==
  ASSUME NEW x, NEW w, NEW fresh \in BOOLEAN, Sound(x), TimeOK(x, w, fresh), x.place = "bag"
  PROVE  TimeOK(Arrived(x), w, fresh)
  <1>1. CASE Arrived(x) = x
    BY <1>1
  <1>2. CASE Arrived(x) # x
    <2>1. Lasting(x) /\ Arrived(x) = [x EXCEPT !.state = "yes"]
      BY <1>2 DEF Arrived
    <2> DEFINE y == [x EXCEPT !.state = "yes"]
    <2>2. /\ y.dur = x.dur /\ y.state = "yes" /\ y.cache = x.cache /\ y.eq = x.eq
          /\ y.queue = x.queue /\ y.place = "bag"
      BY DEF Sound, Entry
    <2>3. ~fresh
      BY <2>1 DEF Lasting, TimeOK
    <2> HIDE DEF y
    <2>4. TimeOK(y, w, fresh)
      BY <2>2, <2>3 DEF TimeOK, Ahead
    <2> QED  BY <2>1, <2>4 DEF y
  <1> QED  BY <1>1, <1>2

LEMMA OffTimeLemma ==
  ASSUME NEW x, NEW w, NEW fresh \in BOOLEAN, RingOK(x), TimeOK(x, w, fresh), x.place = "slot",
         NEW y \in Off(x)
  PROVE  TimeOK(y, w, FALSE)
  <1> DEFINE b == [x EXCEPT !.place = "bag"]
  <1>1. /\ Sound(b) /\ b.place = "bag" /\ b.eq = x.eq /\ b.dur = x.dur /\ x.dur # None
        /\ b.state = x.state /\ b.cache = x.cache /\ b.queue = x.queue
        /\ (b.eq # None => b.state = "yes")
    BY DEF RingOK, Sound, Entry, TimeOK
  <1>2. y \in SetID(b, "idle")
    BY DEF Off, DeEquipItem
  <1> HIDE DEF b
  <1>3. w \in Nat /\ x.dur \in Nat \cup {-1, None} /\ x.eq \in Nat \cup {None}
    BY DEF TimeOK, RingOK, Sound, Entry
  <1>4. CASE b.eq = None /\ y = [b EXCEPT !.form = "idle"]
    <2>1. /\ y.dur = x.dur /\ y.state = x.state /\ y.cache = x.cache /\ y.eq = None
          /\ y.queue = x.queue /\ y.place = "bag"
      BY <1>1, <1>4 DEF Sound, Entry
    <2>2. Ahead(y) = Ahead(x) /\ x.eq = None
      BY <1>1, <1>4, <2>1 DEF Ahead
    <2> QED  BY <1>1, <1>3, <2>1, <2>2 DEF TimeOK
  <1>5. CASE /\ b.eq # None
             /\ \E d \in Left0(b) :
                   y = [b EXCEPT !.form = "idle", !.state = "no", !.eq = None, !.dur = d]
    <2>1. PICK d \in Left0(b) :
                   y = [b EXCEPT !.form = "idle", !.state = "no", !.eq = None, !.dur = d]
      BY <1>5
    <2>2. /\ y.dur = d /\ y.cache = x.cache /\ y.eq = None /\ y.place = "bag"
      BY <1>1, <2>1 DEF Sound, Entry
    <2>3. x.eq \in Nat /\ d \in Nat \cup {-1} /\ Ahead(y) = x.eq
      BY <1>1, <1>3, <1>5, <2>1, <2>2 DEF Left0, Ahead
    <2>4. x.cache = <<>> /\ w + x.eq <= Lasts
      BY <1>1, <1>5 DEF TimeOK
    <2>5. y.dur # None /\ w <= Lasts /\ ToSet(y.cache) = {}
      BY <1>3, <2>2, <2>3, <2>4, DecayAssumption DEF ToSet
    <2> QED  BY <1>3, <2>2, <2>3, <2>4, <2>5 DEF TimeOK
  <1> QED  BY <1>1, <1>2, <1>4, <1>5, IdleLemma

\* What has been saved and loaded is on the clock anew, for what was left.
LEMMA LoadedLemma ==
  ASSUME NEW z, NEW w \in Nat, NEW fresh \in BOOLEAN, Sound(z), z.form = "active", z.place = "slot",
         z.dur \in Nat \cup {-1}, z.dur # 0 => w + Ahead(z) <= Lasts /\ (fresh => w + Ahead(z) = Lasts)
  PROVE  TimeOK(StartDecay(Saved(z)), w, fresh)
  <1> DEFINE u == Saved(z)
             y == [u EXCEPT !.state = "yes"]
             v == StartDecay(u)
  <1>1. /\ Sound(u) /\ u.form = "active" /\ u.place = "slot" /\ u.eq = None /\ u.queue = {}
        /\ u.cache = <<>> /\ u.state # "yes"
        /\ z.dur = -1 => u.dur = 0
        /\ z.dur # -1 => u.dur = z.dur
    BY SavedLemma
  <1>2. u.dur \in Nat /\ (u.dur # 0 => z.dur # 0 /\ u.dur = Ahead(z))
    BY <1>1 DEF Ahead
  <1>3. ToSet(<<>>) = {} /\ ToSet(<<u.dur>>) = {u.dur}
    BY DEF ToSet
  <1> HIDE DEF u
  <1>4. CASE u.dur = 0
    <2>1. v = u
      BY <1>1, <1>4 DEF StartDecay
    <2>2. TimeOK(u, w, fresh)
      BY <1>1, <1>3, <1>4, DecayAssumption DEF TimeOK
    <2> QED  BY <2>1, <2>2 DEF u
  <1>5. CASE u.dur # 0
    <2>1. v = Push(y)
      BY <1>1, <1>5 DEF StartDecay
    <2>2. /\ Sound(y) /\ y.dur = u.dur /\ y.dur # None /\ y.cache = <<>> /\ y.state = "yes"
          /\ y.eq = None /\ y.queue = {} /\ y.place = "slot"
      BY <1>1 DEF Sound, Entry
    <2>3. Ahead(y) = u.dur
      BY <1>2, <2>2 DEF Ahead
    <2> HIDE DEF y
    <2>4. v = [y EXCEPT !.cache = <<u.dur>>]
      BY <2>1, <2>2, <2>3, PushedLemma
    <2>5. /\ v.dur = u.dur /\ v.cache = <<u.dur>> /\ v.state = "yes" /\ v.eq = None
          /\ v.queue = {} /\ v.place = "slot"
      BY <2>2, <2>4 DEF Sound, Entry
    <2> HIDE DEF v
    <2>6. Ahead(v) = u.dur /\ u.dur # None /\ <<u.dur>> # <<>>
      BY <1>2, <2>5, DecayAssumption DEF Ahead
    <2>7. w + u.dur <= Lasts /\ w <= Lasts /\ (fresh => w + u.dur = Lasts)
      BY <1>2, <1>5, DecayAssumption
    <2>8. TimeOK(v, w, fresh)
      BY <1>2, <1>3, <1>5, <2>5, <2>6, <2>7 DEF TimeOK
    <2> QED  BY <2>8 DEF u, v
  <1> QED  BY <1>4, <1>5

LEMMA RelogTimeLemma ==
  ASSUME NEW x, NEW w, NEW fresh \in BOOLEAN, RingOK(x), TimeOK(x, w, fresh), NEW z \in Left(x)
  PROVE  TimeOK(StartDecay(Saved(z)), w, fresh)
  <1>1. w \in Nat /\ x.dur \in Nat \cup {-1, None} /\ x.eq \in Nat \cup {None} /\ Sound(x)
    BY DEF TimeOK, RingOK, Sound, Entry
  <1>2. CASE x.place = "slot"
    <2>1. PICK y \in SetID(x, "idle") : z \in EquipItem(y)
      BY <1>2 DEF Left, DeEquipItem
    <2>2. Sound(y) /\ y.form = "idle" /\ y.place = "slot"
      BY <1>2, <2>1, SetIDLemma DEF RingOK
    <2>3. PICK a \in SetID(y, "active") : z = StartDecay(a)
      BY <2>1, <2>2 DEF EquipItem
    <2>4. Sound(a) /\ a.form = "active" /\ a.place = "slot"
      BY <2>2, <2>3, SetIDLemma
    <2>5. /\ y.eq = None /\ y.dur \in Nat \cup {-1}
          /\ y.dur # 0 => w + Ahead(y) <= Lasts /\ (fresh => w + Ahead(y) = Lasts)
      <3>1. CASE x.eq = None /\ y = [x EXCEPT !.form = "idle"]
        <4>1. y.eq = None /\ y.dur = x.dur /\ x.dur # None
          BY <1>2, <3>1 DEF RingOK, Sound, Entry
        <4>2. Ahead(y) = Ahead(x)
          BY <4>1 DEF Ahead
        <4> QED  BY <1>1, <1>2, <3>1, <4>1, <4>2 DEF TimeOK
      <3>2. CASE /\ x.eq # None
                 /\ \E d \in Left0(x) :
                       y = [x EXCEPT !.form = "idle", !.state = "no", !.eq = None, !.dur = d]
        <4>1. PICK d \in Left0(x) :
                       y = [x EXCEPT !.form = "idle", !.state = "no", !.eq = None, !.dur = d]
          BY <3>2
        <4>2. y.eq = None /\ y.dur = d
          BY <1>1, <4>1 DEF Sound, Entry
        <4>3. x.eq \in Nat /\ d \in Nat \cup {-1} /\ Ahead(y) = x.eq
          BY <1>1, <3>2, <4>1, <4>2 DEF Left0, Ahead
        <4>4. w + x.eq <= Lasts /\ (fresh => w + x.eq = Lasts)
          BY <1>2, <3>2 DEF TimeOK
        <4> QED  BY <4>2, <4>3, <4>4
      <3>3. x.eq # None => x.state = "yes"
        BY DEF TimeOK
      <3> QED  BY <1>1, <2>1, <3>1, <3>2, <3>3, IdleLemma
    <2>6. a.dur = y.dur
      <3>1. a = [y EXCEPT !.form = "active"]
        <4>1. y.eq = None /\ y.dur # None
          BY <2>5, DecayAssumption
        <4> QED  BY <2>2, <2>3, <4>1, ActiveLemma, Zenon
      <3> QED  BY <2>2, <3>1 DEF Sound, Entry
    <2>7. PICK s, c : z = [a EXCEPT !.state = s, !.cache = c]
      <3>1. \E s, c : StartDecay(a) = [a EXCEPT !.state = s, !.cache = c]
        BY <2>4, StartDecayLemma, Zenon
      <3> QED  BY <2>3, <3>1, Zenon
    <2>8. z \in Entry
      BY <2>3, <2>4, StartDecayLemma
    <2>9. Sound(z) /\ z.form = "active" /\ z.place = "slot" /\ z.dur = y.dur
      BY <2>4, <2>6, <2>7, <2>8 DEF Sound, Entry
    <2>10. Ahead(z) = Ahead(y)
      BY <2>9 DEF Ahead
    <2> QED  BY <1>1, <2>5, <2>9, <2>10, LoadedLemma
  <1>3. CASE x.place # "slot"
    <2> DEFINE u == Saved(x)
    <2>1. z = x
      BY <1>3 DEF Left
    <2>2. /\ Sound(u) /\ u.form = x.form /\ u.place = x.place /\ u.eq = None /\ u.queue = {}
          /\ u.cache = <<>>
          /\ x.dur = -1 => u.dur = 0
          /\ x.dur # -1 => u.dur = x.dur
          /\ x.state = "no" => u.state = "no"
      BY <1>1, SavedLemma
    <2> HIDE DEF u
    <2>3. StartDecay(u) = u
      <3>1. u.place = "gone" \/ u.form # "active"
        BY <1>1, <1>3, <2>2 DEF RingOK, Sound, Entry
      <3> QED  BY <3>1 DEF StartDecay
    <2>4. /\ u.dur \in Nat \cup {None}
          /\ u.dur \notin {None, 0} => u.dur = x.dur /\ Ahead(u) = Ahead(x)
          /\ x.dur = None <=> u.dur = None
      BY <1>1, <2>2, DecayAssumption DEF Ahead
    <2>5. ToSet(<<>>) = {}
      BY DEF ToSet
    <2>6. TimeOK(u, w, fresh)
      BY <1>1, <1>3, <2>2, <2>4, <2>5 DEF TimeOK
    <2> QED  BY <2>1, <2>3, <2>6 DEF u
  <1> QED  BY <1>2, <1>3

-----------------------------------------------------------------------------
TimeKept(i) == worn'[i] \in Nat /\ (i \in Rings => TimeOK(items'[i], worn'[i], i \notin rested'))

LEMMA UntouchedTimeLemma ==
  ASSUME TimeInv, NEW i \in Items, items'[i] = items[i], worn' = worn, rested' = rested
  PROVE  TimeKept(i)
  BY DEF TimeInv, TimeKept

LEMMA CleanTimeLemma ==
  ASSUME DecayInv, TimeInv, DecayCleanCycle, NEW i \in Items
  PROVE  TimeKept(i)
  <1> SUFFICES ASSUME i \in Rings PROVE TimeOK(items'[i], worn[i], i \notin rested)
    BY DEF TimeKept, TimeInv, DecayCleanCycle
  <1> DEFINE x == items[i]
             w == worn[i]
             fresh == i \notin rested
             e == IF x.eq = None /\ x.cache # <<>> THEN Head(x.cache) ELSE x.eq
             y == [x EXCEPT !.cache = <<>>, !.queue = @ \cup ToSet(x.cache), !.eq = e]
  <1>1. items'[i] = y /\ RingOK(x) /\ TimeOK(x, w, fresh)
    BY DEF DecayCleanCycle, DecayInv, TimeInv
  <1>2. x \in Entry /\ x.cache \in Seq(Nat) /\ w \in Nat
    BY <1>1 DEF RingOK, Sound, Entry, TimeOK
  <1>3. /\ x.cache # <<>> => Head(x.cache) \in ToSet(x.cache)
        /\ ToSet(x.cache) \subseteq Nat /\ ToSet(<<>>) = {}
    BY <1>2 DEF ToSet
  <1>4. /\ y.form = x.form /\ y.place = x.place /\ y.dur = x.dur /\ y.cache = <<>>
        /\ y.state = x.state /\ y.eq = e /\ y.queue = x.queue \cup ToSet(x.cache)
    BY <1>2 DEF Entry
  <1>5. Ahead(y) = Ahead(x)
    BY <1>4 DEF Ahead
  <1>6. ASSUME x.cache = <<>> PROVE TimeOK(y, w, fresh)
    <2>1. e = x.eq /\ y.queue = x.queue
      BY <1>3, <1>4, <1>6
    <2>9. TimeOK(y, w, fresh)
      <3> HIDE DEF x, y, e, w, fresh
      <3> QED  BY <1>1, <1>3, <1>4, <1>5, <1>6, <2>1 DEF TimeOK
    <2> QED  BY <2>9
  <1>7. ASSUME x.cache # <<>> PROVE TimeOK(y, w, fresh)
    <2>1. /\ x.eq = None /\ e = Head(x.cache) /\ e \in ToSet(x.cache) /\ e \in Nat
      BY <1>1, <1>3, <1>7 DEF TimeOK
    <2>2. x.dur \notin {None, 0} /\ x.state = "yes" /\ w + e <= Lasts
      BY <1>1, <1>7, <2>1 DEF TimeOK
    <2>3. fresh /\ x.place = "slot" => w + e = Lasts /\ y.queue = {e}
      <3>1. ASSUME fresh, x.place = "slot" PROVE w + e = Lasts /\ y.queue = {e}
        <4>1. w + Ahead(x) = Lasts /\ x.queue = {} /\ x.cache = <<Ahead(x)>>
          BY <1>1, <2>1, <2>2, <3>1 DEF TimeOK
        <4>2. e = Ahead(x) /\ ToSet(<<Ahead(x)>>) = {Ahead(x)}
          BY <2>1, <4>1 DEF ToSet
        <4> QED  BY <1>4, <4>1, <4>2
      <3> QED  BY <3>1
    <2>4. fresh => x.place # "bag"
      BY <1>1, <2>2 DEF TimeOK
    <2>9. TimeOK(y, w, fresh)
      <3> HIDE DEF x, y, e, w, fresh
      <3> QED  BY <1>1, <1>2, <1>3, <1>4, <1>5, <2>1, <2>2, <2>3, <2>4, DecayAssumption DEF TimeOK
    <2> QED  BY <2>9
  <1> HIDE DEF y
  <1> QED  BY <1>1, <1>6, <1>7

\* A tick takes one from what is left of a ring and adds one to what it has been
\* worn.
LEMMA TickTimeLemma ==
  ASSUME DecayInv, TimeInv, Tick, NEW i \in Items
  PROVE  TimeKept(i)
  <1> DEFINE x == items[i]
             w == worn[i]
             fresh == i \notin rested
             e == IF x.eq = None THEN None ELSE x.eq - 1
             q == {r - 1 : r \in x.queue}
             y == [x EXCEPT !.queue = q, !.eq = e]
             u == IF x.place = "slot" /\ w <= Lasts THEN w + 1 ELSE w
  <1>1. /\ items'[i] = y /\ rested' = rested /\ x.cache = <<>> /\ 0 \notin x.queue
        /\ worn'[i] = u
    BY DEF Tick, InSlot
  <1>2. x \in Entry /\ w \in Nat
    BY DEF DecayInv, TimeInv
  <1>3. u \in Nat
    BY <1>2
  <1>4. /\ y.form = x.form /\ y.place = x.place /\ y.dur = x.dur /\ y.state = x.state
        /\ y.eq = e /\ y.queue = q /\ y.cache = x.cache
    BY <1>2 DEF Entry
  <1>5. ASSUME i \in Rings PROVE TimeOK(y, u, fresh)
    <2>1. RingOK(x) /\ TimeOK(x, w, fresh)
      BY <1>5 DEF DecayInv, TimeInv
    <2>2. Ahead(y) = Ahead(x) /\ ToSet(x.cache) = {}
      BY <1>1, <1>4 DEF Ahead, ToSet
    <2>3. x.eq # None => x.eq \in Nat \ {0} /\ e = x.eq - 1 /\ e \in Nat /\ e # None
      <3>1. ASSUME x.eq # None PROVE x.eq \in Nat \ {0}
        <4>1. PICK r \in x.queue : r <= x.eq
          BY <2>1, <3>1 DEF RingOK, Queued
        <4>2. x.eq \in Nat /\ r \in Nat /\ r # 0
          BY <1>1, <1>2, <3>1 DEF Entry
        <4> QED  BY <4>1, <4>2
      <3> QED  BY <3>1, DecayAssumption
    <2>4. x.eq = None => e = None
      OBVIOUS
    <2>5. x.place = "slot" /\ x.dur # 0 => x.eq # None
      BY <1>1, <2>1 DEF RingOK
    <2>6. x.place # "slot" => u = w
      OBVIOUS
    <2>7. x.place = "slot" /\ x.eq # None => u = w + 1 /\ u + e <= Lasts
      <3>1. ASSUME x.place = "slot", x.eq # None PROVE u = w + 1 /\ u + e <= Lasts
        <4>1. w + x.eq <= Lasts
          BY <2>1, <3>1 DEF TimeOK
        <4> QED  BY <1>2, <2>3, <3>1, <4>1, DecayAssumption
      <3> QED  BY <3>1
    <2>8. x.queue = {x.eq} => q = {x.eq - 1}
      OBVIOUS
    <2>9. x.queue = {} => q = {}
      OBVIOUS
    <2>10. x.dur = None => x.place # "slot"
      BY <2>1 DEF RingOK, Sound
    <2>11. TimeOK(y, u, fresh)
      <3> HIDE DEF x, y, w, e, q, u, fresh
      <3>1. e # None => u + e <= Lasts
        <4>1. ASSUME e # None, x.place # "slot" PROVE u + e <= Lasts
          <5>1. x.eq # None /\ w + x.eq <= Lasts
            BY <2>1, <2>4, <4>1 DEF TimeOK
          <5> QED  BY <1>2, <2>3, <2>6, <4>1, <5>1, DecayAssumption
        <4> QED  BY <2>4, <2>7, <4>1
      <3>2. x.dur # 0 => u <= Lasts
        <4>1. CASE x.place = "slot"
          BY <1>3, <2>3, <2>5, <2>7, <4>1, DecayAssumption
        <4>2. CASE x.place # "slot"
          BY <2>1, <2>6, <4>2 DEF TimeOK
        <4> QED  BY <4>1, <4>2
      <3>3. x.cache = <<>>
        BY <1>1
      <3>4. fresh /\ x.place = "slot" /\ x.dur # 0 => u + e = Lasts /\ q = {e}
        <4>1. ASSUME fresh, x.place = "slot", x.dur # 0 PROVE u + e = Lasts /\ q = {e}
          <5>1. x.eq # None /\ w + x.eq = Lasts /\ x.queue = {x.eq}
            BY <2>1, <2>5, <4>1 DEF TimeOK
          <5> QED  BY <1>2, <2>3, <2>7, <2>8, <4>1, <5>1, DecayAssumption
        <4> QED  BY <4>1
      <3>5. x.place = "slot" => x.dur = 0 \/ e # None
        BY <2>3, <2>5
      <3>6. fresh /\ x.place = "bag" => q = {}
        BY <2>1, <2>9 DEF TimeOK
      <3> QED  BY <1>3, <1>4, <2>1, <2>2, <2>4, <2>6, <2>10, <3>1, <3>2, <3>3, <3>4, <3>5, <3>6
               DEF TimeOK
    <2> QED  BY <2>11
  <1> HIDE DEF y, u
  <1> QED  BY <1>1, <1>3, <1>5 DEF TimeKept

\* A ring goes when nothing is left of it, or before.
LEMMA CycleTimeLemma ==
  ASSUME DecayInv, TimeInv, NEW j \in Items, EquipmentDecayCycle(j) \/ ItemDecayCycle(j),
         NEW i \in Items
  PROVE  TimeKept(i)
  <1>1. /\ rested' = rested /\ worn' = worn
        /\ i # j \/ i \notin Rings => items'[i] = items[i] \/ i \notin Rings
    BY DEF DecayInv, EquipmentDecayCycle, ItemDecayCycle
  <1>2. CASE i \notin Rings
    BY <1>1, <1>2 DEF TimeKept, TimeInv
  <1>3. CASE i # j
    BY <1>1, <1>2, <1>3, UntouchedTimeLemma
  <1>4. CASE i = j /\ i \in Rings
    <2> DEFINE x == items[j]
               w == worn[j]
               fresh == j \notin rested
               v == [x EXCEPT !.queue = @ \ {0}, !.eq = None]
    <2>1. EquipmentDecayCycle(j) /\ RingOK(x) /\ TimeOK(x, w, fresh)
      BY <1>4, DecayAssumption DEF ItemDecayCycle, DecayInv, TimeInv
    <2>2. \E y \in IF x.eq = None THEN {v} ELSE InternalDecayItem(j, v) : items'[j] = y
      BY <2>1 DEF EquipmentDecayCycle, DecayInv
    <2>3. 0 \in x.queue
      BY <2>1 DEF EquipmentDecayCycle
    <2>4. /\ v.form = x.form /\ v.place = x.place /\ v.eq = None /\ v.state = x.state
          /\ v.dur = x.dur /\ v.cache = x.cache /\ v.queue = x.queue \ {0}
      BY <2>1 DEF RingOK, Sound, Entry
    <2>5. Ahead(v) = Ahead(x)
      BY <2>4 DEF Ahead
    <2>6. ASSUME items'[j] = v, x.eq = None \/ x.place # "slot" PROVE TimeOK(v, w, fresh)
      <3>1. fresh /\ x.place = "slot" => x.dur = 0
        BY <2>1, <2>3, <2>6 DEF TimeOK
      <3>2. fresh => x.place # "bag"
        BY <2>1, <2>3 DEF TimeOK
      <3> HIDE DEF x, w, fresh, v
      <3> QED  BY <2>1, <2>4, <2>5, <2>6, <3>1, <3>2 DEF TimeOK
    <2>7. ASSUME x.eq # None, x.form = "active", x.place # "gone"
          PROVE  TimeOK([v EXCEPT !.place = "gone"], w, fresh)
      <3> DEFINE g == [v EXCEPT !.place = "gone"]
      <3>1. /\ g.form = x.form /\ g.place = "gone" /\ g.eq = None /\ g.state = x.state
            /\ g.dur = x.dur /\ g.cache = x.cache
        BY <2>1, <2>4 DEF RingOK, Sound, Entry
      <3>2. x.place = "slot" /\ x.dur \notin {None, 0} /\ x.cache = <<>> /\ w <= Lasts
        BY <2>1, <2>7 DEF RingOK, TimeOK, Sound, Entry
      <3>3. fresh => w = Lasts
        <4>1. ASSUME fresh PROVE w = Lasts
          <5>1. w + x.eq = Lasts /\ x.queue = {x.eq} /\ w \in Nat
            BY <2>1, <2>7, <3>2, <4>1 DEF TimeOK
          <5>2. x.eq = 0
            BY <2>3, <5>1
          <5> QED  BY <5>1, <5>2
        <4> QED  BY <4>1
      <3> HIDE DEF x, w, fresh, v, g
      <3>4. TimeOK(g, w, fresh)
        BY <2>1, <3>1, <3>2, <3>3 DEF TimeOK
      <3> QED  BY <3>4 DEF g
    <2>8. \/ items'[j] = v /\ (x.eq = None \/ x.place # "slot")
          \/ /\ items'[j] = [v EXCEPT !.place = "gone"]
             /\ x.eq # None /\ x.form = "active" /\ x.place # "gone"
      <3>1. x.form # "active" => x.place # "slot"
        BY <2>1 DEF RingOK
      <3> HIDE DEF v, x
      <3> QED  BY <1>4, <2>2, <2>4, <3>1 DEF InternalDecayItem
    <2>9. TimeOK(items'[j], w, fresh)
      BY <2>6, <2>7, <2>8
    <2> QED  BY <1>1, <1>4, <2>9 DEF TimeKept, TimeInv
  <1> QED  BY <1>2, <1>3, <1>4

LEMMA PlayerTimeLemma ==
  ASSUME DecayInv, TimeInv, NEW j \in Items, PutOn(j) \/ TakeOff(j) \/ Move(j) \/ Use(j),
         NEW i \in Items
  PROVE  TimeKept(i)
  <1>1. worn' = worn /\ worn[i] \in Nat
    BY DEF PutOn, TakeOff, Move, Use, TimeInv
  <1>2. CASE i \notin Rings
    BY <1>1, <1>2 DEF TimeKept
  <1>3. CASE i # j /\ i \in Rings
    <2>1. items'[i] = items[i] /\ (i \in rested' <=> i \in rested)
      BY <1>3 DEF DecayInv, PutOn, TakeOff, Move, Use
    <2> QED  BY <1>1, <1>3, <2>1 DEF TimeInv, TimeKept
  <1>4. CASE i = j /\ i \in Rings
    <2>1. j \in Rings /\ j \notin Torches /\ RingOK(items[j]) /\ TimeOK(items[j], worn[j], j \notin rested)
      BY <1>4, DecayAssumption DEF DecayInv, TimeInv
    <2>2. ASSUME PutOn(j) PROVE TimeOK(items'[j], worn[j], j \notin rested')
      <3>1. items'[j] \in Worn(items[j]) /\ items[j].place = "bag" /\ rested' = rested
        BY <2>2 DEF PutOn, InBag, DecayInv
      <3>2. TimeOK(items'[j], worn[j], j \notin rested)
        BY <2>1, <3>1, WornTimeLemma
      <3> QED  BY <3>1, <3>2
    <2>3. ASSUME TakeOff(j) PROVE TimeOK(items'[j], worn[j], j \notin rested')
      <3>1. PICK y \in Off(items[j]) : items'[j] = Arrived(y)
        BY <2>3 DEF TakeOff, DecayInv
      <3>2. items[j].place = "slot" /\ rested' = rested \cup {j}
        BY <2>3 DEF TakeOff, InSlot
      <3>3. Sound(y) /\ y.place = "bag"
        BY <2>1, <3>1, OffLemma DEF RingOK
      <3>4. TimeOK(y, worn[j], FALSE)
        BY <2>1, <3>1, <3>2, OffTimeLemma
      <3>5. TimeOK(items'[j], worn[j], FALSE)
        BY <3>1, <3>3, <3>4, ArrivedTimeLemma
      <3>6. (j \notin rested') = FALSE
        BY <3>2
      <3> QED  BY <3>5, <3>6
    <2>4. ASSUME Move(j) PROVE TimeOK(items'[j], worn[j], j \notin rested')
      <3>1. items'[j] = Arrived(items[j]) /\ items[j].place = "bag" /\ rested' = rested
        BY <2>4 DEF Move, InBag, DecayInv
      <3>2. TimeOK(items'[j], worn[j], j \notin rested)
        BY <2>1, <3>1, ArrivedTimeLemma DEF RingOK
      <3> QED  BY <3>1, <3>2
    <2>5. ~Use(j)
      BY <2>1 DEF Use
    <2> QED  BY <1>1, <1>4, <2>2, <2>3, <2>4, <2>5 DEF TimeKept
  <1> QED  BY <1>2, <1>3, <1>4

LEMMA SwapTimeLemma ==
  ASSUME DecayInv, TimeInv, NEW j \in Items, NEW k \in Items, Swap(j, k), NEW i \in Items
  PROVE  TimeKept(i)
  <1>1. /\ j # k /\ {j, k} \subseteq Rings /\ items[j].place = "bag" /\ items[k].place = "slot"
        /\ RingOK(items[j]) /\ RingOK(items[k])
        /\ TimeOK(items[j], worn[j], j \notin rested) /\ TimeOK(items[k], worn[k], k \notin rested)
    BY PlaceLemma DEF Swap, InBag, InSlot, DecayInv, TimeInv
  <1>2. /\ items'[j] \in Worn(items[j]) \cup {items[j]} /\ items'[k] \in Off(items[k])
        /\ (i \notin {j, k} => items'[i] = items[i])
        /\ rested' = rested \cup {k} /\ worn' = worn /\ worn[i] \in Nat
    BY <1>1 DEF Swap, DecayInv, TimeInv
  <1>3. TimeOK(items'[j], worn[j], j \notin rested)
    <2>1. items'[j] \in Worn(items[j]) => TimeOK(items'[j], worn[j], j \notin rested)
      BY <1>1, WornTimeLemma
    <2> QED  BY <1>1, <1>2, <2>1
  <1>4. TimeOK(items'[k], worn[k], FALSE)
    BY <1>1, <1>2, OffTimeLemma
  <1>5. (k \notin rested') = FALSE /\ (i # k => (i \notin rested') = (i \notin rested))
    BY <1>2
  <1>6. CASE i = k
    BY <1>2, <1>4, <1>5, <1>6 DEF TimeKept
  <1>7. CASE i = j
    BY <1>1, <1>2, <1>3, <1>5, <1>7 DEF TimeKept
  <1>8. CASE i \notin {j, k}
    BY <1>2, <1>5, <1>8 DEF TimeKept, TimeInv
  <1> QED  BY <1>6, <1>7, <1>8

LEMMA RelogItemLemma ==
  ASSUME DecayInv, TimeInv, Relog, NEW i \in Items
  PROVE  TimeKept(i)
  <1>1. PICK z \in Left(items[i]) : items'[i] = StartDecay(Saved(z))
    BY DEF Relog
  <1>2. rested' = rested /\ worn' = worn /\ worn[i] \in Nat
    BY DEF Relog, TimeInv
  <1>3. i \in Rings => TimeOK(items'[i], worn[i], i \notin rested)
    BY <1>1, RelogTimeLemma DEF DecayInv, TimeInv
  <1> QED  BY <1>2, <1>3 DEF TimeKept

\* No ring is worn for longer than it lasts, whatever is done to it; one that is
\* never taken off is worn for all of it.
THEOREM DecayLastsAsLong == Spec => []LastsAsLong
  <1>1. Init => TimeInv
    <2> SUFFICES ASSUME Init PROVE TimeInv
      OBVIOUS
    <2>1. ToSet(<<>>) = {}
      BY DEF ToSet
    <2>2. \A i \in Rings :
             /\ items[i].place = "bag" /\ items[i].state = "no" /\ items[i].dur = None
             /\ items[i].cache = <<>> /\ items[i].eq = None /\ items[i].queue = {} /\ worn[i] = 0
      BY DEF Init, Items
    <2>3. worn \in [Items -> Nat]
      BY DEF Init
    <2> QED  BY <2>1, <2>2, <2>3, DecayAssumption DEF TimeInv, TimeOK
  <1>2. DecayInv /\ TimeInv /\ Next => TimeInv'
    <2> SUFFICES ASSUME DecayInv, TimeInv, Next PROVE TimeInv'
      OBVIOUS
    <2>1. \A i \in Items : TimeKept(i)
      BY CleanTimeLemma, TickTimeLemma, CycleTimeLemma, PlayerTimeLemma, SwapTimeLemma,
         RelogItemLemma DEF Next
    <2>2. worn' = [i \in Items |-> worn'[i]]
      BY DEF TimeInv, Next, PutOn, TakeOff, Move, Use, Swap, Relog, DecayCleanCycle,
             EquipmentDecayCycle, ItemDecayCycle, Tick
    <2>3. worn' \in [Items -> Nat]
      BY <2>1, <2>2 DEF TimeKept
    <2>4. \A i \in Rings : TimeOK(items'[i], worn'[i], i \notin rested')
      BY <2>1 DEF TimeKept, Items
    <2>5. (\A i \in Rings : TimeOK(items[i], worn[i], i \notin rested))'
      BY <2>4
    <2> QED  BY <2>3, <2>5 DEF TimeInv
  <1>3. DecayInv /\ UNCHANGED vars => DecayInv'
    BY DEF DecayInv, vars
  <1>4. TimeInv /\ UNCHANGED vars => TimeInv'
    BY DEF TimeInv, vars
  <1>5. TimeInv => LastsAsLong
    BY DEF TimeInv, TimeOK, LastsAsLong
  <1> QED  BY <1>1, <1>2, <1>3, <1>4, <1>5, InitLemma, StepLemma, PTL DEF Spec

-----------------------------------------------------------------------------
(***************************************************************************)
(* ZONES.  Every entry is in one place, for every table that a zone may    *)
(* have, any number of monsters and players.  A handler takes an entry in  *)
(* its hands when a creature dies or a frame wakes, and puts it elsewhere  *)
(* before it returns: the invariant of a zone in mid-handler says which    *)
(* entries are in hand (H), which monster is dying or has just been placed *)
(* (x), and which monsters were away when the event began (W).  The walks  *)
(* over the list are folds; the first lemmas make them functions.          *)
(***************************************************************************)
\* Induction over the subsets of a finite set.
LEMMA SmallestSubset ==
  ASSUME NEW S, IsFiniteSet(S), NEW T \in SUBSET (SUBSET S), T # {}
  PROVE  \E r \in T : \A x \in r : r \ {x} \notin T
  <1>1. IsWellFoundedOn(StrictSubsetOrdering(S), SUBSET S)
    BY FS_StrictSubsetOrderingWellFounded, FS_FiniteSubsetsOfFinite
  <1>2. PICK r \in T : \A t \in T : <<t, r>> \notin StrictSubsetOrdering(S)
    BY <1>1, WFMin
  <1>3. ASSUME NEW x \in r PROVE r \ {x} \notin T
    <2>1. <<r \ {x}, r>> \in StrictSubsetOrdering(S)
      BY <1>3 DEF StrictSubsetOrdering
    <2> QED  BY <1>2, <2>1
  <1> QED  BY <1>3

Picked(r) == CHOOSE c \in r : TRUE
Rest(r) == r \ {Picked(r)}

\* What the walk has made of the zones zs when it comes to the copy c.
Advance(zs, c, how) == UNION {Begun(y, c[1], how) : y \in zs}

WalkStep(g, z, how, r) == IF r = {} THEN {z} ELSE Advance(g[Rest(r)], Picked(r), how)
Walks(g, z, how, S) == g = [r \in SUBSET S |-> WalkStep(g, z, how, r)]

\* The recursive function of the walk is the least relation closed under its
\* steps.
ClosedWalk(R, z, how, S) ==
    /\ <<{}, {z}>> \in R
    /\ \A r \in (SUBSET S) \ {{}} : \A zs :
         <<Rest(r), zs>> \in R => <<r, Advance(zs, Picked(r), how)>> \in R

\* Taking one element out of a set leaves less.
LEMMA RestSmaller ==
  ASSUME NEW r, r # {}
  PROVE  Picked(r) \in r /\ Rest(r) \in SUBSET r
  BY DEF Picked, Rest

\* The walk over the copies is well defined, whatever the zones it makes.
LEMMA WalkExists ==
  ASSUME NEW z, NEW how, NEW S, IsFiniteSet(S), NEW U, ClosedWalk(U, z, how, S)
  PROVE  \E g : Walks(g, z, how, S)
  <1> DEFINE L == {a \in U : \A R \in SUBSET U : ClosedWalk(R, z, how, S) => a \in R}
             One(r) == \E v : <<r, v>> \in L /\ \A w : <<r, w>> \in L => w = v
             T == {r \in SUBSET S : ~One(r)}
  <1>1. ClosedWalk(L, z, how, S)
    BY DEF ClosedWalk
  <1>2. \A R \in SUBSET L : ClosedWalk(R, z, how, S) => R = L
    OBVIOUS
  <1> HIDE DEF L
  <1>3. ASSUME NEW w, <<{}, w>> \in L PROVE w = {z}
    <2> SUFFICES ASSUME w # {z} PROVE FALSE
      OBVIOUS
    <2>1. ClosedWalk(L \ {<<{}, w>>}, z, how, S)
      BY <1>1 DEF ClosedWalk
    <2>2. L \ {<<{}, w>>} = L
      BY <1>2, <2>1
    <2> QED  BY <1>3, <2>2
  <1>4. One({})
    BY <1>1, <1>3 DEF ClosedWalk
  <1>5. ASSUME NEW r \in SUBSET S, r # {}, NEW v, <<Rest(r), v>> \in L,
               \A w : <<Rest(r), w>> \in L => w = v
        PROVE  /\ <<r, Advance(v, Picked(r), how)>> \in L
               /\ \A w : <<r, w>> \in L => w = Advance(v, Picked(r), how)
    <2>1. <<r, Advance(v, Picked(r), how)>> \in L
      BY <1>1, <1>5 DEF ClosedWalk
    <2>2. ASSUME NEW w, <<r, w>> \in L, w # Advance(v, Picked(r), how) PROVE FALSE
      <3> DEFINE R == L \ {<<r, w>>}
      <3>1. <<{}, {z}>> \in R
        BY <1>1, <1>5 DEF ClosedWalk
      <3>2. ASSUME NEW q \in (SUBSET S) \ {{}}, NEW x, <<Rest(q), x>> \in R
            PROVE  <<q, Advance(x, Picked(q), how)>> \in R
        <4>1. <<q, Advance(x, Picked(q), how)>> \in L
          BY <1>1, <3>2 DEF ClosedWalk
        <4>2. q = r => x = v
          BY <1>5, <3>2
        <4> QED  BY <2>2, <4>1, <4>2
      <3>3. ClosedWalk(R, z, how, S)
        BY <3>1, <3>2 DEF ClosedWalk
      <3>4. R = L
        BY <1>2, <3>3
      <3> QED  BY <2>2, <3>4
    <2> QED  BY <2>1, <2>2
  <1>6. T = {}
    <2> SUFFICES ASSUME T # {} PROVE FALSE
      OBVIOUS
    <2>1. PICK r \in T : \A x \in r : r \ {x} \notin T
      <3>1. T \in SUBSET (SUBSET S)
        OBVIOUS
      <3> HIDE DEF T
      <3> QED  BY <3>1, SmallestSubset
    <2>2. r \in SUBSET S /\ ~One(r)
      BY <2>1
    <2>3. r # {}
      BY <1>4, <2>2
    <2>4. Picked(r) \in r /\ Rest(r) \in SUBSET S
      BY <2>2, <2>3, RestSmaller
    <2>5. One(Rest(r))
      BY <2>1, <2>4 DEF Rest
    <2>6. One(r)
      BY <1>5, <2>2, <2>3, <2>5
    <2> QED  BY <2>2, <2>6
  <1> DEFINE val(r) == CHOOSE v : <<r, v>> \in L
             g == [r \in SUBSET S |-> val(r)]
  <1>7. ASSUME NEW r \in SUBSET S PROVE <<r, g[r]>> \in L /\ \A w : <<r, w>> \in L => w = g[r]
    <2>1. One(r)
      BY <1>6
    <2> QED  BY <2>1
  <1>8. ASSUME NEW r \in SUBSET S PROVE g[r] = WalkStep(g, z, how, r)
    <2> HIDE DEF g
    <2>1. CASE r = {}
      BY <1>3, <1>7, <2>1 DEF WalkStep
    <2>2. CASE r # {}
      <3>1. Rest(r) \in SUBSET S
        BY <2>2, RestSmaller
      <3>2. <<r, Advance(g[Rest(r)], Picked(r), how)>> \in L
        BY <1>5, <1>7, <2>2, <3>1
      <3> QED  BY <1>7, <2>2, <3>2 DEF WalkStep
    <2> QED  BY <2>1, <2>2
  <1>9. g = [r \in SUBSET S |-> WalkStep(g, z, how, r)]
    <2>1. g = [r \in SUBSET S |-> g[r]]
      <3> HIDE DEF val
      <3> QED  BY DEF g
    <2> HIDE DEF g
    <2>2. [r \in SUBSET S |-> g[r]] = [r \in SUBSET S |-> WalkStep(g, z, how, r)]
      BY <1>8
    <2> QED  BY <2>1, <2>2
  <1> HIDE DEF g
  <1> QED  BY <1>9 DEF Walks

\* What holds of the zones after each set of copies holds at the end of the walk.
LEMMA WalkKeeps ==
  ASSUME NEW z, NEW todo, IsFiniteSet(Copies(todo)), NEW how, NEW K, z \in K[{}],
         \A r \in SUBSET Copies(todo) : \A c \in r : \A y \in K[r \ {c}] :
            Begun(y, c[1], how) \subseteq K[r]
  PROVE  EachBegun(z, todo, how) \subseteq K[Copies(todo)]
  <1> DEFINE S == Copies(todo)
             V == UNION {K[r] : r \in SUBSET S}
             U == {a \in (SUBSET S) \X (SUBSET V) : a[2] \subseteq K[a[1]]}
             g == CHOOSE f : Walks(f, z, how, S)
  <1> HIDE DEF S
  <1>1. IsFiniteSet(S)
    BY DEF S
  <1>2. ASSUME NEW r \in SUBSET S, r # {}, NEW zs \in SUBSET K[Rest(r)]
        PROVE  Advance(zs, Picked(r), how) \subseteq K[r]
    <2>1. Picked(r) \in r
      BY <1>2, RestSmaller
    <2> QED  BY <1>2, <2>1 DEF Advance, Rest, S
  <1>3. ClosedWalk(U, z, how, S)
    <2>1. <<{}, {z}>> \in U
      OBVIOUS
    <2>2. ASSUME NEW r \in (SUBSET S) \ {{}}, NEW zs, <<Rest(r), zs>> \in U
          PROVE  <<r, Advance(zs, Picked(r), how)>> \in U
      <3>1. Advance(zs, Picked(r), how) \subseteq K[r]
        BY <1>2, <2>2
      <3> QED  BY <2>2, <3>1
    <2> HIDE DEF U
    <2> QED  BY <2>1, <2>2 DEF ClosedWalk
  <1> HIDE DEF U, V
  <1>4. Walks(g, z, how, S)
    BY <1>1, <1>3, WalkExists
  <1>5. EachBegun(z, todo, how) = g[S]
    BY DEF EachBegun, FoldSet, MapThenFoldSet, Walks, WalkStep, Advance, Picked, Rest, S
  <1> HIDE DEF g
  <1>6. \A r \in SUBSET S : g[r] = WalkStep(g, z, how, r)
    BY <1>4 DEF Walks
  <1> DEFINE T == {r \in SUBSET S : ~(g[r] \subseteq K[r])}
  <1>7. T = {}
    <2> SUFFICES ASSUME T # {} PROVE FALSE
      OBVIOUS
    <2>1. PICK r \in T : \A x \in r : r \ {x} \notin T
      <3>1. T \in SUBSET (SUBSET S)
        OBVIOUS
      <3> HIDE DEF T
      <3> QED  BY <1>1, <3>1, SmallestSubset
    <2>2. CASE r = {}
      BY <1>6, <2>1, <2>2 DEF WalkStep
    <2>3. CASE r # {}
      <3>1. Picked(r) \in r /\ Rest(r) \in SUBSET S
        BY <2>1, <2>3, RestSmaller
      <3>2. g[Rest(r)] \subseteq K[Rest(r)]
        BY <2>1, <3>1 DEF Rest
      <3>3. g[r] = Advance(g[Rest(r)], Picked(r), how)
        BY <1>6, <2>1, <2>3 DEF WalkStep
      <3> QED  BY <1>2, <2>1, <2>3, <3>2, <3>3
    <2> QED  BY <2>2, <2>3
  <1> QED  BY <1>5, <1>7 DEF S

(***************************************************************************)
(* The invariant.                                                          *)
(***************************************************************************)
RestingRuns == {"wait", "fight", "cooldown", "cut", "ended"}
Runs == {"none", "started", "over"} \cup RestingRuns
SleeperOK(f) == f.at = "nap" => cfg.forced /\ f.naps < ForcedNaps

\* A zone between two steps of a handler.
Zoned(z) ==
    /\ z \in [on : BOOLEAN, paused : BOOLEAN, run : Runs, startup : BOOLEAN, spare : BOOLEAN,
              list : {z.list}, active : [Monsters -> Entries \cup {Nothing}],
              world : [Monsters -> Entries \cup {Nothing}], frames : {z.frames},
              players : SUBSET Players, inside : SUBSET Players, timers : 0 .. MaxTimers,
              master : Monsters \cup {Nothing}, wave : 1 .. MaxWave,
              placing : {Nothing} \cup (Monsters \X Entries), wild : BOOLEAN]
    /\ IsBag(z.list, Entries) /\ IsBag(z.frames, Frames)
    /\ \A f \in DOMAIN z.frames : SleeperOK(f)

\* The entries that must not be in two places.
Guarded(e) == cfg.policy # "staged" \/ cfg.role[e] = "master"

\* Monster m stands for e: it is tracked for it, or it is a living master.  The
\* monster x is dying, or has just been placed.
Held(z, x, e, m) ==
    z.active[m] = e \/ (cfg.role[e] = "master" /\ z.world[m] = e /\ m # x)
SleepsFor(z, e, f) == f \in DOMAIN z.frames /\ f.entry = e

\* Whatever the list says, the entry is nowhere; or in one place at most; or it
\* is in one place at least.
Nowhere(z, x, e) ==
    /\ \A f \in DOMAIN z.frames : f.entry # e
    /\ \A m \in Monsters : ~Held(z, x, e, m)
Single(z, x, e) ==
    /\ \A f, g \in DOMAIN z.frames : f.entry = e /\ g.entry = e => f = g /\ z.frames[f] = 1
    /\ \A m, n \in Monsters : Held(z, x, e, m) /\ Held(z, x, e, n) => m = n
    /\ \A f \in DOMAIN z.frames, m \in Monsters : f.entry = e => ~Held(z, x, e, m)
Out(z, e) == (\E f \in DOMAIN z.frames : f.entry = e) \/ (\E m \in Monsters : z.active[m] = e)

\* The entries of S are in the list, or in the hands of the handler.
Kept(z, x, S) ==
    \A e \in Entries : Guarded(e) =>
        IF e \in S THEN Nowhere(z, x, e) ELSE Single(z, x, e) /\ (Quiet => Out(z, e))

\* The list holds an entry once, and none that is in a hand.
Listing(z, H) == \A e \in DOMAIN z.list : Guarded(e) => z.list[e] = 1 /\ e \notin H

\* What the Run frame of a zone that is no boss's never is, and the boss of one.
Linked(z) ==
    /\ cfg.kind # "boss" => z.master = Nothing /\ z.run \in {"none", "wait"} /\ z.timers = 0
    /\ z.master # Nothing =>
          z.active[z.master] \in Entries /\ cfg.role[z.active[z.master]] = "master"

\* A passive zone keeps nothing back while it tracks no player, and one that is
\* not forced is paused otherwise: of the monsters in W none has been placed.
Calm(z, W) ==
    Quiet =>
        /\ z.players = {} => z.list = Empty
        /\ ~cfg.forced /\ z.players # {} => z.paused /\ \A m \in W : z.world[m] = Nothing
Unpaused(z) == Quiet /\ z.players = {} => ~z.paused

Body(z, x) ==
    /\ Zoned(z) /\ z.placing = Nothing /\ Linked(z)
    /\ x \in Monsters => z.world[x] # Nothing
Fine(z, x, H) == Body(z, x) /\ Kept(z, x, H \cup DOMAIN z.list) /\ Listing(z, H)
Good(z, x, H, W) == Fine(z, x, H) /\ Calm(z, W)

(* Bags. *)
LEMMA BagOfBag ==
  ASSUME NEW S, NEW T \in SUBSET S
  PROVE  IsBag(BagOf(T), S)
  BY DEF IsBag, BagOf

\* The elements of a bag of single copies.
LEMMA BagOfDomain ==
  ASSUME NEW T
  PROVE  DOMAIN BagOf(T) = T
  BY DEF BagOf

\* Each of them is there once.
LEMMA BagOfOne ==
  ASSUME NEW T, NEW x \in T
  PROVE  BagOf(T)[x] = 1
  BY DEF BagOf

\* A bag is empty when nothing is in it.
LEMMA EmptyDomain ==
  ASSUME NEW S, NEW b, IsBag(b, S)
  PROVE  b = Empty <=> DOMAIN b = {}
  BY DEF IsBag, Empty, BagOf

\* The empty bag is a bag of anything.
LEMMA EmptyIsBag ==
  ASSUME NEW S
  PROVE  IsBag(Empty, S) /\ DOMAIN Empty = {}
  BY DEF IsBag, Empty, BagOf

\* What is in either bag is in both together.
LEMMA MergedDomain ==
  ASSUME NEW b, NEW c
  PROVE  DOMAIN Merged(b, c) = DOMAIN b \cup DOMAIN c
  BY DEF Merged

\* Two bags together are a bag.
LEMMA MergedBag ==
  ASSUME NEW S, NEW b, NEW c, IsBag(b, S), IsBag(c, S)
  PROVE  IsBag(Merged(b, c), S)
  <1>1. \A x \in DOMAIN b \cup DOMAIN c : Count(b, x) + Count(c, x) \in Nat \ {0} /\ x \in S
    BY DEF IsBag, Count
  <1> QED  BY <1>1 DEF IsBag, Merged

\* What only the first bag holds stays as often as it was there.
LEMMA MergedLeft ==
  ASSUME NEW S, NEW b, NEW c, IsBag(b, S), NEW x \in DOMAIN b, x \notin DOMAIN c
  PROVE  Merged(b, c)[x] = b[x]
  BY DEF Merged, Count, IsBag

\* And so does what only the second holds.
LEMMA MergedRight ==
  ASSUME NEW S, NEW b, NEW c, IsBag(c, S), NEW x \in DOMAIN c, x \notin DOMAIN b
  PROVE  Merged(b, c)[x] = c[x]
  BY DEF Merged, Count, IsBag

\* One copy more adds that element and no other.
LEMMA AddedDomain ==
  ASSUME NEW b, NEW x
  PROVE  DOMAIN Added(b, x) = DOMAIN b \cup {x}
  BY DEF Added, Merged, BagOf

\* A bag with one copy more is a bag.
LEMMA AddedBag ==
  ASSUME NEW S, NEW b, NEW x \in S, IsBag(b, S)
  PROVE  IsBag(Added(b, x), S)
  <1>1. IsBag(BagOf({x}), S)
    BY BagOfBag
  <1> QED  BY <1>1, MergedBag DEF Added

\* The other elements stay as they were.
LEMMA AddedOld ==
  ASSUME NEW S, NEW b, IsBag(b, S), NEW x, NEW y \in DOMAIN b, y # x
  PROVE  Added(b, x)[y] = b[y]
  <1>1. DOMAIN BagOf({x}) = {x}
    BY BagOfDomain
  <1> QED  BY <1>1, MergedLeft DEF Added

\* An element that was not in the bag is in it once.
LEMMA AddedNew ==
  ASSUME NEW b, NEW x, x \notin DOMAIN b
  PROVE  Added(b, x)[x] = 1
  BY DEF Added, Merged, Count, BagOf

\* A bag with one copy less is a bag.
LEMMA TakenBag ==
  ASSUME NEW S, NEW b, NEW x, IsBag(b, S)
  PROVE  IsBag(Taken(b, x), S)
  <1> DEFINE D == {d \in DOMAIN b : d # x \/ b[d] > 1}
  <1>1. \A y \in D : (IF y = x THEN b[y] - 1 ELSE b[y]) \in Nat \ {0} /\ y \in S
    BY DEF IsBag
  <1> QED  BY <1>1 DEF IsBag, Taken

\* The element goes only when it was there once.
LEMMA TakenDomain ==
  ASSUME NEW b, NEW x
  PROVE  DOMAIN Taken(b, x) = {d \in DOMAIN b : d # x \/ b[d] > 1}
  BY DEF Taken

\* The other elements stay as they were.
LEMMA TakenOld ==
  ASSUME NEW b, NEW x, NEW y \in DOMAIN b, y # x
  PROVE  Taken(b, x)[y] = b[y]
  BY DEF Taken

\* A copy is a pair of an element and its number: numbers up to one when the
\* element is there once, and finitely many when there are finitely many elements.
LEMMA CopiesLemma ==
  ASSUME NEW S, NEW b, IsBag(b, S)
  PROVE  /\ \A c \in Copies(b) : c[1] \in DOMAIN b
         /\ \A x \in DOMAIN b : <<x, 1>> \in Copies(b)
         /\ \A c \in Copies(b) : b[c[1]] = 1 => c = <<c[1], 1>>
         /\ IsFiniteSet(S) => IsFiniteSet(Copies(b))
  <1>1. \A c \in Copies(b) : c[1] \in DOMAIN b /\ c[2] \in 1 .. b[c[1]] /\ c = <<c[1], c[2]>>
    BY DEF Copies
  <1>2. \A x \in DOMAIN b : 1 \in 1 .. b[x]
    BY DEF IsBag
  <1>3. \A x \in DOMAIN b : <<x, 1>> \in Copies(b)
    BY <1>2 DEF Copies
  <1>4. ASSUME IsFiniteSet(S) PROVE IsFiniteSet(Copies(b))
    <2> DEFINE col == [x \in DOMAIN b |-> {x} \X (1 .. b[x])]
               Q == {col[x] : x \in DOMAIN b}
    <2>1. IsFiniteSet(DOMAIN b)
      BY <1>4, FS_Subset DEF IsBag
    <2>2. IsFiniteSet(Q)
      <3>1. col \in Surjection(DOMAIN b, Q)
        BY DEF Surjection
      <3> QED  BY <2>1, <3>1, FS_Surjection
    <2>3. \A x \in DOMAIN b : IsFiniteSet(col[x])
      <3> SUFFICES ASSUME NEW x \in DOMAIN b PROVE IsFiniteSet({x} \X (1 .. b[x]))
        OBVIOUS
      <3>1. b[x] \in Int /\ 1 \in Int
        BY DEF IsBag
      <3>2. IsFiniteSet(1 .. b[x]) /\ IsFiniteSet({x})
        BY <3>1, FS_Interval, FS_Singleton
      <3> QED  BY <3>2, FS_Product
    <2>4. Copies(b) = UNION Q
      BY DEF Copies
    <2> HIDE DEF col
    <2> QED  BY <2>2, <2>3, <2>4, FS_UNION
  <1> QED  BY <1>1, <1>3, <1>4

\* The fields that say where an entry is, and the others.
Same(z, y) ==
    /\ y.on = z.on /\ y.paused = z.paused /\ y.run = z.run /\ y.startup = z.startup
    /\ y.spare = z.spare /\ y.players = z.players /\ y.inside = z.inside
    /\ y.timers = z.timers /\ y.master = z.master /\ y.wave = z.wave /\ y.wild = z.wild

CreatureMap == [Monsters -> Entries \cup {Nothing}]

\* The fields of a zone, put one at a time: other frames sleep.
LEMMA PutFrames ==
  ASSUME NEW z, Zoned(z), NEW b, IsBag(b, Frames), \A f \in DOMAIN b : SleeperOK(f),
         NEW y, y = [z EXCEPT !.frames = b]
  PROVE  /\ Zoned(y) /\ Same(z, y) /\ y.frames = b /\ y.list = z.list
         /\ y.active = z.active /\ y.world = z.world /\ y.placing = z.placing
  BY DEF Zoned, Same

\* Another list.
LEMMA PutList ==
  ASSUME NEW z, Zoned(z), NEW b, IsBag(b, Entries), NEW y, y = [z EXCEPT !.list = b]
  PROVE  /\ Zoned(y) /\ Same(z, y) /\ y.list = b /\ y.frames = z.frames
         /\ y.active = z.active /\ y.world = z.world /\ y.placing = z.placing
  BY DEF Zoned, Same

\* Other creatures are tracked.
LEMMA PutActive ==
  ASSUME NEW z, Zoned(z), NEW a \in CreatureMap, NEW y, y = [z EXCEPT !.active = a]
  PROVE  /\ Zoned(y) /\ Same(z, y) /\ y.list = z.list /\ y.frames = z.frames
         /\ y.active = a /\ y.world = z.world /\ y.placing = z.placing
  BY DEF Zoned, Same, CreatureMap

\* Other creatures are in the world.
LEMMA PutWorld ==
  ASSUME NEW z, Zoned(z), NEW w \in CreatureMap, NEW y, y = [z EXCEPT !.world = w]
  PROVE  /\ Zoned(y) /\ Same(z, y) /\ y.list = z.list /\ y.frames = z.frames
         /\ y.active = z.active /\ y.world = w /\ y.placing = z.placing
  BY DEF Zoned, Same, CreatureMap

\* A monster is chosen to be placed, or it has been.
LEMMA PutPlacing ==
  ASSUME NEW z, Zoned(z), NEW h \in {Nothing} \cup (Monsters \X Entries),
         NEW y, y = [z EXCEPT !.placing = h]
  PROVE  /\ Zoned(y) /\ Same(z, y) /\ y.list = z.list /\ y.frames = z.frames
         /\ y.active = z.active /\ y.world = z.world /\ y.placing = h
  BY DEF Zoned, Same

(***************************************************************************)
(* What a spawn may come to: the frame sleeps, a monster is chosen to be   *)
(* placed, or the entry goes back to the list, or is dropped.              *)
(***************************************************************************)
Slept(z, y, e) ==
    \E g \in Frames : SleeperOK(g) /\ g.entry = e /\ y = [z EXCEPT !.frames = Added(@, g)]
Chosen(z, y, e) ==
    \E m \in Monsters : /\ z.world[m] = Nothing /\ z.active[m] = Nothing /\ z.master # m
                        /\ y = [z EXCEPT !.placing = <<m, e>>]
Unwatched(z) == Quiet /\ ~cfg.forced => z.players = {}
Hindered(z) == Quiet => z.paused \/ z.players # {}

SpawnEnds(z, y, e) ==
    \/ Slept(z, y, e)
    \/ Chosen(z, y, e) /\ Unwatched(z)
    \/ y = Listed(z, e) /\ Hindered(z)
    \/ y = z /\ ~Quiet

\* A frame that goes to sleep sleeps for its entry.
LEMMA AsleepEnds ==
  ASSUME NEW z, NEW g \in Frames, SleeperOK(g), NEW y \in Asleep(z, g)
  PROVE  Slept(z, y, g.entry)
  BY DEF Asleep, Slept

\* So does a frame that begins with its delay (DelaySpawn).
LEMMA DelayEnds ==
  ASSUME NEW z, NEW e \in Entries, NEW y \in DelaySpawn(z, e)
  PROVE  Slept(z, y, e)
  <1>1. /\ Frame(e, FALSE) \in Frames /\ SleeperOK(Frame(e, FALSE))
        /\ Frame(e, FALSE).entry = e
    BY ZonesAssumption DEF Frame, Frames, SleeperOK
  <1> QED  BY <1>1, AsleepEnds DEF DelaySpawn

\* TryMonsterSpawn places a creature that nobody remembers.
LEMMA TryEnds ==
  ASSUME NEW z, NEW e, NEW y \in TrySpawn(z, e)
  PROVE  Chosen(z, y, e)
  BY DEF TrySpawn, Chosen

\* A frame that goes on sleeping, wherever it wakes up, sleeps for its entry.
LEMMA SleepAgain ==
  ASSUME NEW z, NEW f \in Frames, NEW y, NEW at \in {"top", "draw", "nap"},
         at = "nap" => cfg.forced /\ f.naps < ForcedNaps,
         y \in Asleep(z, [f EXCEPT !.at = at])
  PROVE  Slept(z, y, f.entry)
  <1> DEFINE g == [f EXCEPT !.at = at]
  <1>1. g \in Frames /\ SleeperOK(g) /\ g.entry = f.entry
    BY DEF Frames, SleeperOK
  <1> HIDE DEF g
  <1>2. y \in Asleep(z, g)
    BY DEF g
  <1> QED  BY <1>1, <1>2, AsleepEnds

\* A failed placement puts the frame back to sleep.
LEMMA SpawnOrSleepEnds ==
  ASSUME NEW z, NEW f \in Frames, NEW y \in SpawnOrSleep(z, f)
  PROVE  Slept(z, y, f.entry) \/ Chosen(z, y, f.entry)
  <1>1. CASE y \in TrySpawn(z, f.entry)
    BY <1>1, TryEnds
  <1>2. CASE y \in Asleep(z, [f EXCEPT !.at = "top"])
    BY <1>2, SleepAgain
  <1> QED  BY <1>1, <1>2 DEF SpawnOrSleep

\* The chance test of SpawnMonsterFixed, and what a watched passive zone does.
LEMMA DrawEnds ==
  ASSUME NEW z, NEW f \in Frames, NEW y \in FixedDraw(z, f)
  PROVE  SpawnEnds(z, y, f.entry)
  <1>1. CASE y \in Asleep(z, [f EXCEPT !.at = "top"])
    BY <1>1, SleepAgain DEF SpawnEnds
  <1>2. CASE MaySpawn(z) /\ y \in SpawnOrSleep(z, f)
    BY <1>2, SpawnOrSleepEnds DEF SpawnEnds, MaySpawn, Unwatched, Quiet
  <1>3. CASE ~MaySpawn(z) /\ ~cfg.forced /\ y = Listed(z, f.entry)
    BY <1>3 DEF SpawnEnds, MaySpawn, Hindered
  <1>4. CASE cfg.forced /\ f.naps < ForcedNaps /\ y \in Asleep(z, [f EXCEPT !.at = "nap"])
    BY <1>4, SleepAgain DEF SpawnEnds
  <1>5. CASE cfg.forced /\ y \in SpawnOrSleep(z, f)
    BY <1>5, SpawnOrSleepEnds DEF SpawnEnds, Unwatched
  <1> QED  BY <1>1, <1>2, <1>3, <1>4, <1>5 DEF FixedDraw

\* The head of SpawnMonsterFixed: nothing is placed in a watched passive zone that
\* is not forced, since it is paused.
LEMMA TopEnds ==
  ASSUME NEW z, NEW f \in Frames, NEW y \in FixedTop(z, f),
         Quiet /\ ~cfg.forced /\ z.players # {} => z.paused
  PROVE  SpawnEnds(z, y, f.entry)
  <1>1. CASE z.paused /\ y = Listed(z, f.entry)
    BY <1>1 DEF SpawnEnds, Hindered
  <1>2. CASE ~z.paused /\ y \in TrySpawn(z, f.entry)
    BY <1>2, TryEnds DEF SpawnEnds, Unwatched
  <1>3. CASE y \in Asleep(z, [f EXCEPT !.at = "draw"])
    BY <1>3, SleepAgain DEF SpawnEnds
  <1>4. CASE y \in FixedDraw(z, f)
    BY <1>4, DrawEnds
  <1> QED  BY <1>1, <1>2, <1>3, <1>4 DEF FixedTop

\* A nap is for the forced zones only.
LEMMA NapEnds ==
  ASSUME NEW z, NEW f \in Frames, SleeperOK(f), f.at = "nap", NEW y \in FixedNap(z, f)
  PROVE  SpawnEnds(z, y, f.entry)
  <1> DEFINE g == [f EXCEPT !.naps = f.naps + 1]
  <1>1. cfg.forced /\ f.naps < ForcedNaps /\ f.naps \in Nat
    BY DEF SleeperOK, Frames
  <1>2. g \in Frames /\ g.entry = f.entry /\ g.at = "nap" /\ g.naps = f.naps + 1
    BY <1>1, ZonesAssumption DEF Frames
  <1> HIDE DEF g
  <1>3. CASE f.naps + 1 < ForcedNaps /\ y \in Asleep(z, g)
    <2>1. SleeperOK(g)
      BY <1>1, <1>2, <1>3 DEF SleeperOK
    <2> QED  BY <1>2, <1>3, <2>1, AsleepEnds DEF SpawnEnds
  <1>4. CASE y \in SpawnOrSleep(z, g)
    BY <1>1, <1>2, <1>4, SpawnOrSleepEnds DEF SpawnEnds, Unwatched
  <1> QED  BY <1>3, <1>4 DEF FixedNap, g

\* Zone::Spawn ends in one of the four ways, whatever the kind of the zone.
LEMMA SpawnLemma ==
  ASSUME NEW z, NEW f \in Frames, SleeperOK(f), NEW y \in Spawn(z, f),
         Quiet /\ ~cfg.forced /\ z.players # {} => z.paused
  PROVE  SpawnEnds(z, y, f.entry)
  <1>1. CASE cfg.kind = "npc" /\ y \in NpcTop(z, f)
    <2>1. CASE y \in TrySpawn(z, f.entry)
      BY <1>1, <2>1, TryEnds DEF SpawnEnds, Unwatched, Quiet, Is
    <2>2. CASE y \in Asleep(z, [f EXCEPT !.at = "top"])
      BY <2>2, SleepAgain DEF SpawnEnds
    <2>3. CASE y = z
      BY <1>1, <2>3 DEF SpawnEnds, Quiet, Is
    <2> QED  BY <1>1, <2>1, <2>2, <2>3 DEF NpcTop
  <1>2. CASE Is("monster", "fixed")
    <2>0. y \in CASE f.at = "top" -> FixedTop(z, f)
               [] f.at = "draw" -> FixedDraw(z, f)
               [] f.at = "nap" -> FixedNap(z, f)
      BY <1>2 DEF Spawn, Is
    <2>1. CASE f.at = "top"
      BY <2>0, <2>1, TopEnds
    <2>2. CASE f.at = "draw"
      BY <2>0, <2>2, DrawEnds
    <2>3. CASE f.at = "nap"
      BY <2>0, <2>3, NapEnds
    <2> QED  BY <2>1, <2>2, <2>3 DEF Frames
  <1>3. CASE ~Is("monster", "fixed") /\ y \in RelativeTop(z, f)
    <2>1. CASE y = Listed(z, f.entry)
      BY <1>3, <2>1 DEF SpawnEnds, Hindered, Quiet
    <2>2. CASE y \in SpawnOrSleep(z, f)
      BY <1>3, <2>2, SpawnOrSleepEnds DEF SpawnEnds, Unwatched, Quiet
    <2> QED  BY <1>3, <2>1, <2>2 DEF RelativeTop
  <1>4. CASE ~Is("monster", "fixed") /\ y \in SpawnOrSleep(z, f)
    BY <1>4, SpawnOrSleepEnds DEF SpawnEnds, Unwatched, Quiet
  <1> QED  BY <1>1, <1>2, <1>3, <1>4 DEF Spawn, Is

(***************************************************************************)
(* What the small changes of a zone do to the places of its entries.       *)
(***************************************************************************)
LEMMA KeptSleep ==
  ASSUME NEW z, Zoned(z), NEW g \in Frames, NEW y, y.frames = Added(z.frames, g),
         y.active = z.active, y.world = z.world, NEW x, NEW S, Kept(z, x, S),
         Guarded(g.entry) => g.entry \in S
  PROVE  Kept(y, x, S \ {g.entry})
  <1>0. IsBag(z.frames, Frames)
    BY DEF Zoned
  <1>1. /\ DOMAIN y.frames = DOMAIN z.frames \cup {g}
        /\ \A f \in DOMAIN z.frames : f # g => y.frames[f] = z.frames[f]
        /\ g \notin DOMAIN z.frames => y.frames[g] = 1
    <2>1. DOMAIN y.frames = DOMAIN z.frames \cup {g}
      BY AddedDomain
    <2>2. ASSUME NEW f \in DOMAIN z.frames, f # g PROVE y.frames[f] = z.frames[f]
      BY <1>0, <2>2, AddedOld
    <2>3. ASSUME g \notin DOMAIN z.frames PROVE y.frames[g] = 1
      BY <2>3, AddedNew
    <2> QED  BY <2>1, <2>2, <2>3
  <1>2. ASSUME NEW e \in Entries, Guarded(e), e = g.entry
        PROVE  Single(y, x, e) /\ Out(y, e)
    <2>1. Nowhere(z, x, e)
      BY <1>2 DEF Kept
    <2>2. g \notin DOMAIN z.frames /\ y.frames[g] = 1
      BY <1>1, <1>2, <2>1 DEF Nowhere
    <2>3. \A m \in Monsters : ~Held(y, x, e, m)
      BY <2>1 DEF Nowhere, Held
    <2>4. \A f \in DOMAIN y.frames : f.entry = e => f = g
      BY <1>1, <2>1 DEF Nowhere
    <2> QED  BY <1>1, <1>2, <2>2, <2>3, <2>4 DEF Single, Out
  <1>3. ASSUME NEW e \in Entries, Guarded(e), e # g.entry
        PROVE  IF e \in S THEN Nowhere(y, x, e) ELSE Single(y, x, e) /\ (Quiet => Out(y, e))
    <2>1. \A f \in DOMAIN y.frames : f.entry = e => f \in DOMAIN z.frames /\ y.frames[f] = z.frames[f]
      BY <1>1, <1>3
    <2>2. \A m : Held(y, x, e, m) <=> Held(z, x, e, m)
      BY DEF Held
    <2>3. CASE e \in S
      <3>1. Nowhere(z, x, e)
        BY <1>3, <2>3 DEF Kept
      <3> QED  BY <2>1, <2>2, <2>3, <3>1 DEF Nowhere
    <2>4. CASE e \notin S
      <3>1. Single(z, x, e) /\ (Quiet => Out(z, e))
        BY <1>3, <2>4 DEF Kept
      <3>2. Single(y, x, e)
        BY <2>1, <2>2, <3>1 DEF Single
      <3>3. Quiet => Out(y, e)
        BY <1>1, <3>1 DEF Out
      <3> QED  BY <2>4, <3>2, <3>3
    <2> QED  BY <2>3, <2>4
  <1> QED  BY <1>2, <1>3 DEF Kept

\* A frame wakes: its entry is in the hands of the handler, and nowhere else.
LEMMA KeptTake ==
  ASSUME NEW z, Zoned(z), NEW f \in DOMAIN z.frames, NEW y, y.frames = Taken(z.frames, f),
         y.active = z.active, y.world = z.world, NEW x, NEW S, Kept(z, x, S)
  PROVE  /\ Kept(y, x, S \cup {f.entry})
         /\ Guarded(f.entry) => f.entry \notin S
  <1> DEFINE d == f.entry
  <1>0. IsBag(z.frames, Frames) /\ f \in Frames /\ d \in Entries
    BY DEF Zoned, IsBag, Frames
  <1>1. /\ DOMAIN y.frames \subseteq DOMAIN z.frames
        /\ \A g \in DOMAIN z.frames : g # f => g \in DOMAIN y.frames /\ y.frames[g] = z.frames[g]
        /\ z.frames[f] = 1 => f \notin DOMAIN y.frames
    <2>1. DOMAIN y.frames = {g \in DOMAIN z.frames : g # f \/ z.frames[g] > 1}
      BY TakenDomain
    <2>2. ASSUME NEW g \in DOMAIN z.frames, g # f PROVE y.frames[g] = z.frames[g]
      BY <2>2, TakenOld
    <2> QED  BY <2>1, <2>2
  <1>2. Guarded(d) => d \notin S /\ Single(z, x, d)
    BY <1>0 DEF Kept, Nowhere
  <1>3. ASSUME Guarded(d) PROVE Nowhere(y, x, d)
    <2>1. f \notin DOMAIN y.frames /\ \A g \in DOMAIN z.frames : g.entry = d => g = f
      BY <1>1, <1>2, <1>3 DEF Single
    <2>2. \A m \in Monsters : ~Held(y, x, d, m)
      BY <1>2, <1>3 DEF Single, Held
    <2> QED  BY <1>1, <2>1, <2>2 DEF Nowhere
  <1>4. ASSUME NEW e \in Entries, Guarded(e), e # d
        PROVE  IF e \in S THEN Nowhere(y, x, e) ELSE Single(y, x, e) /\ (Quiet => Out(y, e))
    <2>1. \A g \in DOMAIN z.frames : g.entry = e => g \in DOMAIN y.frames /\ y.frames[g] = z.frames[g]
      BY <1>1, <1>4
    <2>2. \A m : Held(y, x, e, m) <=> Held(z, x, e, m)
      BY DEF Held
    <2>3. CASE e \in S
      <3>1. Nowhere(z, x, e)
        BY <1>4, <2>3 DEF Kept
      <3> QED  BY <1>1, <2>2, <2>3, <3>1 DEF Nowhere
    <2>4. CASE e \notin S
      <3>1. Single(z, x, e) /\ (Quiet => Out(z, e))
        BY <1>4, <2>4 DEF Kept
      <3>2. Single(y, x, e)
        BY <1>1, <2>1, <2>2, <3>1 DEF Single
      <3>3. Quiet => Out(y, e)
        BY <2>1, <3>1 DEF Out
      <3> QED  BY <2>4, <3>2, <3>3
    <2> QED  BY <2>3, <2>4
  <1> HIDE DEF d
  <1>5. Kept(y, x, S \cup {d})
    BY <1>3, <1>4 DEF Kept
  <1> QED  BY <1>2, <1>5 DEF d

\* A monster that nobody remembers is placed for an entry.
LEMMA KeptPlace ==
  ASSUME NEW z, NEW y, y.frames = z.frames, NEW m \in Monsters, NEW d \in Entries,
         z.active[m] = Nothing, z.world[m] = Nothing, y.active[m] = d,
         \A n \in Monsters : n # m => y.active[n] = z.active[n] /\ y.world[n] = z.world[n],
         y.world[m] = d, NEW x, NEW S, Kept(z, x, S), Guarded(d) => d \in S
  PROVE  Kept(y, x, S \ {d})
  <1>1. ASSUME Guarded(d) PROVE Single(y, x, d) /\ Out(y, d)
    <2>1. Nowhere(z, x, d)
      BY <1>1 DEF Kept
    <2>2. \A n \in Monsters : Held(y, x, d, n) => n = m
      BY <2>1 DEF Nowhere, Held
    <2> QED  BY <2>1, <2>2 DEF Nowhere, Single, Out
  <1>2. ASSUME NEW e \in Entries, Guarded(e), e # d
        PROVE  IF e \in S THEN Nowhere(y, x, e) ELSE Single(y, x, e) /\ (Quiet => Out(y, e))
    <2>1. \A n \in Monsters : Held(y, x, e, n) <=> Held(z, x, e, n)
      BY <1>2, ZonesAssumption DEF Held
    <2>2. Out(z, e) => Out(y, e)
      BY ZonesAssumption DEF Out
    <2> QED  BY <1>2, <2>1, <2>2 DEF Kept, Nowhere, Single
  <1> QED  BY <1>1, <1>2 DEF Kept

\* The monster x that has been placed for an entry is tracked at last.
LEMMA KeptTrack ==
  ASSUME NEW z, NEW y, y.frames = z.frames, NEW x \in Monsters, NEW d \in Entries,
         z.active[x] = Nothing, z.world[x] = d, y.active[x] = d,
         \A n \in Monsters : n # x => y.active[n] = z.active[n],
         y.world = z.world, NEW S, Kept(z, x, S), Guarded(d) => d \in S
  PROVE  Kept(y, Nothing, S \ {d})
  <1>1. ASSUME Guarded(d) PROVE Single(y, Nothing, d) /\ Out(y, d)
    <2>1. Nowhere(z, x, d)
      BY <1>1 DEF Kept
    <2>2. \A n \in Monsters : Held(y, Nothing, d, n) => n = x
      BY <2>1 DEF Nowhere, Held
    <2> QED  BY <2>1, <2>2 DEF Nowhere, Single, Out
  <1>2. ASSUME NEW e \in Entries, Guarded(e), e # d
        PROVE  IF e \in S THEN Nowhere(y, Nothing, e)
               ELSE Single(y, Nothing, e) /\ (Quiet => Out(y, e))
    <2>1. \A n \in Monsters : Held(y, Nothing, e, n) <=> Held(z, x, e, n)
      BY <1>2, ZonesAssumption DEF Held
    <2>2. Out(z, e) => Out(y, e)
      BY ZonesAssumption DEF Out
    <2> QED  BY <1>2, <2>1, <2>2 DEF Kept, Nowhere, Single
  <1> QED  BY <1>1, <1>2 DEF Kept

\* A creature that dies is forgotten: its entry is in hand.
LEMMA KeptForget ==
  ASSUME NEW z, Zoned(z), NEW y, y.frames = z.frames, NEW m \in Monsters,
         z.active[m] # Nothing, y.active[m] = Nothing,
         \A n \in Monsters : n # m => y.active[n] = z.active[n],
         y.world = z.world, NEW x, x = m \/ z.world[m] = Nothing, NEW S, Kept(z, x, S)
  PROVE  /\ Kept(y, x, S \cup {z.active[m]})
         /\ z.active[m] \in Entries /\ (Guarded(z.active[m]) => z.active[m] \notin S)
  <1> DEFINE d == z.active[m]
  <1>1. d \in Entries
    BY DEF Zoned
  <1>2. ASSUME Guarded(d) PROVE d \notin S /\ Nowhere(y, x, d)
    <2>1. d \notin S
      BY <1>1, <1>2 DEF Kept, Nowhere, Held
    <2>2. Single(z, x, d)
      BY <1>1, <1>2, <2>1 DEF Kept
    <2>3. ASSUME NEW n \in Monsters, Held(y, x, d, n) PROVE FALSE
      <3>1. n # m
        BY <1>1, <2>3, ZonesAssumption DEF Held
      <3>2. Held(z, x, d, n) /\ Held(z, x, d, m)
        BY <2>3, <3>1 DEF Held
      <3> QED  BY <2>2, <3>1, <3>2 DEF Single
    <2>4. Held(z, x, d, m)
      BY DEF Held
    <2> QED  BY <2>1, <2>2, <2>3, <2>4 DEF Nowhere, Single
  <1>3. ASSUME NEW e \in Entries, Guarded(e), e # d
        PROVE  IF e \in S THEN Nowhere(y, x, e) ELSE Single(y, x, e) /\ (Quiet => Out(y, e))
    <2>1. \A n \in Monsters : Held(y, x, e, n) <=> Held(z, x, e, n)
      BY <1>3, ZonesAssumption DEF Held
    <2>2. Out(z, e) => Out(y, e)
      BY <1>3, ZonesAssumption DEF Out
    <2> QED  BY <1>3, <2>1, <2>2 DEF Kept, Nowhere, Single
  <1> HIDE DEF d
  <1>4. Kept(y, x, S \cup {d})
    BY <1>2, <1>3 DEF Kept
  <1> QED  BY <1>1, <1>2, <1>4 DEF d

\* What is nowhere is in one place at most.
LEMMA NowhereSingle ==
  ASSUME NEW z, NEW x, NEW e, Nowhere(z, x, e)
  PROVE  Single(z, x, e)
  BY DEF Nowhere, Single

\* Entries that are dropped; what the waves copy does not count.
LEMMA KeptDrop ==
  ASSUME NEW z, NEW x, NEW S, NEW T, Kept(z, x, S),
         \A e \in T : Guarded(e) => e \in S,
         Quiet => \A e \in S : Guarded(e) => e \in T
  PROVE  Kept(z, x, T)
  BY NowhereSingle DEF Kept

\* A creature that begins to die frees nothing yet.
LEMMA KeptExempt ==
  ASSUME NEW z, NEW x, NEW S, Kept(z, Nothing, S)
  PROVE  Kept(z, x, S)
  <1>1. \A e, m : m # Nothing /\ Held(z, x, e, m) => Held(z, Nothing, e, m)
    BY DEF Held
  <1>2. \A m \in Monsters : m # Nothing
    BY ZonesAssumption
  <1>3. \A e : Nowhere(z, Nothing, e) => Nowhere(z, x, e)
    BY <1>1, <1>2 DEF Nowhere
  <1>4. \A e : Single(z, Nothing, e) => Single(z, x, e)
    BY <1>1, <1>2 DEF Single
  <1> QED  BY <1>3, <1>4 DEF Kept

\* The dying one leaves the world.
LEMMA KeptUnworld ==
  ASSUME NEW z, NEW y, y.frames = z.frames, y.active = z.active, NEW x \in Monsters,
         y.world[x] = Nothing, \A n \in Monsters : n # x => y.world[n] = z.world[n],
         NEW S, Kept(z, x, S)
  PROVE  Kept(y, Nothing, S)
  <1>1. \A e \in Entries, m \in Monsters : Held(y, Nothing, e, m) => Held(z, x, e, m)
    BY ZonesAssumption DEF Held
  <1>2. \A e \in Entries : Nowhere(z, x, e) => Nowhere(y, Nothing, e)
    BY <1>1 DEF Nowhere
  <1>3. \A e \in Entries : Single(z, x, e) => Single(y, Nothing, e)
    BY <1>1 DEF Single
  <1>4. \A e \in Entries : Out(z, e) => Out(y, e)
    BY DEF Out
  <1> QED  BY <1>2, <1>3, <1>4 DEF Kept

\* Monsters that are no longer tracked, or are taken from the world.
LEMMA KeptFewer ==
  ASSUME NEW z, NEW y, ~Quiet, y.frames = z.frames,
         \A m \in Monsters : y.active[m] = z.active[m] \/ y.active[m] = Nothing,
         \A m \in Monsters : y.world[m] = z.world[m] \/ y.world[m] = Nothing,
         NEW x, NEW S, Kept(z, x, S)
  PROVE  Kept(y, x, S)
  <1>1. \A e \in Entries, m \in Monsters : Held(y, x, e, m) => Held(z, x, e, m)
    BY ZonesAssumption DEF Held
  <1>2. \A e \in Entries : Nowhere(z, x, e) => Nowhere(y, x, e)
    BY <1>1 DEF Nowhere
  <1>3. \A e \in Entries : Single(z, x, e) => Single(y, x, e)
    BY <1>1 DEF Single
  <1> QED  BY <1>2, <1>3 DEF Kept

\* Only the guarded entries count.
LEMMA KeptAgree ==
  ASSUME NEW z, NEW x, NEW S, NEW T, Kept(z, x, S),
         \A e \in Entries : Guarded(e) => (e \in S <=> e \in T)
  PROVE  Kept(z, x, T)
  BY DEF Kept

\* The list does not matter to where an entry is.
LEMMA KeptSame ==
  ASSUME NEW z, NEW y, y.frames = z.frames, y.active = z.active, y.world = z.world,
         NEW x, NEW S, Kept(z, x, S)
  PROVE  Kept(y, x, S)
  <1>1. \A e, m : Held(y, x, e, m) <=> Held(z, x, e, m)
    BY DEF Held
  <1> QED  BY <1>1 DEF Kept, Nowhere, Single, Out

\* No creature comes to be tracked that is not in the world.
Aware(z, y) ==
    \A m \in Monsters : y.active[m] # Nothing /\ y.world[m] = Nothing =>
        z.active[m] # Nothing /\ z.world[m] = Nothing

\* A zone that grows: the creatures that are there stay as they are.
Grows(z, y) ==
    /\ Same(z, y)
    /\ \A m \in Monsters : z.world[m] # Nothing \/ z.active[m] # Nothing =>
          y.world[m] = z.world[m] /\ y.active[m] = z.active[m]
    /\ Aware(z, y)

\* A zone that grows keeps its shape.
LEMMA GrowsBody ==
  ASSUME NEW z, NEW x, Body(z, x), NEW y, Zoned(y), y.placing = Nothing, Grows(z, y)
  PROVE  Body(y, x)
  <1>1. x \in Monsters => y.world[x] # Nothing
    BY DEF Body, Grows
  <1>2. Linked(y)
    <2>1. cfg.kind # "boss" => y.master = Nothing /\ y.run \in {"none", "wait"} /\ y.timers = 0
      BY DEF Body, Linked, Grows, Same
    <2>2. ASSUME y.master # Nothing
          PROVE  y.active[y.master] \in Entries /\ cfg.role[y.active[y.master]] = "master"
      <3>1. y.master = z.master /\ z.master \in Monsters
        BY <2>2 DEF Grows, Same, Body, Zoned
      <3>2. z.active[z.master] \in Entries /\ cfg.role[z.active[z.master]] = "master"
        BY <2>2, <3>1 DEF Body, Linked
      <3> QED  BY <3>1, <3>2, ZonesAssumption DEF Grows
    <2> QED  BY <2>1, <2>2 DEF Linked
  <1> QED  BY <1>1, <1>2 DEF Body

\* What grows and grows on grows.
LEMMA GrowsTrans ==
  ASSUME NEW z, NEW y, NEW w, Grows(z, y), Grows(y, w)
  PROVE  Grows(z, w)
  BY DEF Grows, Aware, Same

(***************************************************************************)
(* A spawn inside a dispatch.                                              *)
(***************************************************************************)
\* What it does to everything but the list.
Step(z, y, x, S) == Zoned(y) /\ Grows(z, y) /\ y.placing = Nothing /\ Kept(y, x, S)

\* The entry is in hand, and goes to sleep.
LEMMA SleptStep ==
  ASSUME NEW z, Zoned(z), z.placing = Nothing, NEW e \in Entries, NEW y, Slept(z, y, e),
         NEW x, NEW S, Kept(z, x, S), Guarded(e) => e \in S
  PROVE  Step(z, y, x, S \ {e}) /\ y.list = z.list /\ y.world = z.world /\ y.active = z.active
  <1>1. PICK g \in Frames : SleeperOK(g) /\ g.entry = e /\ y = [z EXCEPT !.frames = Added(z.frames, g)]
    BY DEF Slept
  <1>2. IsBag(Added(z.frames, g), Frames)
    BY AddedBag DEF Zoned
  <1>3. \A f \in DOMAIN Added(z.frames, g) : SleeperOK(f)
    <2>1. DOMAIN Added(z.frames, g) = DOMAIN z.frames \cup {g}
      BY AddedDomain
    <2> QED  BY <1>1, <2>1 DEF Zoned
  <1>4. /\ Zoned(y) /\ Same(z, y) /\ y.frames = Added(z.frames, g) /\ y.list = z.list
        /\ y.active = z.active /\ y.world = z.world /\ y.placing = z.placing
    BY <1>1, <1>2, <1>3, PutFrames
  <1>5. Kept(y, x, S \ {e})
    BY <1>1, <1>4, KeptSleep
  <1> QED  BY <1>4, <1>5 DEF Step, Grows, Aware

\* The entry is in hand, and a monster is placed and tracked for it.
LEMMA PlacedStep ==
  ASSUME NEW z, Zoned(z), z.placing = Nothing, NEW e \in Entries, NEW c, Chosen(z, c, e),
         NEW y, y = Placing(c), NEW x, NEW S, Kept(z, x, S), Guarded(e) => e \in S
  PROVE  Step(z, y, x, S \ {e}) /\ y.list = z.list
  <1>1. PICK m \in Monsters : /\ z.world[m] = Nothing /\ z.active[m] = Nothing
                              /\ c = [z EXCEPT !.placing = <<m, e>>]
    BY DEF Chosen
  <1>2. /\ Zoned(c) /\ Same(z, c) /\ c.list = z.list /\ c.frames = z.frames
        /\ c.active = z.active /\ c.world = z.world /\ c.placing = <<m, e>>
    BY <1>1, PutPlacing
  <1>3. <<m, e>> # Nothing
    BY ZonesAssumption
  <1> DEFINE w == [z.world EXCEPT ![m] = e]
             a == [z.active EXCEPT ![m] = e]
             c1 == [c EXCEPT !.world = w]
             c2 == [c1 EXCEPT !.active = a]
             c3 == [c2 EXCEPT !.placing = Nothing]
  <1>4. w \in CreatureMap /\ a \in CreatureMap
    BY DEF Zoned, CreatureMap
  <1>5. y = c3
    <2>1. y = [c EXCEPT !.world[m] = e, !.active[m] = e, !.placing = Nothing]
      BY <1>2, <1>3 DEF Placing
    <2>2. c1.active = z.active /\ c.world = z.world /\ c.active = z.active
      BY <1>2
    <2>3. c3 = [[[c EXCEPT !.world = [c.world EXCEPT ![m] = e]] EXCEPT !.active = [c.active EXCEPT ![m] = e]]
                  EXCEPT !.placing = Nothing]
      BY <2>2
    <2> QED  BY <1>2, <2>1, <2>3 DEF Zoned
  <1> HIDE DEF w, a, c1, c2, c3
  <1>6. /\ Zoned(c1) /\ Same(c, c1) /\ c1.list = c.list /\ c1.frames = c.frames
        /\ c1.active = c.active /\ c1.world = w
    BY <1>2, <1>4, PutWorld DEF c1
  <1>7. /\ Zoned(c2) /\ Same(c1, c2) /\ c2.list = c1.list /\ c2.frames = c1.frames
        /\ c2.active = a /\ c2.world = c1.world
    BY <1>6, <1>4, PutActive DEF c2
  <1>8. /\ Zoned(y) /\ Same(c2, y) /\ y.list = c2.list /\ y.frames = c2.frames
        /\ y.active = c2.active /\ y.world = c2.world /\ y.placing = Nothing
    BY <1>5, <1>7, PutPlacing DEF c3
  <1>9. /\ y.world[m] = e /\ y.active[m] = e
        /\ \A n \in Monsters : n # m => y.active[n] = z.active[n] /\ y.world[n] = z.world[n]
    BY <1>6, <1>7, <1>8 DEF w, a, Zoned
  <1>10. Same(z, y)
    BY <1>2, <1>6, <1>7, <1>8 DEF Same
  <1>11. y.frames = z.frames /\ y.list = z.list
    BY <1>2, <1>6, <1>7, <1>8
  <1>12. Kept(y, x, S \ {e})
    BY SMTT(30), <1>1, <1>9, <1>11, KeptPlace
  <1>13. Grows(z, y)
    BY <1>1, <1>9, <1>10, ZonesAssumption DEF Grows, Aware
  <1> QED  BY <1>8, <1>11, <1>12, <1>13 DEF Step

\* The entry is in hand, and goes back to the list.
LEMMA ListedStep ==
  ASSUME NEW z, Zoned(z), z.placing = Nothing, NEW e \in Entries, NEW y, y = Listed(z, e),
         NEW x, NEW S, Kept(z, x, S)
  PROVE  /\ Step(z, y, x, S)
         /\ y.list = Added(z.list, e) /\ y.world = z.world /\ y.active = z.active
  <1>1. IsBag(Added(z.list, e), Entries)
    BY AddedBag DEF Zoned
  <1>2. /\ Zoned(y) /\ Same(z, y) /\ y.frames = z.frames /\ y.list = Added(z.list, e)
        /\ y.active = z.active /\ y.world = z.world /\ y.placing = z.placing
    BY <1>1, PutList DEF Listed
  <1>3. Kept(y, x, S)
    BY <1>2, KeptSame
  <1> QED  BY <1>2, <1>3 DEF Step, Grows, Aware

\* A spawn inside a dispatch takes the entry out of the hand.
LEMMA SpawnedStep ==
  ASSUME NEW z, NEW x, Body(z, x), NEW f \in Frames, SleeperOK(f), NEW S, Kept(z, x, S),
         Guarded(f.entry) => f.entry \in S, Quiet => z.players = {} /\ ~z.paused,
         NEW y \in Spawned(z, f)
  PROVE  Step(z, y, x, S \ {f.entry})
  <1> DEFINE e == f.entry
  <1>1. e \in Entries
    BY DEF Frames
  <1>2. Zoned(z) /\ z.placing = Nothing
    BY DEF Body
  <1>3. PICK c \in Spawn(z, f) : y = Placing(c)
    BY DEF Spawned
  <1>4. SpawnEnds(z, c, e)
    BY <1>3, SpawnLemma
  <1> HIDE DEF e
  <1>5. c.placing = Nothing => y = c
    BY <1>3 DEF Placing
  <1>6. CASE Slept(z, c, e)
    <2>1. Step(z, c, x, S \ {e})
      BY <1>1, <1>2, <1>6, SleptStep DEF e
    <2> QED  BY <1>5, <2>1 DEF Step, e
  <1>7. CASE Chosen(z, c, e)
    BY <1>1, <1>2, <1>3, <1>7, PlacedStep DEF e
  <1>8. ASSUME ~Quiet PROVE Kept(z, x, S \ {e})
    BY <1>8, KeptDrop
  <1>9. CASE c = Listed(z, e) /\ Hindered(z)
    <2>1. ~Quiet
      BY <1>9 DEF Hindered
    <2>2. Step(z, c, x, S \ {e})
      BY <1>1, <1>2, <1>8, <1>9, <2>1, ListedStep
    <2> QED  BY <1>5, <2>2 DEF Step, e
  <1>10. CASE c = z /\ ~Quiet
    <2>1. Grows(z, z)
      BY DEF Grows, Aware, Same
    <2> QED  BY <1>2, <1>5, <1>8, <1>10, <2>1 DEF Step, e
  <1> QED  BY <1>4, <1>6, <1>7, <1>9, <1>10 DEF SpawnEnds

Hows == {"startup", "at once", "delayed"}

\* So does an entry that is begun, at once or after its delay.
LEMMA BegunStep ==
  ASSUME NEW z, NEW x, Body(z, x), NEW e \in Entries, NEW S, Kept(z, x, S),
         Guarded(e) => e \in S, Quiet => z.players = {} /\ ~z.paused,
         NEW how \in Hows, NEW y \in Begun(z, e, how)
  PROVE  Step(z, y, x, S \ {e})
  <1>1. CASE y \in DelaySpawn(z, e)
    <2>1. Slept(z, y, e)
      BY <1>1, DelayEnds
    <2> QED  BY <2>1, SleptStep DEF Body
  <1>2. CASE y \in Spawned(z, Frame(e, how = "startup"))
    <2> DEFINE f == Frame(e, how = "startup")
    <2>1. f \in Frames /\ SleeperOK(f) /\ f.entry = e
      BY ZonesAssumption DEF Frame, Frames, SleeperOK
    <2> HIDE DEF f
    <2> QED  BY <1>2, <2>1, SpawnedStep DEF f
  <1> QED  BY <1>1, <1>2 DEF Begun

(***************************************************************************)
(* The walk over the list.                                                 *)
(***************************************************************************)
Bags(S) == UNION {[T -> Nat \ {0}] : T \in SUBSET S}
AnyZone ==
    [on : BOOLEAN, paused : BOOLEAN, run : Runs, startup : BOOLEAN, spare : BOOLEAN,
     list : Bags(Entries), active : CreatureMap, world : CreatureMap, frames : Bags(Frames),
     players : SUBSET Players, inside : SUBSET Players, timers : 0 .. MaxTimers,
     master : Monsters \cup {Nothing}, wave : 1 .. MaxWave,
     placing : {Nothing} \cup (Monsters \X Entries), wild : BOOLEAN]

\* The zones form a set, over which the walk is a function.
LEMMA ZonedSet ==
  ASSUME NEW z, Zoned(z)
  PROVE  z \in AnyZone
  <1>1. z.list \in Bags(Entries) /\ z.frames \in Bags(Frames)
    BY DEF Zoned, IsBag, Bags
  <1> QED  BY <1>1 DEF Zoned, AnyZone, CreatureMap

\* The entries that are still to come when the walk has begun the copies r.
ToCome(todo, r) == {c[1] : c \in Copies(todo) \ r}

\* One copy after the other: what is still to come is in hand.
LEMMA ToComeLemma ==
  ASSUME NEW b, IsBag(b, Entries), NEW r \in SUBSET Copies(b), NEW c \in r,
         NEW e \in Entries, NEW H, c[1] \in Entries, Guarded(c[1]) => b[c[1]] = 1 /\ c[1] \notin H,
         Guarded(e)
  PROVE  e \in (H \cup ToCome(b, r \ {c})) \ {c[1]} <=> e \in H \cup ToCome(b, r)
  <1>1. \A d \in Copies(b) : b[d[1]] = 1 => d = <<d[1], 1>>
    BY CopiesLemma
  <1>2. CASE e = c[1]
    <2>1. c = <<e, 1>>
      BY <1>1, <1>2
    <2>2. \A d \in Copies(b) : d[1] = e => d = c
      BY <1>1, <1>2, <2>1
    <2>3. e \notin ToCome(b, r)
      BY <2>2 DEF ToCome
    <2> QED  BY <1>2, <2>3
  <1>3. CASE e # c[1]
    <2>1. e \in ToCome(b, r \ {c}) <=> e \in ToCome(b, r)
      BY <1>3 DEF ToCome
    <2> QED  BY <1>3, <2>1
  <1> QED  BY <1>2, <1>3

\* ProcessCreatures leaves nothing in the list and loses nothing of it.
LEMMA SpawnListedLemma ==
  ASSUME NEW z, NEW x, NEW H, Fine(z, x, H), Quiet => z.players = {} /\ ~z.paused,
         NEW how \in Hows, NEW y \in SpawnListed(z, how)
  PROVE  Fine(y, x, H) /\ y.list = Empty /\ Grows(z, y)
  <1> DEFINE b == z.list
             S == Copies(b)
             K == [r \in SUBSET S |->
                     {v \in AnyZone : Step(z, v, x, H \cup ToCome(b, r))}]
  <1>1. IsBag(b, Entries) /\ IsFiniteSet(Entries)
    BY ZonesAssumption DEF Fine, Body, Zoned
  <1>2. IsFiniteSet(S) /\ \A c \in S : c[1] \in DOMAIN b
    BY <1>1, CopiesLemma
  <1>3. \A c \in S : c[1] \in Entries /\ (Guarded(c[1]) => b[c[1]] = 1 /\ c[1] \notin H)
    BY <1>1, <1>2 DEF Fine, Listing, IsBag
  <1> HIDE DEF b, S
  <1>4. z \in K[{}]
    <2>1. ToCome(b, {}) = DOMAIN b
      <3>1. \A e \in DOMAIN b : <<e, 1>> \in S
        BY <1>1, CopiesLemma DEF S
      <3>2. ASSUME NEW e \in DOMAIN b PROVE e \in ToCome(b, {})
        <4>1. <<e, 1>> \in Copies(b) \ {} /\ <<e, 1>>[1] = e
          BY <3>1 DEF S
        <4> QED  BY <4>1 DEF ToCome
      <3>3. \A e \in ToCome(b, {}) : e \in DOMAIN b
        BY <1>2 DEF ToCome, S
      <3> QED  BY <3>2, <3>3
    <2>2. Step(z, z, x, H \cup DOMAIN b)
      BY DEF Step, Grows, Aware, Same, Fine, Body, b
    <2>3. z \in AnyZone
      BY ZonedSet DEF Fine, Body
    <2> QED  BY <2>1, <2>2, <2>3
  <1>5. ASSUME NEW r \in SUBSET S, NEW c \in r, NEW v \in K[r \ {c}], NEW w \in Begun(v, c[1], how)
        PROVE  w \in K[r]
    <2> DEFINE e == c[1]
               R == H \cup ToCome(b, r \ {c})
    <2>1. v \in AnyZone /\ Step(z, v, x, R)
      <3>1. r \ {c} \in SUBSET S
        OBVIOUS
      <3> QED  BY <1>5, <3>1
    <2>2. e \in Entries /\ e \in R
      <3>1. e \in ToCome(b, r \ {c})
        BY DEF ToCome, S
      <3> QED  BY <1>3, <3>1
    <2>3. Body(v, x)
      BY <2>1, GrowsBody DEF Fine, Step
    <2>4. Quiet => v.players = {} /\ ~v.paused
      BY <2>1 DEF Step, Grows, Same
    <2> HIDE DEF e, R
    <2>5. Step(v, w, x, R \ {e})
      BY <1>5, <2>1, <2>2, <2>3, <2>4, BegunStep DEF Step, e
    <2>6. Grows(z, w)
      BY <2>1, <2>5, GrowsTrans DEF Step
    <2>7. \A d \in Entries : Guarded(d) => (d \in R \ {e} <=> d \in H \cup ToCome(b, r))
      BY <1>1, <1>3, ToComeLemma DEF R, e, S
    <2>8. Kept(w, x, H \cup ToCome(b, r))
      BY <2>5, <2>7, KeptAgree DEF Step
    <2>9. Step(z, w, x, H \cup ToCome(b, r)) /\ w \in AnyZone
      BY <2>5, <2>6, <2>8, ZonedSet DEF Step
    <2> QED  BY <2>9
  <1> HIDE DEF K
  <1>6. EachBegun(z, b, how) \subseteq K[S]
    BY <1>2, <1>4, <1>5, WalkKeeps DEF S
  <1>7. PICK v \in EachBegun(z, b, how) : y = [v EXCEPT !.list = Empty]
    BY DEF SpawnListed, b
  <1>8. Step(z, v, x, H)
    <2>1. Step(z, v, x, H \cup ToCome(b, S))
      BY <1>6, <1>7 DEF K
    <2>2. ToCome(b, S) = {}
      BY DEF ToCome, S
    <2>3. H \cup {} = H
      OBVIOUS
    <2> QED  BY <2>1, <2>2, <2>3
  <1>9. /\ Zoned(y) /\ Same(v, y) /\ y.list = Empty /\ y.frames = v.frames
        /\ y.active = v.active /\ y.world = v.world /\ y.placing = v.placing
    BY <1>7, <1>8, EmptyIsBag, PutList DEF Step
  <1>10. Grows(z, y)
    BY <1>8, <1>9 DEF Step, Grows, Aware, Same
  <1>11. Body(y, x)
    BY <1>8, <1>9, <1>10, GrowsBody DEF Fine, Step
  <1>12. H \cup DOMAIN y.list = H
    BY <1>9, EmptyIsBag
  <1>13. Kept(y, x, H \cup DOMAIN y.list)
    BY <1>8, <1>9, <1>12, KeptSame DEF Step
  <1>14. Listing(y, H)
    BY <1>9, EmptyIsBag DEF Listing
  <1> QED  BY <1>9, <1>10, <1>11, <1>13, <1>14 DEF Fine

(***************************************************************************)
(* Changes of a fine zone, one that keeps what is in hand.                 *)
(***************************************************************************)
LEMMA FineSame ==
  ASSUME NEW z, NEW x, NEW H, Fine(z, x, H), NEW y, Zoned(y), y.list = z.list,
         y.frames = z.frames, y.active = z.active, y.world = z.world,
         y.placing = z.placing, Linked(y)
  PROVE  Fine(y, x, H)
  <1>1. Kept(y, x, H \cup DOMAIN y.list)
    BY KeptSame DEF Fine
  <1> QED  BY <1>1 DEF Fine, Body, Listing

\* A zone that is not quiet may drop what is in hand.
LEMMA FineDrop ==
  ASSUME ~Quiet, NEW z, NEW x, NEW H, Fine(z, x, H), NEW T,
         \A e \in T : Guarded(e) => e \in H
  PROVE  Fine(z, x, T)
  <1>1. Kept(z, x, T \cup DOMAIN z.list)
    BY KeptDrop DEF Fine
  <1> QED  BY <1>1 DEF Fine, Listing

\* What is in hand may go to sleep.
LEMMA FineSlept ==
  ASSUME NEW z, NEW x, NEW H, Fine(z, x, H), NEW e \in Entries, Guarded(e) => e \in H,
         NEW y, Slept(z, y, e)
  PROVE  Fine(y, x, H \ {e}) /\ Grows(z, y) /\ y.list = z.list /\ y.world = z.world
  <1> DEFINE S == H \cup DOMAIN z.list
  <1>2. Step(z, y, x, S \ {e}) /\ y.list = z.list /\ y.world = z.world
    BY SleptStep DEF Fine, Body
  <1>3. Body(y, x)
    BY <1>2, GrowsBody DEF Fine, Step
  <1>4. \A d \in Entries : Guarded(d) => (d \in S \ {e} <=> d \in (H \ {e}) \cup DOMAIN y.list)
    BY <1>2 DEF Fine, Listing
  <1>5. Kept(y, x, (H \ {e}) \cup DOMAIN y.list)
    BY <1>2, <1>4, KeptAgree DEF Step
  <1>6. Listing(y, H \ {e})
    BY <1>2 DEF Fine, Listing
  <1> QED  BY <1>2, <1>3, <1>5, <1>6 DEF Fine, Step

\* It may begin with its delay.
LEMMA FineDelay ==
  ASSUME NEW z, NEW x, NEW H, Fine(z, x, H), NEW e \in Entries, Guarded(e) => e \in H,
         NEW y \in DelaySpawn(z, e)
  PROVE  Fine(y, x, H \ {e}) /\ Grows(z, y) /\ y.list = z.list /\ y.world = z.world
  BY DelayEnds, FineSlept

\* It may go back to the list.
LEMMA FineListed ==
  ASSUME NEW z, NEW x, NEW H, Fine(z, x, H), NEW e \in Entries, Guarded(e) => e \in H,
         NEW y, y = Listed(z, e)
  PROVE  Fine(y, x, H \ {e}) /\ Grows(z, y) /\ y.world = z.world
  <1> DEFINE S == H \cup DOMAIN z.list
  <1>1. Step(z, y, x, S) /\ y.list = Added(z.list, e) /\ y.world = z.world
    BY ListedStep DEF Fine, Body
  <1>2. Body(y, x)
    BY <1>1, GrowsBody DEF Fine, Step
  <1>3. DOMAIN y.list = DOMAIN z.list \cup {e}
    BY <1>1, AddedDomain
  <1>4. \A d \in Entries : Guarded(d) => (d \in S <=> d \in (H \ {e}) \cup DOMAIN y.list)
    BY <1>3
  <1>5. Kept(y, x, (H \ {e}) \cup DOMAIN y.list)
    BY <1>1, <1>4, KeptAgree DEF Step
  <1>6. ASSUME NEW d \in DOMAIN y.list, Guarded(d) PROVE y.list[d] = 1 /\ d \notin H \ {e}
    <2>1. CASE d = e
      <3>1. e \notin DOMAIN z.list
        BY <1>6, <2>1 DEF Fine, Listing
      <3> QED  BY <1>1, <2>1, <3>1, AddedNew
    <2>2. CASE d # e
      <3>1. d \in DOMAIN z.list /\ z.list[d] = 1 /\ d \notin H
        BY <1>3, <1>6, <2>2 DEF Fine, Listing
      <3>2. IsBag(z.list, Entries)
        BY DEF Fine, Body, Zoned
      <3>3. y.list[d] = z.list[d]
        BY <1>1, <2>2, <3>1, <3>2, AddedOld
      <3> QED  BY <3>1, <3>3
    <2> QED  BY <2>1, <2>2
  <1> QED  BY <1>1, <1>2, <1>5, <1>6 DEF Fine, Listing, Step

\* A spawn whose result is kept: the walk has taken its entries off the list.
LEMMA FineSpawned ==
  ASSUME ~Quiet, NEW z, NEW x, NEW H, Fine(z, x, H), NEW f \in Frames, SleeperOK(f),
         Guarded(f.entry) => f.entry \in H, NEW y \in Spawned(z, f)
  PROVE  Fine(y, x, H \ {f.entry}) /\ Grows(z, y)
  <1> DEFINE e == f.entry
             S == H \cup DOMAIN z.list
  <1>1. e \in Entries
    BY DEF Frames
  <1>2. Zoned(z) /\ z.placing = Nothing /\ Kept(z, x, S)
    BY DEF Fine, Body
  <1>3. PICK c \in Spawn(z, f) : y = Placing(c)
    BY DEF Spawned
  <1>4. SpawnEnds(z, c, e)
    BY <1>3, SpawnLemma
  <1>5. c.placing = Nothing => y = c
    BY <1>3 DEF Placing
  <1> HIDE DEF e
  <1>6. ASSUME Step(z, y, x, S \ {e}), y.list = z.list
        PROVE  Fine(y, x, H \ {e}) /\ Grows(z, y)
    <2>1. Body(y, x)
      BY <1>6, GrowsBody DEF Fine, Step
    <2>2. \A d \in Entries : Guarded(d) => (d \in S \ {e} <=> d \in (H \ {e}) \cup DOMAIN y.list)
      BY <1>6 DEF Fine, Listing, e
    <2>3. Kept(y, x, (H \ {e}) \cup DOMAIN y.list)
      BY <1>6, <2>2, KeptAgree DEF Step
    <2>4. Listing(y, H \ {e})
      BY <1>6 DEF Fine, Listing
    <2> QED  BY <1>6, <2>1, <2>3, <2>4 DEF Fine, Step
  <1>7. CASE Slept(z, c, e)
    <2>1. Step(z, c, x, S \ {e}) /\ c.list = z.list
      BY <1>1, <1>2, <1>7, SleptStep DEF e
    <2> QED  BY <1>5, <1>6, <2>1 DEF Step, e
  <1>8. CASE Chosen(z, c, e)
    <2>1. Step(z, y, x, S \ {e}) /\ y.list = z.list
      BY <1>1, <1>2, <1>3, <1>8, PlacedStep DEF e
    <2> QED  BY <1>6, <2>1 DEF e
  <1>9. CASE c = Listed(z, e)
    <2>1. Fine(c, x, H \ {e}) /\ Grows(z, c)
      BY <1>1, <1>9, FineListed DEF e
    <2> QED  BY <1>5, <2>1 DEF Fine, Body, e
  <1>10. CASE c = z
    <2>1. Fine(z, x, H \ {e})
      BY FineDrop
    <2> QED  BY <1>2, <1>5, <1>10, <2>1 DEF Grows, Aware, Same, e
  <1> QED  BY <1>4, <1>7, <1>8, <1>9, <1>10 DEF SpawnEnds

\* It may be begun, in a zone that is not quiet.
LEMMA FineBegun ==
  ASSUME ~Quiet, NEW z, NEW x, NEW H, Fine(z, x, H), NEW e \in Entries,
         Guarded(e) => e \in H, NEW how \in Hows, NEW y \in Begun(z, e, how)
  PROVE  Fine(y, x, H \ {e}) /\ Grows(z, y)
  <1>1. CASE y \in DelaySpawn(z, e)
    BY <1>1, FineDelay
  <1>2. CASE y \in Spawned(z, Frame(e, how = "startup"))
    <2> DEFINE f == Frame(e, how = "startup")
    <2>1. f \in Frames /\ SleeperOK(f) /\ f.entry = e
      BY ZonesAssumption DEF Frame, Frames, SleeperOK
    <2> HIDE DEF f
    <2> QED  BY <1>2, <2>1, FineSpawned DEF f
  <1> QED  BY <1>1, <1>2 DEF Begun

Done(r) == {c[1] : c \in r}

\* So may everything in hand, one after the other.
LEMMA FineEach ==
  ASSUME ~Quiet, NEW z, NEW x, NEW H, Fine(z, x, H), NEW T \in SUBSET Entries,
         \A e \in T : Guarded(e) => e \in H, NEW how \in Hows,
         NEW y \in EachBegun(z, BagOf(T), how)
  PROVE  Fine(y, x, H \ T) /\ Grows(z, y)
  <1> DEFINE b == BagOf(T)
             S == Copies(b)
             K == [r \in SUBSET S |-> {v \in AnyZone : Fine(v, x, H \ Done(r)) /\ Grows(z, v)}]
  <1>1. IsBag(b, Entries) /\ IsFiniteSet(Entries) /\ DOMAIN b = T /\ \A e \in T : b[e] = 1
    BY ZonesAssumption, BagOfBag, BagOfDomain, BagOfOne
  <1> HIDE DEF b
  <1>2. IsFiniteSet(S) /\ \A c \in S : c[1] \in T /\ c = <<c[1], 1>>
    <2>1. \A c \in S : c[1] \in DOMAIN b
      BY <1>1, CopiesLemma
    <2>2. \A c \in S : b[c[1]] = 1 => c = <<c[1], 1>>
      BY <1>1, CopiesLemma
    <2>3. IsFiniteSet(S)
      BY <1>1, CopiesLemma
    <2> QED  BY <1>1, <2>1, <2>2, <2>3
  <1>3. Done(S) = T
    <2>1. \A e \in T : <<e, 1>> \in S
      BY <1>1, CopiesLemma
    <2>2. ASSUME NEW e \in T PROVE e \in Done(S)
      <3>1. <<e, 1>> \in S /\ <<e, 1>>[1] = e
        BY <2>1
      <3> HIDE DEF S
      <3> QED  BY <3>1 DEF Done
    <2> HIDE DEF S
    <2>3. \A e \in Done(S) : e \in T
      BY <1>2 DEF Done
    <2> QED  BY <2>2, <2>3
  <1> HIDE DEF S
  <1>4. z \in K[{}]
    <2>1. H \ Done({}) = H
      BY DEF Done
    <2>2. Fine(z, x, H \ Done({})) /\ Grows(z, z)
      BY <2>1 DEF Grows, Aware, Same
    <2>3. z \in AnyZone
      BY ZonedSet DEF Fine, Body
    <2> QED  BY <2>2, <2>3
  <1>5. ASSUME NEW r \in SUBSET S, NEW c \in r, NEW v \in K[r \ {c}], NEW w \in Begun(v, c[1], how)
        PROVE  w \in K[r]
    <2> DEFINE e == c[1]
               R == H \ Done(r \ {c})
    <2>1. v \in AnyZone /\ Fine(v, x, R) /\ Grows(z, v)
      <3>1. r \ {c} \in SUBSET S
        OBVIOUS
      <3> QED  BY <1>5, <3>1
    <2>2. e \in T /\ e \notin Done(r \ {c})
      BY <1>2 DEF Done
    <2>3. R \ {e} = H \ Done(r)
      <3>1. Done(r) = Done(r \ {c}) \cup {e}
        BY DEF Done
      <3> QED  BY <3>1
    <2>4. e \in Entries /\ (Guarded(e) => e \in R)
      BY <2>2
    <2> HIDE DEF e, R
    <2>5. Fine(w, x, R \ {e}) /\ Grows(v, w)
      BY <1>5, <2>1, <2>4, FineBegun DEF e
    <2>6. Grows(z, w)
      BY <2>1, <2>5, GrowsTrans
    <2>7. w \in AnyZone
      BY <2>5, ZonedSet DEF Fine, Body
    <2> QED  BY <2>3, <2>5, <2>6, <2>7
  <1> HIDE DEF K
  <1>6. EachBegun(z, b, how) \subseteq K[S]
    BY <1>2, <1>4, <1>5, WalkKeeps DEF S
  <1> QED  BY <1>3, <1>6 DEF K, b

\* The places of the entries are as before.
Aside(z, y) ==
    /\ y.list = z.list /\ y.frames = z.frames /\ y.active = z.active
    /\ y.world = z.world /\ y.placing = z.placing

\* Players, flags and timers do not matter to the entries.
LEMMA FineAside ==
  ASSUME NEW z, NEW x, NEW H, Fine(z, x, H), NEW y, Zoned(y), Aside(z, y),
         y.master = z.master, cfg.kind # "boss" => y.run = z.run /\ y.timers = z.timers
  PROVE  Fine(y, x, H)
  <1>1. Linked(y)
    BY DEF Fine, Body, Linked, Aside
  <1> QED  BY <1>1, FineSame DEF Aside

\* The players that the zone tracks change.
LEMMA PlayersPut ==
  ASSUME NEW z, NEW x, NEW H, Fine(z, x, H), NEW P \in SUBSET Players,
         NEW y, y = [z EXCEPT !.players = P]
  PROVE  /\ Fine(y, x, H) /\ Aside(z, y)
         /\ y.players = P /\ y.paused = z.paused /\ y.run = z.run /\ y.on = z.on
  <1>1. Zoned(z)
    BY DEF Fine, Body
  <1>2. /\ Zoned(y) /\ Aside(z, y) /\ y.master = z.master /\ y.run = z.run /\ y.timers = z.timers
        /\ y.players = P /\ y.paused = z.paused /\ y.on = z.on
    BY <1>1 DEF Zoned, Aside
  <1> QED  BY <1>2, FineAside

\* The zone is paused, or goes on.
LEMMA PausedPut ==
  ASSUME NEW z, NEW x, NEW H, Fine(z, x, H), NEW q \in BOOLEAN,
         NEW y, y = [z EXCEPT !.paused = q]
  PROVE  /\ Fine(y, x, H) /\ Aside(z, y)
         /\ y.players = z.players /\ y.paused = q /\ y.run = z.run /\ y.on = z.on
  <1>1. Zoned(z)
    BY DEF Fine, Body
  <1>2. /\ Zoned(y) /\ Aside(z, y) /\ y.master = z.master /\ y.run = z.run /\ y.timers = z.timers
        /\ y.players = z.players /\ y.paused = q /\ y.on = z.on
    BY <1>1 DEF Zoned, Aside
  <1> QED  BY <1>2, FineAside

\* The Run frame of a boss goes elsewhere.
LEMMA RunPut ==
  ASSUME cfg.kind = "boss", NEW z, NEW x, NEW H, Fine(z, x, H), NEW r \in Runs,
         NEW y, y = [z EXCEPT !.run = r]
  PROVE  /\ Fine(y, x, H) /\ Aside(z, y)
         /\ y.players = z.players /\ y.run = r /\ y.on = z.on /\ y.timers = z.timers
  <1>1. Zoned(z)
    BY DEF Fine, Body
  <1>2. /\ Zoned(y) /\ Aside(z, y) /\ y.master = z.master /\ y.timers = z.timers
        /\ y.players = z.players /\ y.run = r /\ y.on = z.on
    BY <1>1 DEF Zoned, Aside
  <1> QED  BY <1>2, FineAside

\* Another wave is current.
LEMMA WavePut ==
  ASSUME NEW z, NEW x, NEW H, Fine(z, x, H), NEW n \in 1 .. MaxWave,
         NEW y, y = [z EXCEPT !.wave = n]
  PROVE  /\ Fine(y, x, H) /\ Aside(z, y)
         /\ y.players = z.players /\ y.run = z.run /\ y.on = z.on
  <1>1. Zoned(z)
    BY DEF Fine, Body
  <1>2. /\ Zoned(y) /\ Aside(z, y) /\ y.master = z.master /\ y.run = z.run /\ y.timers = z.timers
        /\ y.players = z.players /\ y.on = z.on
    BY <1>1 DEF Zoned, Aside
  <1> QED  BY <1>2, FineAside

\* The wave counts up.
LEMMA NextWaveFine ==
  ASSUME NEW z, NEW x, NEW H, Fine(z, x, H), NEW y, y = NextWave(z)
  PROVE  /\ Fine(y, x, H) /\ Aside(z, y)
         /\ y.players = z.players /\ y.run = z.run /\ y.on = z.on /\ y.wave \in 1 .. MaxWave
  <1>1. Zoned(z)
    BY DEF Fine, Body
  <1> DEFINE n == IF z.wave < MaxWave THEN z.wave + 1 ELSE z.wave
  <1>2. n \in 1 .. MaxWave
    BY <1>1, ZonesAssumption DEF Zoned
  <1>3. y = [z EXCEPT !.wave = n]
    BY DEF NextWave
  <1>4. y.wave = n
    BY <1>1, <1>3 DEF Zoned
  <1> HIDE DEF n
  <1> QED  BY <1>2, <1>3, <1>4, WavePut

\* The list of a zone that may lose entries is replaced by what need not be kept.
LEMMA ListPut ==
  ASSUME ~Quiet, NEW z, NEW x, Fine(z, x, {}), NEW b, IsBag(b, Entries),
         \A e \in DOMAIN b : ~Guarded(e), NEW y, y = [z EXCEPT !.list = b]
  PROVE  /\ Fine(y, x, {}) /\ y.players = z.players /\ y.run = z.run /\ y.on = z.on
         /\ y.list = b
  <1>1. /\ Zoned(y) /\ Same(z, y) /\ y.frames = z.frames /\ y.list = b
        /\ y.active = z.active /\ y.world = z.world /\ y.placing = z.placing
    BY PutList DEF Fine, Body
  <1>2. Body(y, x)
    BY <1>1 DEF Fine, Body, Linked, Same
  <1>3. Kept(z, x, {} \cup DOMAIN y.list)
    BY <1>1, KeptDrop DEF Fine
  <1>4. Kept(y, x, {} \cup DOMAIN y.list)
    BY <1>1, <1>3, KeptSame
  <1>5. Listing(y, {})
    BY <1>1 DEF Listing
  <1> QED  BY <1>1, <1>2, <1>4, <1>5 DEF Fine, Same

\* A creature that has died is forgotten: its entry is in hand.
LEMMA FineFreed ==
  ASSUME NEW z, NEW x, Fine(z, x, {}), NEW m \in Monsters, z.active[m] # Nothing,
         x = m \/ z.world[m] = Nothing,
         NEW y, Zoned(y), Linked(y), y.list = z.list, y.frames = z.frames,
         y.world = z.world, y.placing = Nothing, y.active = [z.active EXCEPT ![m] = Nothing]
  PROVE  Fine(y, x, {z.active[m]}) /\ z.active[m] \in Entries
  <1> DEFINE e == z.active[m]
             S == {} \cup DOMAIN z.list
  <1>1. Zoned(z) /\ Kept(z, x, S)
    BY DEF Fine, Body
  <1>2. y.active[m] = Nothing /\ \A n \in Monsters : n # m => y.active[n] = z.active[n]
    BY <1>1 DEF Zoned
  <1>3. Kept(y, x, S \cup {e}) /\ e \in Entries /\ (Guarded(e) => e \notin S)
    BY <1>1, <1>2, KeptForget
  <1>4. S \cup {e} = {e} \cup DOMAIN y.list
    OBVIOUS
  <1>5. Listing(y, {e})
    BY <1>3 DEF Fine, Listing
  <1>6. Body(y, x)
    BY DEF Fine, Body
  <1> QED  BY <1>3, <1>4, <1>5, <1>6 DEF Fine

\* A creature that is not the master is forgotten.
LEMMA Unlinked ==
  ASSUME NEW z, Zoned(z), Linked(z), NEW m \in Monsters, z.master # m, NEW y, y = Forgotten(z, m)
  PROVE  /\ Zoned(y) /\ Linked(y) /\ Same(z, y) /\ y.list = z.list /\ y.frames = z.frames
         /\ y.world = z.world /\ y.placing = z.placing
         /\ y.active = [z.active EXCEPT ![m] = Nothing]
  <1> DEFINE a == [z.active EXCEPT ![m] = Nothing]
  <1>1. a \in CreatureMap
    BY DEF Zoned, CreatureMap
  <1>2. y = [z EXCEPT !.active = a]
    BY DEF Forgotten
  <1> HIDE DEF a
  <1>3. /\ Zoned(y) /\ Same(z, y) /\ y.list = z.list /\ y.frames = z.frames
        /\ y.active = a /\ y.world = z.world /\ y.placing = z.placing
    BY <1>1, <1>2, PutActive
  <1>4. Linked(y)
    <2>1. y.master # Nothing => y.active[y.master] = z.active[z.master] /\ y.master = z.master
      BY <1>3 DEF a, Zoned, Same
    <2> QED  BY <1>3, <2>1 DEF Linked, Same
  <1> QED  BY <1>3, <1>4 DEF a

\* It leaves its entry in hand.
LEMMA ForgottenFine ==
  ASSUME NEW z, NEW x, Fine(z, x, {}), NEW m \in Monsters, z.active[m] # Nothing,
         x = m \/ z.world[m] = Nothing, z.master # m, NEW y, y = Forgotten(z, m)
  PROVE  /\ Fine(y, x, {z.active[m]}) /\ z.active[m] \in Entries
         /\ Same(z, y) /\ y.list = z.list /\ y.world = z.world
         /\ y.active = [z.active EXCEPT ![m] = Nothing]
  <1>1. /\ Zoned(y) /\ Linked(y) /\ Same(z, y) /\ y.list = z.list /\ y.frames = z.frames
        /\ y.world = z.world /\ y.placing = z.placing
        /\ y.active = [z.active EXCEPT ![m] = Nothing]
    BY Unlinked DEF Fine, Body
  <1>2. Fine(y, x, {z.active[m]}) /\ z.active[m] \in Entries
    <2>1. y.placing = Nothing
      BY <1>1 DEF Fine, Body
    <2> QED  BY <1>1, <2>1, FineFreed
  <1> QED  BY <1>1, <1>2

\* Creatures that are no longer tracked, or are taken from the world.
LEMMA FineFewer ==
  ASSUME ~Quiet, NEW z, NEW x, NEW H, Fine(z, x, H), NEW y, Zoned(y), Linked(y),
         y.list = z.list, y.frames = z.frames, y.placing = Nothing,
         x \in Monsters => y.world[x] # Nothing,
         \A m \in Monsters : y.active[m] = z.active[m] \/ y.active[m] = Nothing,
         \A m \in Monsters : y.world[m] = z.world[m] \/ y.world[m] = Nothing
  PROVE  Fine(y, x, H)
  <1>1. Kept(y, x, H \cup DOMAIN y.list)
    BY KeptFewer DEF Fine
  <1> QED  BY <1>1 DEF Fine, Body, Listing

\* A zone that hears a trigger, and one whose Run frame goes on afterwards.
Heard(z) == z.on /\ z.run \in {"wait", "fight", "cooldown", "cut"}
Handled(z) == z.on /\ z.run \in {"wait", "fight", "cooldown", "cut", "started", "over"}

\* None of the monsters in W is in the world.
Clear(z, W) == \A m \in W : z.world[m] = Nothing
\* A death may leave a zone paused until the leave that follows.
Rested(z, y, t) ==
    /\ t = "Leave" => Unpaused(y)
    /\ t # "Death" /\ Unpaused(z) => Unpaused(y)

\* What is said of passive fixed zones costs the others nothing.
LEMMA Loud ==
  ASSUME ~Quiet, NEW z, NEW W
  PROVE  Calm(z, W) /\ Unpaused(z)
  BY DEF Calm, Unpaused

\* ProcessCreatures, in a zone that tracks no player when it is a quiet one.
LEMMA ProcessFine ==
  ASSUME NEW z, NEW x, NEW H, Fine(z, x, H), Quiet => z.players = {} /\ ~z.paused,
         NEW W, NEW y \in ProcessCreatures(z)
  PROVE  /\ Good(y, x, H, W) /\ Unpaused(y) /\ Grows(z, y)
         /\ y.on = z.on /\ y.run = z.run /\ y.players = z.players
  <1>1. Fine(y, x, H) /\ y.list = Empty /\ Grows(z, y)
    BY SpawnListedLemma DEF ProcessCreatures, Hows
  <1>2. Same(z, y)
    BY <1>1 DEF Grows
  <1>3. Calm(y, W) /\ Unpaused(y)
    BY <1>1, <1>2 DEF Calm, Unpaused, Same
  <1> QED  BY <1>1, <1>2, <1>3 DEF Good, Same

\* The last player leaves: the pause is over, and the list is spawned.
LEMMA WokenGood ==
  ASSUME NEW z, NEW x, NEW H, Fine(z, x, H), Quiet => z.players = {},
         NEW W, NEW y \in Woken(z)
  PROVE  Good(y, x, H, W) /\ Unpaused(y) /\ y.on = z.on /\ y.run = z.run
  <1> DEFINE v == [z EXCEPT !.paused = FALSE]
  <1>1. Fine(v, x, H) /\ v.players = z.players /\ v.paused = FALSE /\ v.run = z.run /\ v.on = z.on
    BY ZenonT(60), PausedPut
  <1> HIDE DEF v
  <1>2. y \in ProcessCreatures(v)
    BY DEF Woken, v
  <1> QED  BY <1>1, <1>2, ProcessFine

\* A player is no longer tracked.
LEMMA QuitFine ==
  ASSUME NEW z, NEW x, NEW H, Fine(z, x, H), NEW p, NEW y, y = Quit(z, p)
  PROVE  /\ Fine(y, x, H) /\ Aside(z, y)
         /\ y.players = z.players \ {p} /\ y.paused = z.paused /\ y.run = z.run /\ y.on = z.on
  <1>1. z.players \ {p} \in SUBSET Players
    BY DEF Fine, Body, Zoned
  <1> QED  BY <1>1, PlayersPut DEF Quit

\* A player is tracked.
LEMMA JoinFine ==
  ASSUME NEW z, NEW x, NEW H, Fine(z, x, H), NEW p \in Players, NEW y, y = Join(z, p)
  PROVE  /\ Fine(y, x, H) /\ Aside(z, y)
         /\ y.players = z.players \cup {p} /\ y.paused = z.paused /\ y.run = z.run /\ y.on = z.on
  <1>1. z.players \cup {p} \in SUBSET Players
    BY DEF Fine, Body, Zoned
  <1> QED  BY <1>1, PlayersPut DEF Join

\* A player who is left, in a zone with others, changes nothing.
LEMMA QuitGood ==
  ASSUME NEW z, NEW x, NEW W, Good(z, x, {}, W), NEW p, NEW y, y = Quit(z, p),
         Quiet /\ y.players = {} => z.list = Empty
  PROVE  Good(y, x, {}, W)
  <1>1. /\ Fine(y, x, {}) /\ Aside(z, y) /\ y.players = z.players \ {p} /\ y.paused = z.paused
    BY QuitFine DEF Good
  <1>2. y.players # {} => z.players # {}
    BY <1>1
  <1>3. Calm(y, W)
    BY <1>1, <1>2 DEF Good, Calm, Aside
  <1> QED  BY <1>1, <1>3 DEF Good

\* onTrigger of a fixed zone, for a player: an enter pauses a passive zone and a
\* leave wakes it.
LEMMA FixedPlayer ==
  ASSUME Is("monster", "fixed"), NEW z, NEW x, NEW W, Good(z, x, {}, W), NEW p \in Players,
         NEW t, t = "Enter" => Clear(z, W), NEW y \in FixedOnPlayer(z, p, t)
  PROVE  Good(y, x, {}, W) /\ Rested(z, y, t) /\ y.on = z.on /\ y.run = z.run
  <1> DEFINE gone == Quit(z, p)
             came == Join(z, p)
             held == [came EXCEPT !.paused = came.paused \/ ~cfg.forced]
  <1>1. /\ Fine(gone, x, {}) /\ gone.players = z.players \ {p} /\ gone.paused = z.paused
        /\ gone.run = z.run /\ gone.on = z.on /\ gone.list = z.list
    BY QuitFine DEF Good, Aside
  <1>2. /\ Fine(came, x, {}) /\ came.players = z.players \cup {p} /\ came.paused = z.paused
        /\ came.run = z.run /\ came.on = z.on /\ Aside(z, came)
    BY JoinFine DEF Good
  <1>3. CASE y = came /\ ~cfg.passive
    <2>1. ~Quiet
      BY <1>3 DEF Quiet
    <2> QED  BY <1>2, <1>3, <2>1, Loud DEF Good, Rested
  <1>4. CASE y = held /\ cfg.passive /\ t = "Enter"
    <2>1. /\ Fine(held, x, {}) /\ Aside(came, held) /\ held.players = came.players
          /\ held.paused = (came.paused \/ ~cfg.forced) /\ held.run = came.run /\ held.on = came.on
      <3> DEFINE q == (came.paused \/ ~cfg.forced)
      <3>1. q \in BOOLEAN /\ held = [came EXCEPT !.paused = q]
        OBVIOUS
      <3> HIDE DEF q, held, came
      <3>2. /\ Fine(held, x, {}) /\ Aside(came, held) /\ held.players = came.players
            /\ held.paused = q /\ held.run = came.run /\ held.on = came.on
        BY <1>2, <3>1, PausedPut
      <3> QED  BY <3>2 DEF q
    <2>2. held.players # {} /\ held.world = z.world
      BY <1>2, <2>1 DEF Aside
    <2>3. Calm(held, W) /\ Unpaused(held)
      BY <1>4, <2>1, <2>2 DEF Calm, Unpaused, Clear
    <2> QED  BY <1>2, <1>4, <2>1, <2>3 DEF Good, Rested
  <1>5. CASE ~cfg.passive /\ y \in ProcessCreatures(came)
    <2>1. ~Quiet
      BY <1>5 DEF Quiet
    <2>2. Fine(y, x, {}) /\ y.on = came.on /\ y.run = came.run
      BY <1>2, <1>5, <2>1, ProcessFine DEF Good
    <2> QED  BY <1>2, <2>1, <2>2, Loud DEF Good, Rested
  <1>6. CASE gone.players = {} /\ y \in Woken(gone)
    BY <1>1, <1>6, WokenGood DEF Rested
  <1>7. CASE /\ y = gone /\ Quiet /\ t \in {"Leave", "Death"}
             /\ gone.players = {} => t = "Death" /\ z.list = Empty
    <2>1. Good(gone, x, {}, W)
      BY <1>7, QuitGood
    <2>2. Rested(z, gone, t)
      BY <1>7 DEF Rested, Unpaused
    <2> QED  BY <1>1, <1>7, <2>1, <2>2
  <1>8. CASE y = gone /\ ~Quiet
    BY <1>1, <1>8, Loud DEF Good, Rested
  <1>9. CASE ~cfg.passive /\ y = [gone EXCEPT !.paused = gone.paused \/ gone.players = {}]
    <2>1. ~Quiet
      BY <1>9 DEF Quiet
    <2>2. Fine(y, x, {}) /\ y.on = gone.on /\ y.run = gone.run
      <3> DEFINE q == (gone.paused \/ gone.players = {})
      <3>1. q \in BOOLEAN /\ y = [gone EXCEPT !.paused = q]
        BY <1>9
      <3> HIDE DEF q, gone
      <3> QED  BY <1>1, <3>1, PausedPut
    <2> QED  BY <1>1, <2>1, <2>2, Loud DEF Good, Rested
  <1>10. CASE y = z /\ t # "Leave"
    BY <1>10 DEF Rested
  <1> HIDE DEF held
  <1>11. CASE t = "Enter"
    BY <1>3, <1>4, <1>5, <1>11 DEF FixedOnPlayer, held
  <1> HIDE DEF gone, came
  <1>12. CASE t = "Leave"
    <2>1. y \in FixedLeave(gone)
      BY <1>12 DEF FixedOnPlayer, gone
    <2>2. CASE cfg.passive
      <3>1. CASE gone.players = {}
        BY <1>6, <2>1, <2>2, <3>1 DEF FixedLeave
      <3>2. CASE gone.players # {}
        <4>1. y = gone /\ Quiet
          BY <2>1, <2>2, <3>2 DEF FixedLeave, Quiet
        <4> QED  BY <1>7, <1>12, <3>2, <4>1
      <3> QED  BY <3>1, <3>2
    <2>3. CASE ~cfg.passive
      BY <1>9, <2>1, <2>3 DEF FixedLeave
    <2> QED  BY <2>2, <2>3
  <1>13. CASE t = "Death"
    <2>1. y \in IF cfg.passive /\ gone.players = {} /\ z.list # Empty THEN Woken(gone) ELSE {gone}
      BY <1>13 DEF FixedOnPlayer, gone
    <2>2. CASE Quiet
      BY <1>6, <1>7, <1>13, <2>1, <2>2 DEF Quiet
    <2>3. CASE ~Quiet
      BY <1>8, <2>1, <2>3 DEF Quiet
    <2> QED  BY <2>2, <2>3
  <1>14. CASE t \notin {"Enter", "Leave", "Death"}
    BY <1>10, <1>14 DEF FixedOnPlayer
  <1> QED  BY <1>11, <1>12, <1>13, <1>14

\* onTrigger of a relative zone, for a player.
LEMMA RelativePlayer ==
  ASSUME ~Quiet, NEW z, NEW x, Fine(z, x, {}), NEW p \in Players,
         NEW t, NEW y \in RelativeOnPlayer(z, p, t)
  PROVE  Fine(y, x, {}) /\ y.on = z.on /\ y.run = z.run
  <1> DEFINE gone == Quit(z, p)
             came == Join(z, p)
             q == gone.paused \/ gone.players = {}
  <1>1. Fine(gone, x, {}) /\ gone.run = z.run /\ gone.on = z.on
    BY QuitFine
  <1>2. Fine(came, x, {}) /\ came.run = z.run /\ came.on = z.on
    BY JoinFine
  <1>3. CASE t = "Enter"
    <2>1. y \in ProcessCreatures(came) \/ y = came
      BY <1>3 DEF RelativeOnPlayer
    <2> HIDE DEF came
    <2>2. CASE y \in ProcessCreatures(came)
      BY <1>2, <2>2, ProcessFine DEF Good
    <2> QED  BY <1>2, <2>1, <2>2
  <1>4. CASE t \in {"Leave", "Death"}
    <2>1. q \in BOOLEAN /\ y = [gone EXCEPT !.paused = q]
      BY <1>4 DEF RelativeOnPlayer
    <2> HIDE DEF q, gone
    <2> QED  BY <1>1, <2>1, PausedPut
  <1>5. CASE t \notin {"Enter", "Leave", "Death"}
    BY <1>5 DEF RelativeOnPlayer
  <1> QED  BY <1>3, <1>4, <1>5

(***************************************************************************)
(* Staged zones.                                                           *)
(***************************************************************************)
LEMMA WaveOpen ==
  ASSUME cfg \in Configs, cfg.policy = "staged", NEW n \in 1 .. MaxWave
  PROVE  Wave(n) \in SUBSET Entries /\ \A e \in Wave(n) : ~Guarded(e)
  <1>1. ConfigOK(cfg)
    BY ZonesAssumption
  <1>2. \A e \in Wave(n) : cfg.role[e] = "plain"
    BY <1>1 DEF ConfigOK, Wave
  <1> QED  BY <1>2 DEF Guarded, Wave

\* A wave is put in the list and spawned: its entries are exempt.
LEMMA WavePlaced ==
  ASSUME cfg \in Configs, Is("monster", "staged"), NEW z, NEW x, Fine(z, x, {}),
         NEW y \in ProcessCreatures([z EXCEPT !.list = BagOf(Wave(z.wave))])
  PROVE  Fine(y, x, {}) /\ y.on = z.on /\ y.run = z.run
  <1> DEFINE b == BagOf(Wave(z.wave))
             v == [z EXCEPT !.list = b]
  <1>1. z.wave \in 1 .. MaxWave
    BY DEF Fine, Body, Zoned
  <1>2. Wave(z.wave) \in SUBSET Entries /\ \A e \in Wave(z.wave) : ~Guarded(e)
    BY <1>1, WaveOpen DEF Is
  <1>3. IsBag(b, Entries) /\ DOMAIN b = Wave(z.wave)
    BY <1>2, BagOfBag, BagOfDomain
  <1>4. ~Quiet
    BY DEF Quiet, Is
  <1>5. y \in ProcessCreatures(v)
    OBVIOUS
  <1> HIDE DEF b
  <1>6. Fine(v, x, {}) /\ v.run = z.run /\ v.on = z.on
    BY <1>2, <1>3, <1>4, ListPut
  <1> HIDE DEF v
  <1> QED  BY <1>4, <1>5, <1>6, ProcessFine DEF Good

\* A staged zone starts over, and forgets its creatures.
LEMMA RewoundFine ==
  ASSUME cfg.kind # "boss", ~Quiet, NEW z, NEW x, Fine(z, x, {}), NEW y, y = Rewound(z)
  PROVE  Fine(y, x, {}) /\ y.run = z.run /\ y.on = z.on
  <1>1. Zoned(z) /\ z.placing = Nothing /\ Linked(z)
    BY DEF Fine, Body
  <1>2. /\ Zoned(y) /\ y.list = z.list /\ y.frames = z.frames /\ y.world = z.world
        /\ y.active = NoneActive /\ y.placing = z.placing
        /\ y.run = z.run /\ y.on = z.on /\ y.master = z.master /\ y.timers = z.timers
    <2> DEFINE v == [z EXCEPT !.active = NoneActive]
    <2>1. NoneActive \in CreatureMap
      BY DEF NoneActive, CreatureMap
    <2>2. /\ Zoned(v) /\ Same(z, v) /\ v.list = z.list /\ v.frames = z.frames
          /\ v.active = NoneActive /\ v.world = z.world /\ v.placing = z.placing
      BY <1>1, <2>1, PutActive
    <2>3. y = [v EXCEPT !.wave = 1]
      BY <1>1 DEF Rewound, Zoned
    <2> HIDE DEF v
    <2>4. 1 \in 1 .. MaxWave
      BY ZonesAssumption
    <2>5. /\ Zoned(y) /\ Aside(v, y) /\ y.master = v.master /\ y.run = v.run
          /\ y.timers = v.timers /\ y.on = v.on
      BY <2>2, <2>3, <2>4 DEF Zoned, Aside
    <2> QED  BY <2>2, <2>5 DEF Same, Aside
  <1>3. Linked(y)
    BY <1>1, <1>2 DEF Linked
  <1>4. \A m \in Monsters : y.active[m] = Nothing
    BY <1>2 DEF NoneActive
  <1>5. x \in Monsters => y.world[x] # Nothing
    BY <1>2 DEF Fine, Body
  <1> QED  BY <1>1, <1>2, <1>3, <1>4, <1>5, FineFewer

\* onTrigger of a staged zone, for a player.
LEMMA StagedPlayer ==
  ASSUME cfg \in Configs, Is("monster", "staged"), NEW z, NEW x, Fine(z, x, {}),
         NEW p \in Players, NEW t, NEW y \in StagedOnPlayer(z, p, t)
  PROVE  Fine(y, x, {}) /\ y.on = z.on /\ y.run = z.run
  <1> DEFINE gone == Quit(z, p)
             came == Join(z, p)
             back == IF cfg.again = "rebootable" THEN Rewound(came) ELSE came
  <1>0. ~Quiet /\ cfg.kind # "boss"
    BY DEF Quiet, Is
  <1>1. Fine(gone, x, {}) /\ gone.run = z.run /\ gone.on = z.on
    BY QuitFine
  <1>2. Fine(came, x, {}) /\ came.run = z.run /\ came.on = z.on
    BY JoinFine
  <1> HIDE DEF gone, came
  <1>3. Fine(back, x, {}) /\ back.run = z.run /\ back.on = z.on
    BY <1>0, <1>2, RewoundFine
  <1>4. CASE t = "Enter"
    <2>1. y \in StagedEnter(came) \/ y = came
      BY <1>4 DEF StagedOnPlayer, came
    <2>2. CASE y \in StagedEnter(came)
      <3>1. \/ y \in ProcessCreatures([back EXCEPT !.list = BagOf(Wave(back.wave))])
            \/ y \in ProcessCreatures(back)
            \/ y = back
        BY <2>2 DEF StagedEnter
      <3> HIDE DEF back
      <3>2. CASE y \in ProcessCreatures([back EXCEPT !.list = BagOf(Wave(back.wave))])
        BY <1>3, <3>2, WavePlaced
      <3>3. CASE y \in ProcessCreatures(back)
        BY <1>0, <1>3, <3>3, ProcessFine DEF Good
      <3> QED  BY <1>3, <3>1, <3>2, <3>3
    <2> QED  BY <1>2, <2>1, <2>2
  <1>5. CASE t \in {"Leave", "Death"}
    <2>1. \/ y = gone
          \/ y = [gone EXCEPT !.paused = TRUE]
          \/ y = [Rewound(gone) EXCEPT !.list = Empty]
      BY <1>5 DEF StagedOnPlayer, gone
    <2>2. CASE y = [gone EXCEPT !.paused = TRUE]
      <3> DEFINE v == [gone EXCEPT !.paused = TRUE]
      <3>1. Fine(v, x, {}) /\ v.run = gone.run /\ v.on = gone.on
        BY ZenonT(60), <1>1, PausedPut
      <3> QED  BY <1>1, <2>2, <3>1
    <2>3. CASE y = [Rewound(gone) EXCEPT !.list = Empty]
      <3> DEFINE v == Rewound(gone)
      <3>1. Fine(v, x, {}) /\ v.run = z.run /\ v.on = z.on
        BY <1>0, <1>1, RewoundFine
      <3> HIDE DEF v
      <3>2. y = [v EXCEPT !.list = Empty]
        BY <2>3 DEF v
      <3>3. IsBag(Empty, Entries) /\ \A e \in DOMAIN Empty : ~Guarded(e)
        BY EmptyIsBag
      <3> QED  BY <1>0, <3>1, <3>2, <3>3, ListPut
    <2> QED  BY <1>1, <2>1, <2>2, <2>3
  <1>6. CASE t \notin {"Enter", "Leave", "Death"}
    BY <1>6 DEF StagedOnPlayer
  <1> QED  BY <1>4, <1>5, <1>6

\* onTrigger of an NPC zone, for a player.
LEMMA NpcPlayer ==
  ASSUME ~Quiet, NEW z, NEW x, Fine(z, x, {}), NEW p \in Players,
         NEW t, NEW y \in NpcOnPlayer(z, p, t)
  PROVE  Fine(y, x, {}) /\ y.on = z.on /\ y.run = z.run
  <1> DEFINE gone == Quit(z, p)
             came == Join(z, p)
  <1>1. Fine(gone, x, {}) /\ gone.run = z.run /\ gone.on = z.on
    BY QuitFine
  <1>2. Fine(came, x, {}) /\ came.run = z.run /\ came.on = z.on
    BY JoinFine
  <1>3. y \in {z, gone, came} \/ y \in ProcessCreatures(came)
    BY DEF NpcOnPlayer
  <1> HIDE DEF gone, came
  <1>4. CASE y \in ProcessCreatures(came)
    BY <1>2, <1>4, ProcessFine DEF Good
  <1> QED  BY <1>1, <1>2, <1>3, <1>4

\* onTrigger of a boss zone, for a player.
LEMMA BossPlayer ==
  ASSUME cfg.kind = "boss", NEW z, NEW x, Fine(z, x, {}), Heard(z), NEW p \in Players,
         NEW t, NEW y \in BossOnPlayer(z, p, t)
  PROVE  Fine(y, x, {}) /\ Handled(y)
  <1> DEFINE seen == CASE t = "Enter" -> Join(z, p)
                       [] t \in {"Leave", "Death"} -> Quit(z, p)
                       [] OTHER -> z
  <1>1. Fine(seen, x, {}) /\ seen.on = z.on /\ seen.run = z.run
    <2>1. CASE t = "Enter"
      BY <2>1, JoinFine
    <2>2. CASE t \in {"Leave", "Death"}
      BY <2>2, QuitFine
    <2>3. CASE t \notin {"Enter", "Leave", "Death"}
      BY <2>3
    <2> QED  BY <2>1, <2>2, <2>3
  <1>2. y = seen \/ y = [seen EXCEPT !.run = "started"]
    BY DEF BossOnPlayer
  <1> HIDE DEF seen
  <1>3. CASE y = [seen EXCEPT !.run = "started"]
    <2>1. "started" \in Runs
      BY DEF Runs
    <2>2. Fine(y, x, {}) /\ y.run = "started" /\ y.on = seen.on
      BY <1>1, <1>3, <2>1, RunPut
    <2> QED  BY <1>1, <2>2 DEF Heard, Handled
  <1> QED  BY <1>1, <1>2, <1>3 DEF Heard, Handled

\* The configured trigger spawns the list.
LEMMA ConfiguredFine ==
  ASSUME ~Quiet, NEW z, NEW x, NEW H, Fine(z, x, H), NEW t, NEW y \in Configured(z, t)
  PROVE  Fine(y, x, H) /\ y.on = z.on /\ y.run = z.run /\ Grows(z, y)
  <1>1. CASE y \in ProcessCreatures(z)
    BY <1>1, ProcessFine DEF Good
  <1>2. CASE y = z
    BY <1>2 DEF Grows, Aware, Same
  <1> QED  BY <1>1, <1>2 DEF Configured

\* onTrigger for a player, whatever the kind of the zone.
LEMMA OnPlayerGood ==
  ASSUME cfg \in Configs, NEW z, NEW x, NEW W, Good(z, x, {}, W), Heard(z), NEW p \in Players,
         NEW t, t = "Enter" => Clear(z, W), NEW y \in OnPlayer(z, p, t)
  PROVE  Good(y, x, {}, W) /\ Rested(z, y, t) /\ Handled(y)
  <1>1. ConfigOK(cfg) /\ Fine(z, x, {})
    BY ZonesAssumption DEF Good
  <1>2. ASSUME Fine(y, x, {}), ~Quiet PROVE Good(y, x, {}, W) /\ Rested(z, y, t)
    BY <1>2, Loud DEF Good, Rested
  <1>3. ASSUME y.on = z.on, y.run = z.run PROVE Handled(y)
    BY <1>3 DEF Heard, Handled
  <1>4. CASE Is("monster", "fixed")
    <2>1. y \in FixedOnPlayer(z, p, t)
      BY <1>4 DEF OnPlayer, Is
    <2> QED  BY <1>3, <1>4, <2>1, FixedPlayer
  <1>5. CASE ~Is("monster", "fixed")
    <2>0. ~Quiet
      BY <1>5 DEF Quiet
    <2>1. CASE cfg.kind = "boss"
      <3>1. y \in BossOnPlayer(z, p, t)
        BY <2>1 DEF OnPlayer, Is
      <3> QED  BY <1>1, <1>2, <2>0, <2>1, <3>1, BossPlayer
    <2>2. CASE cfg.kind = "npc"
      <3>1. y \in NpcOnPlayer(z, p, t)
        BY <2>2 DEF OnPlayer, Is
      <3> QED  BY <1>1, <1>2, <1>3, <2>0, <3>1, NpcPlayer
    <2>3. CASE Is("monster", "relative")
      <3>1. y \in RelativeOnPlayer(z, p, t)
        BY <2>3 DEF OnPlayer, Is
      <3> QED  BY <1>1, <1>2, <1>3, <2>0, <3>1, RelativePlayer
    <2>4. CASE Is("monster", "staged")
      <3>1. y \in StagedOnPlayer(z, p, t)
        BY <2>4 DEF OnPlayer, Is
      <3> QED  BY <1>1, <1>2, <1>3, <2>0, <2>4, <3>1, StagedPlayer
    <2>5. CASE Is("monster", "triggered")
      <3>1. y \in Configured(z, t)
        BY <2>5 DEF OnPlayer, Is
      <3> QED  BY <1>1, <1>2, <1>3, <2>0, <3>1, ConfiguredFine
    <2> QED  BY <1>1, <1>5, <2>1, <2>2, <2>3, <2>4, <2>5 DEF ConfigOK, Is
  <1> QED  BY <1>4, <1>5

\* The table names at most one master.
LEMMA OneMasterEntry ==
  ASSUME cfg \in Configs, NEW d \in Entries, NEW e \in Entries,
         cfg.role[d] = "master", cfg.role[e] = "master"
  PROVE  d = e
  <1> DEFINE M == {a \in Entries : cfg.role[a] = "master"}
  <1>1. IsFiniteSet(M)
    BY ZonesAssumption, FS_Subset
  <1>2. Cardinality(M) <= 1
    BY ZonesAssumption DEF ConfigOK
  <1>3. M # {}
    OBVIOUS
  <1>4. d \in M /\ e \in M
    OBVIOUS
  <1> HIDE DEF M
  <1>5. Cardinality(M) \in Nat /\ Cardinality(M) # 0
    BY <1>1, <1>3, FS_CardinalityType, FS_EmptySet
  <1>6. \E a : M = {a}
    <2>1. Cardinality(M) = 1
      BY <1>2, <1>5
    <2> QED  BY <1>1, <2>1, FS_Singleton
  <1> QED  BY <1>4, <1>6

\* What the loss of a creature does, but for the boss zones.
LEMMA FixedMonster ==
  ASSUME Is("monster", "fixed"), NEW z, NEW x, NEW W, Good(z, x, {}, W), NEW m \in Monsters,
         x = m \/ z.world[m] = Nothing, NEW t, NEW y \in FixedOnMonster(z, m, t)
  PROVE  Good(y, x, {}, W) /\ (Unpaused(z) => Unpaused(y)) /\ y.on = z.on /\ y.run = z.run
  <1> DEFINE free == Forgotten(z, m)
             e == z.active[m]
  <1>0. Fine(z, x, {})
    BY DEF Good
  <1>1. CASE y = z
    BY <1>1
  <1>2. CASE z.active[m] # Nothing
    <2>1. z.master # m
      BY ZonesAssumption DEF Fine, Good, Body, Linked, Is
    <2>2. Fine(free, x, {e})
      BY <1>0, <1>2, <2>1, ForgottenFine
    <2>3. e \in Entries /\ Same(z, free) /\ free.list = z.list /\ free.world = z.world
      <3>1. e \in Entries
        BY <1>0, <1>2, <2>1, ForgottenFine
      <3>2. Same(z, free)
        BY <1>0, <1>2, <2>1, ForgottenFine
      <3>3. free.list = z.list /\ free.world = z.world
        BY <1>0 DEF Forgotten, Fine, Body, Zoned
      <3> QED  BY <3>1, <3>2, <3>3
    <2>4. /\ y \in DelaySpawn(free, e) \/ y = z
             \/ (y = Listed(free, e) /\ cfg.passive # (z.players = {}))
      BY DEF FixedOnMonster
    <2> HIDE DEF free, e
    <2>5. ASSUME Fine(y, x, {e} \ {e}), Grows(free, y), y.world = free.world,
                 Quiet /\ y.players = {} => y.list = free.list
          PROVE  Good(y, x, {}, W) /\ (Unpaused(z) => Unpaused(y)) /\ y.on = z.on /\ y.run = z.run
      <3>1. y.players = z.players /\ y.paused = z.paused /\ y.on = z.on /\ y.run = z.run
        BY <2>3, <2>5 DEF Grows, Same
      <3>2. Calm(y, W)
        BY <2>3, <2>5, <3>1 DEF Calm, Good
      <3>3. Unpaused(z) => Unpaused(y)
        BY <3>1 DEF Unpaused
      <3>4. {e} \ {e} = {}
        OBVIOUS
      <3>5. Fine(y, x, {})
        BY <2>5, <3>4
      <3> QED  BY <3>1, <3>2, <3>3, <3>5 DEF Good
    <2>6. CASE y \in DelaySpawn(free, e)
      <3>1. Fine(y, x, {e} \ {e}) /\ Grows(free, y) /\ y.list = free.list /\ y.world = free.world
        BY <2>2, <2>3, <2>6, FineDelay
      <3> QED  BY <2>5, <3>1
    <2>7. CASE y = Listed(free, e) /\ cfg.passive # (z.players = {})
      <3>1. Fine(y, x, {e} \ {e}) /\ Grows(free, y) /\ y.world = free.world
        BY <2>2, <2>3, <2>7, FineListed
      <3>2. Quiet => y.players # {}
        BY <2>3, <2>7, <3>1 DEF Quiet, Grows, Same
      <3> QED  BY <2>5, <3>1, <3>2
    <2> QED  BY <1>1, <2>4, <2>6, <2>7
  <1>3. CASE z.active[m] = Nothing
    BY <1>1, <1>3 DEF FixedOnMonster, Tracked
  <1> QED  BY <1>2, <1>3

\* onTrigger of a relative zone, for a monster that dies or is gone.
LEMMA RelativeMonster ==
  ASSUME cfg.kind # "boss", ~Quiet, NEW z, NEW x, Fine(z, x, {}), NEW m \in Monsters,
         x = m \/ z.world[m] = Nothing, NEW t, NEW y \in RelativeOnMonster(z, m, t)
  PROVE  Fine(y, x, {}) /\ y.on = z.on /\ y.run = z.run
  <1> DEFINE free == Forgotten(z, m)
             e == z.active[m]
             f == Frame(e, FALSE)
  <1>1. CASE y = z
    BY <1>1
  <1>2. CASE z.active[m] # Nothing
    <2>1. z.master # m
      BY ZonesAssumption DEF Fine, Body, Linked
    <2>2. Fine(free, x, {e})
      BY <1>2, <2>1, ForgottenFine
    <2>3. e \in Entries /\ Same(z, free)
      BY <1>2, <2>1, ForgottenFine
    <2>4. y \in Spawned(free, f) \/ y = z \/ y = Listed(free, e)
      BY DEF RelativeOnMonster
    <2> HIDE DEF free, e
    <2>5. f \in Frames /\ SleeperOK(f) /\ f.entry = e
      BY <2>3, ZonesAssumption DEF Frame, Frames, SleeperOK
    <2> HIDE DEF f
    <2>6. {e} \ {e} = {}
      OBVIOUS
    <2>7. CASE y \in Spawned(free, f)
      <3>1. Fine(y, x, {e} \ {e}) /\ Grows(free, y)
        BY <2>2, <2>5, <2>7, FineSpawned
      <3> QED  BY <2>3, <2>6, <3>1 DEF Grows, Same
    <2>8. CASE y = Listed(free, e)
      <3>1. Fine(y, x, {e} \ {e}) /\ Grows(free, y)
        BY <2>2, <2>3, <2>8, FineListed
      <3> QED  BY <2>3, <2>6, <3>1 DEF Grows, Same
    <2> QED  BY <1>1, <2>4, <2>7, <2>8
  <1>3. CASE z.active[m] = Nothing
    BY <1>1, <1>3 DEF RelativeOnMonster, Tracked
  <1> QED  BY <1>2, <1>3

\* onTrigger of a staged zone, for a monster that dies or is gone.
LEMMA StagedMonster ==
  ASSUME cfg \in Configs, Is("monster", "staged"), NEW z, NEW x, Fine(z, x, {}),
         NEW m \in Monsters, x = m \/ z.world[m] = Nothing,
         NEW t, NEW y \in StagedOnMonster(z, m, t)
  PROVE  Fine(y, x, {}) /\ y.on = z.on /\ y.run = z.run
  <1> DEFINE free == Forgotten(z, m)
             next == NextWave(free)
             e == z.active[m]
  <1>0. ~Quiet
    BY DEF Quiet, Is
  <1>1. CASE y = z
    BY <1>1
  <1>2. CASE z.active[m] # Nothing
    <2>1. z.master # m
      BY ZonesAssumption DEF Fine, Body, Linked, Is
    <2>2. Fine(free, x, {e})
      BY <1>2, <2>1, ForgottenFine
    <2>3. Same(z, free)
      BY <1>2, <2>1, ForgottenFine
    <2>4. \/ y \in {z, free, next}
          \/ y \in ProcessCreatures([next EXCEPT !.list = BagOf(Wave(next.wave))])
      BY DEF StagedOnMonster
    <2> HIDE DEF free
    <2>5. Fine(free, x, {})
      BY <1>0, <2>2, FineDrop
    <2>6. Fine(next, x, {}) /\ next.run = free.run /\ next.on = free.on
      BY <2>5, NextWaveFine
    <2> HIDE DEF next
    <2>7. CASE y \in ProcessCreatures([next EXCEPT !.list = BagOf(Wave(next.wave))])
      <3>1. Fine(y, x, {}) /\ y.on = next.on /\ y.run = next.run
        BY <2>6, <2>7, WavePlaced
      <3> QED  BY <2>3, <2>6, <3>1 DEF Same
    <2> QED  BY <2>3, <2>4, <2>5, <2>6, <2>7 DEF Same
  <1>3. CASE z.active[m] = Nothing
    BY <1>1, <1>3 DEF StagedOnMonster, Tracked
  <1> QED  BY <1>2, <1>3

\* The entry of a creature that is gone waits for its delay.
LEMMA DelayedAgain ==
  ASSUME cfg.kind # "boss", NEW z, NEW x, Fine(z, x, {}), NEW m \in Monsters,
         z.active[m] # Nothing, x = m \/ z.world[m] = Nothing,
         NEW y \in DelaySpawn(Forgotten(z, m), z.active[m])
  PROVE  Fine(y, x, {}) /\ y.on = z.on /\ y.run = z.run
  <1> DEFINE free == Forgotten(z, m)
             e == z.active[m]
  <1>1. z.master # m
    BY ZonesAssumption DEF Fine, Body, Linked
  <1>2. Fine(free, x, {e})
    BY <1>1, ForgottenFine
  <1>3. e \in Entries /\ Same(z, free)
    BY <1>1, ForgottenFine
  <1>4. {e} \ {e} = {}
    OBVIOUS
  <1> HIDE DEF free, e
  <1>5. y \in DelaySpawn(free, e)
    BY DEF free, e
  <1>6. Fine(y, x, {e} \ {e}) /\ Grows(free, y)
    BY <1>2, <1>3, <1>5, FineDelay
  <1> QED  BY <1>3, <1>4, <1>6 DEF Grows, Same

\* onTrigger of a triggered zone, for a monster that dies or is gone.
LEMMA TriggeredMonster ==
  ASSUME cfg.kind # "boss", NEW z, NEW x, Fine(z, x, {}), NEW m \in Monsters,
         x = m \/ z.world[m] = Nothing, NEW t, NEW y \in TriggeredOnMonster(z, m, t)
  PROVE  Fine(y, x, {}) /\ y.on = z.on /\ y.run = z.run
  BY DelayedAgain DEF TriggeredOnMonster, Tracked

\* onTrigger of an NPC zone, for an NPC that dies or is gone.
LEMMA NpcMonster ==
  ASSUME cfg.kind = "npc", ~Quiet, NEW z, NEW x, Fine(z, x, {}), NEW m \in Monsters,
         x = m \/ z.world[m] = Nothing, NEW t, NEW y \in NpcOnDeath(z, m, t)
  PROVE  Fine(y, x, {}) /\ y.on = z.on /\ y.run = z.run
  <1>1. CASE y = z
    BY <1>1
  <1>2. CASE m \in Tracked(z) /\ y \in DelaySpawn(Forgotten(z, m), z.active[m])
    BY <1>2, DelayedAgain DEF Tracked
  <1>3. CASE m \in Tracked(z) /\ y = Forgotten(z, m)
    <2>1. z.master # m
      BY ZonesAssumption DEF Fine, Body, Linked
    <2>2. Fine(y, x, {z.active[m]}) /\ Same(z, y)
      BY <1>3, <2>1, ForgottenFine DEF Tracked
    <2> QED  BY <2>2, FineDrop DEF Same
  <1> QED  BY <1>1, <1>2, <1>3 DEF NpcOnDeath

\* The fight is over.
LEMMA OverFine ==
  ASSUME cfg.kind = "boss", NEW z, NEW x, Fine(z, x, {}), Heard(z), NEW y, y = Over(z)
  PROVE  Fine(y, x, {}) /\ Handled(y)
  <1>1. CASE z.run = "fight"
    <2>1. y = [z EXCEPT !.run = "over"] /\ "over" \in Runs
      BY <1>1 DEF Over, Runs
    <2>2. Fine(y, x, {}) /\ y.run = "over" /\ y.on = z.on
      BY <2>1, RunPut
    <2> QED  BY <2>2 DEF Heard, Handled
  <1>2. CASE z.run = "cut"
    <2>1. y = [z EXCEPT !.run = "cooldown"] /\ "cooldown" \in Runs
      BY <1>2 DEF Over, Runs, RestingRuns
    <2>2. Fine(y, x, {}) /\ y.run = "cooldown" /\ y.on = z.on
      BY <2>1, RunPut
    <2> QED  BY <2>2 DEF Heard, Handled
  <1>3. CASE z.run \notin {"fight", "cut"}
    <2>1. Zoned(z) /\ Zoned(y) /\ Aside(z, y) /\ y.master = z.master /\ y.run = z.run /\ y.on = z.on
      BY <1>3 DEF Over, Aside, Fine, Body, Zoned
    <2> QED  BY <2>1, FineAside DEF Heard, Handled
  <1> QED  BY <1>1, <1>2, <1>3

(***************************************************************************)
(* The death of a master.                                                  *)
(***************************************************************************)
\* The tracked creatures, one of each entry, go back to the list.
LEMMA TrackedBagLemma ==
  ASSUME cfg.policy # "staged", NEW z, NEW x, NEW S, Zoned(z), Kept(z, x, S)
  PROVE  /\ IsBag(TrackedBag(z), Entries)
         /\ DOMAIN TrackedBag(z) = {z.active[m] : m \in Tracked(z)}
         /\ \A e \in DOMAIN TrackedBag(z) : TrackedBag(z)[e] = 1
  <1> DEFINE T == {z.active[m] : m \in Tracked(z)}
             Mine(e) == {m \in Tracked(z) : z.active[m] = e}
  <1>1. T \in SUBSET Entries
    BY DEF Zoned, Tracked
  <1>2. ASSUME NEW e \in T PROVE Cardinality(Mine(e)) = 1
    <2>1. PICK m \in Tracked(z) : z.active[m] = e
      BY <1>2
    <2>2. m \in Monsters /\ Held(z, x, e, m)
      BY <2>1 DEF Tracked, Held
    <2>3. Single(z, x, e)
      BY <1>1, <2>2 DEF Kept, Guarded, Nowhere
    <2>4. ASSUME NEW n \in Mine(e) PROVE n = m
      <3>1. n \in Monsters /\ Held(z, x, e, n)
        BY DEF Tracked, Held
      <3> QED  BY <2>2, <2>3, <3>1 DEF Single
    <2>5. Mine(e) = {m}
      BY <2>1, <2>4
    <2> QED  BY <2>5, FS_Singleton
  <1>3. TrackedBag(z) = [e \in T |-> Cardinality(Mine(e))]
    BY DEF TrackedBag
  <1> HIDE DEF T, Mine
  <1>4. DOMAIN TrackedBag(z) = T
    BY <1>3
  <1>5. \A e \in T : TrackedBag(z)[e] = 1
    BY <1>2, <1>3
  <1>6. IsBag(TrackedBag(z), Entries)
    BY <1>1, <1>2, <1>3 DEF IsBag
  <1> QED  BY <1>4, <1>5, <1>6 DEF T

\* Here v is the zone that has forgotten its master, x, for entry e.
LEMMA BackToList ==
  ASSUME cfg \in Configs, cfg.kind = "boss", cfg.policy # "staged",
         NEW v, NEW x, NEW e \in Entries, cfg.role[e] = "master", Fine(v, x, {e}),
         NEW u, Zoned(u), Linked(u), u.placing = Nothing, u.frames = v.frames,
         u.list = Merged(v.list, TrackedBag(v)), u.active = NoneActive,
         \A m \in Monsters : u.world[m] = v.world[m] \/ u.world[m] = Nothing,
         x \in Monsters => u.world[x] # Nothing
  PROVE  Fine(u, x, {e})
  <1> DEFINE S == {e} \cup DOMAIN v.list
             T == {v.active[m] : m \in Tracked(v)}
             b == TrackedBag(v)
  <1>0. Zoned(v) /\ Kept(v, x, S)
    BY DEF Fine, Body
  <1>1. IsBag(b, Entries)
    BY <1>0, TrackedBagLemma
  <1>2. DOMAIN b = T
    BY <1>0, TrackedBagLemma
  <1>3. \A d \in T : b[d] = 1
    BY <1>0, <1>2, TrackedBagLemma
  <1> HIDE DEF b
  <1>4. ~Quiet
    BY DEF Quiet, Is
  <1>5. \A d : Guarded(d)
    BY DEF Guarded
  <1>6. ASSUME NEW d \in T
        PROVE  d \in Entries /\ d \notin S /\ \E n \in Monsters : Held(v, x, d, n) /\ v.active[n] = d
    <2>1. PICK n \in Tracked(v) : d = v.active[n]
      BY <1>6
    <2>2. n \in Monsters /\ Held(v, x, d, n) /\ d \in Entries
      BY <1>0, <2>1 DEF Tracked, Held, Zoned
    <2>3. d \notin S
      BY <1>0, <1>5, <2>2 DEF Kept, Nowhere
    <2> QED  BY <2>1, <2>2, <2>3
  <1>7. DOMAIN u.list = DOMAIN v.list \cup T
    BY <1>2, MergedDomain DEF b
  <1>8. ASSUME NEW d \in Entries, NEW n \in Monsters, Held(u, x, d, n) PROVE Held(v, x, d, n) /\ cfg.role[d] = "master"
    <2>1. u.active[n] # d
      BY ZonesAssumption DEF NoneActive
    <2> QED  BY <1>8, <2>1, ZonesAssumption DEF Held
  <1>9. ASSUME NEW d \in Entries, d \in S \cup T PROVE Nowhere(u, x, d)
    <2>1. CASE d \in S
      <3>1. Nowhere(v, x, d)
        BY <1>0, <1>5, <2>1 DEF Kept
      <3> QED  BY <1>8, <3>1 DEF Nowhere
    <2>2. CASE d \in T /\ d \notin S
      <3>1. PICK n \in Monsters : Held(v, x, d, n) /\ v.active[n] = d
        BY <1>6, <2>2
      <3>2. Single(v, x, d)
        BY <1>0, <1>5, <2>2 DEF Kept
      <3>3. \A f \in DOMAIN u.frames : f.entry # d
        BY <3>1, <3>2 DEF Single
      <3>4. cfg.role[d] # "master"
        BY <2>2, OneMasterEntry
      <3> QED  BY <1>8, <3>3, <3>4 DEF Nowhere
    <2> QED  BY <1>9, <2>1, <2>2
  <1>10. ASSUME NEW d \in Entries, d \notin S \cup T PROVE Single(u, x, d)
    <2>1. Single(v, x, d)
      BY <1>0, <1>5, <1>10 DEF Kept
    <2> QED  BY <1>8, <2>1 DEF Single
  <1>11. {e} \cup DOMAIN u.list = S \cup T
    BY <1>7
  <1>12. Kept(u, x, S \cup T)
    BY <1>4, <1>9, <1>10 DEF Kept
  <1>13. ASSUME NEW d \in DOMAIN u.list PROVE u.list[d] = 1 /\ d # e
    <2>1. CASE d \in T
      <3>1. d \notin DOMAIN v.list /\ d # e
        BY <1>6, <2>1
      <3> QED  BY <1>1, <1>2, <1>3, <2>1, <3>1, MergedRight DEF b
    <2>2. CASE d \notin T
      <3>1. d \in DOMAIN v.list /\ v.list[d] = 1 /\ d # e
        BY <1>5, <1>7, <1>13, <2>2 DEF Fine, Listing
      <3>2. IsBag(v.list, Entries)
        BY <1>0 DEF Zoned
      <3> QED  BY <1>2, <2>2, <3>1, <3>2, MergedLeft DEF b
    <2> QED  BY <2>1, <2>2
  <1>14. Listing(u, {e})
    BY <1>13 DEF Listing
  <1>15. Body(u, x)
    BY DEF Body
  <1> QED  BY <1>11, <1>12, <1>14, <1>15 DEF Fine

\* Nothing comes back.
LEMMA MergedEmpty ==
  ASSUME NEW S, NEW b, IsBag(b, S)
  PROVE  Merged(b, Empty) = b
  <1>1. DOMAIN Empty = {}
    BY EmptyIsBag
  <1>2. \A x \in DOMAIN b : Count(b, x) + Count(Empty, x) = b[x]
    BY <1>1 DEF Count, IsBag
  <1>3. DOMAIN b \cup DOMAIN Empty = DOMAIN b
    BY <1>1
  <1>4. Merged(b, Empty) = [x \in DOMAIN b |-> b[x]]
    BY <1>2, <1>3 DEF Merged
  <1> QED  BY <1>4 DEF IsBag

\* The zone has forgotten its master m.
Freed(z, m) == [Forgotten(z, m) EXCEPT !.master = Nothing]

\* The master is dead; the entries that come back are free: the creatures tracked
\* for them are forgotten.
LEMMA MasterFreed ==
  ASSUME cfg.kind = "boss", NEW z, NEW m \in Monsters, Fine(z, m, {}), z.active[m] # Nothing,
         NEW v, v = Freed(z, m)
  PROVE  /\ Fine(v, m, {z.active[m]}) /\ z.active[m] \in Entries
         /\ v.on = z.on /\ v.run = z.run /\ v.active[m] = Nothing /\ v.master = Nothing
         /\ v.world = z.world
  <1> DEFINE a == [z.active EXCEPT ![m] = Nothing]
             f == [z EXCEPT !.active = a]
  <1>1. a \in CreatureMap /\ a[m] = Nothing
    BY DEF Fine, Body, Zoned, CreatureMap
  <1>2. f = Forgotten(z, m)
    BY DEF Forgotten
  <1> HIDE DEF a, f
  <1>3. /\ Zoned(f) /\ Same(z, f) /\ f.list = z.list /\ f.frames = z.frames
        /\ f.active = a /\ f.world = z.world /\ f.placing = z.placing
    BY <1>1, PutActive DEF f, Fine, Body
  <1>4. v = [f EXCEPT !.master = Nothing]
    BY <1>2 DEF Freed
  <1>5. Zoned(v) /\ Aside(f, v) /\ v.on = f.on /\ v.run = f.run /\ v.master = Nothing
    BY <1>3, <1>4 DEF Zoned, Aside
  <1>6. Linked(v)
    BY <1>5 DEF Linked
  <1>7. v.list = z.list /\ v.frames = z.frames /\ v.world = z.world /\ v.placing = Nothing
    BY <1>3, <1>5 DEF Aside, Fine, Body
  <1>8. v.active = [z.active EXCEPT ![m] = Nothing]
    BY <1>3, <1>5 DEF Aside, a
  <1>9. Fine(v, m, {z.active[m]}) /\ z.active[m] \in Entries
    BY <1>5, <1>6, <1>7, <1>8, FineFreed
  <1>10. v.active[m] = Nothing
    BY <1>1, <1>8 DEF a
  <1> QED  BY <1>3, <1>5, <1>7, <1>9, <1>10 DEF Same

\* The master is dead, and its minions live on.
LEMMA MasterFreedSame ==
  ASSUME cfg.kind = "boss", NEW z, NEW m \in Monsters, Fine(z, m, {}), z.active[m] # Nothing,
         NEW v, v = Freed(z, m)
  PROVE  /\ v.on = z.on /\ v.run = z.run /\ v.active[m] = Nothing /\ v.master = Nothing
         /\ v.world = z.world
  BY ZenonT(60), MasterFreed

\* HandleMasterDeath, for each way to treat the minions.
LEMMA MasterDeathFine ==
  ASSUME cfg \in Configs, cfg.kind = "boss", cfg.policy # "staged",
         NEW z, NEW m \in Monsters, Fine(z, m, {}), Heard(z), m = z.master,
         NEW y, y = HandleMasterDeath(Forgotten(z, m), z.active[m])
  PROVE  Fine(y, m, {}) /\ Handled(y)
  <1> DEFINE e == z.active[m]
  <1>a. PICK free : free = Forgotten(z, m)
    OBVIOUS
  <1>b. PICK v : v = [free EXCEPT !.master = Nothing]
    OBVIOUS
  <1>c. PICK back : back = CASE cfg.minions \in {"despawn", "finish"} -> TrackedBag(free)
                             [] OTHER -> Empty
    OBVIOUS
  <1>d. PICK left : left = IF cfg.minions = "none" THEN free.active ELSE NoneActive
    OBVIOUS
  <1>e. PICK world :
          world = IF cfg.minions # "despawn" THEN free.world
                  ELSE [n \in Monsters |-> IF n \in Tracked(free) THEN Nothing ELSE free.world[n]]
    OBVIOUS
  <1>f. PICK u : u = [free EXCEPT !.master = Nothing, !.active = left, !.world = world,
                               !.list = Merged(free.list, back)]
    OBVIOUS
  <1>1. e \in Entries /\ cfg.role[e] = "master" /\ ~Quiet /\ e # Nothing
    BY ZonesAssumption DEF Fine, Body, Linked, Quiet, Is
  <1>2. Fine(v, m, {e}) /\ v.on = z.on /\ v.run = z.run /\ v.active[m] = Nothing
        /\ v.master = Nothing /\ v.world = z.world
    <2>1. v = Freed(z, m) /\ z.active[m] # Nothing
      BY <1>a, <1>b, <1>1 DEF Freed
    <2>2. Fine(v, m, {z.active[m]})
      BY <2>1, MasterFreed
    <2>3. v.on = z.on /\ v.run = z.run /\ v.active[m] = Nothing /\ v.master = Nothing /\ v.world = z.world
      BY <2>1, MasterFreedSame
    <2> QED  BY <2>2, <2>3
  <1>3. Zoned(v) /\ Kept(v, m, {e} \cup DOMAIN v.list) /\ v.placing = Nothing
    BY <1>2 DEF Fine, Body
  <1>4. /\ free.active = v.active /\ free.world = v.world /\ free.list = v.list
        /\ free.frames = v.frames /\ free.placing = v.placing
    BY <1>a, <1>b DEF Fine, Body, Zoned, Forgotten
  <1>5. y = Over(Listed(u, e))
    BY <1>a, <1>c, <1>d, <1>e, <1>f DEF HandleMasterDeath
  <1>6. Tracked(free) = Tracked(v) /\ TrackedBag(free) = TrackedBag(v)
    BY <1>4 DEF Tracked, TrackedBag
  <1>7. IsBag(Merged(v.list, back), Entries)
    <2>1. IsBag(v.list, Entries)
      BY <1>3 DEF Zoned
    <2>2. IsBag(TrackedBag(v), Entries)
      BY <1>3, TrackedBagLemma
    <2>3. IsBag(back, Entries)
      BY <1>c, <1>6, <2>2, EmptyIsBag
    <2> QED  BY <2>1, <2>3, MergedBag
  <1>8. left \in CreatureMap /\ \A n \in Monsters : left[n] = v.active[n] \/ left[n] = Nothing
    BY <1>d, <1>3, <1>4 DEF NoneActive, CreatureMap, Zoned
  <1>9. /\ world \in CreatureMap /\ \A n \in Monsters : world[n] = v.world[n] \/ world[n] = Nothing
        /\ world[m] # Nothing
    <2>1. v.world[m] # Nothing /\ m \notin Tracked(free)
      BY <1>2, <1>6 DEF Fine, Body, Tracked
    <2> QED  BY <1>e, <1>3, <1>4, <2>1 DEF CreatureMap, Zoned
  <1>10. /\ Zoned(u) /\ u.master = Nothing /\ u.active = left /\ u.world = world
         /\ u.list = Merged(v.list, back) /\ u.frames = v.frames /\ u.placing = Nothing
         /\ u.on = z.on /\ u.run = z.run
    <2>1. PICK u1 : u1 = [v EXCEPT !.active = left]
      OBVIOUS
    <2>2. PICK u2 : u2 = [u1 EXCEPT !.world = world]
      OBVIOUS
    <2>3. PICK u3 : u3 = [u2 EXCEPT !.list = Merged(v.list, back)]
      OBVIOUS
    <2>4. /\ Zoned(u1) /\ Same(v, u1) /\ u1.list = v.list /\ u1.frames = v.frames
          /\ u1.active = left /\ u1.world = v.world /\ u1.placing = v.placing
      BY <1>3, <1>8, <2>1, PutActive
    <2>5. /\ Zoned(u2) /\ Same(u1, u2) /\ u2.list = u1.list /\ u2.frames = u1.frames
          /\ u2.active = u1.active /\ u2.world = world /\ u2.placing = u1.placing
      BY <1>9, <2>2, <2>4, PutWorld
    <2>6. /\ Zoned(u3) /\ Same(u2, u3) /\ u3.list = Merged(v.list, back) /\ u3.frames = u2.frames
          /\ u3.active = u2.active /\ u3.world = u2.world /\ u3.placing = u2.placing
      BY <1>7, <2>3, <2>5, PutList
    <2>7. u = u3
      BY <1>a, <1>b, <1>f, <1>4, <2>1, <2>2, <2>3 DEF Fine, Body, Zoned, Forgotten
    <2> QED  BY <1>2, <1>3, <2>4, <2>5, <2>6, <2>7 DEF Same
  <1>11. Linked(u)
    BY <1>10 DEF Linked
  <1>12. Fine(u, m, {e})
    <2>1. CASE cfg.minions \in {"despawn", "finish"}
      <3>1. back = TrackedBag(v) /\ left = NoneActive
        BY <1>c, <1>d, <1>6, <2>1
      <3> QED  BY <1>1, <1>2, <1>9, <1>10, <1>11, <3>1, BackToList
    <2>2. CASE cfg.minions \notin {"despawn", "finish"}
      <3>1. u.list = v.list
        BY <1>c, <1>3, <1>10, <2>2, MergedEmpty DEF Zoned
      <3> QED  BY <1>1, <1>2, <1>8, <1>9, <1>10, <1>11, <3>1, FineFewer
    <2> QED  BY <2>1, <2>2
  <1>13. PICK w : w = Listed(u, e)
    OBVIOUS
  <1>14. Fine(w, m, {e} \ {e}) /\ Grows(u, w)
    BY <1>1, <1>12, <1>13, FineListed
  <1>15. Fine(w, m, {}) /\ Heard(w)
    <2>1. {e} \ {e} = {}
      OBVIOUS
    <2> QED  BY <1>10, <1>14, <2>1 DEF Grows, Same, Heard
  <1> QED  BY <1>5, <1>13, <1>15, OverFine

\* The master of a staged boss dies.
LEMMA BossStagedMaster ==
  ASSUME cfg.kind = "boss", NEW z, NEW m \in Monsters, Fine(z, m, {}), Heard(z),
         z.active[m] # Nothing, NEW y, y = Over(Listed(Freed(z, m), z.active[m]))
  PROVE  Fine(y, m, {}) /\ Handled(y)
  <1> DEFINE e == z.active[m]
  <1>1. PICK v : v = Freed(z, m)
    OBVIOUS
  <1>2. PICK w : w = Listed(v, e)
    OBVIOUS
  <1>3. Fine(v, m, {e}) /\ e \in Entries
    BY <1>1, MasterFreed
  <1>4. v.on = z.on /\ v.run = z.run
    BY <1>1, MasterFreedSame
  <1> HIDE DEF e
  <1>5. Fine(w, m, {e} \ {e}) /\ Grows(v, w)
    BY <1>2, <1>3, FineListed
  <1>6. Fine(w, m, {}) /\ Heard(w)
    <2>1. {e} \ {e} = {}
      OBVIOUS
    <2> QED  BY <1>4, <1>5, <2>1 DEF Grows, Same, Heard
  <1> QED  BY <1>1, <1>2, <1>6, OverFine DEF e

\* onTrigger of a boss zone, for a monster that dies or is gone.
LEMMA BossMonster ==
  ASSUME cfg \in Configs, cfg.kind = "boss", NEW z, NEW m \in Monsters, Fine(z, m, {}), Heard(z),
         NEW t, NEW y \in BossOnMonster(z, m, t)
  PROVE  Fine(y, m, {}) /\ Handled(y)
  <1> DEFINE e == z.active[m]
  <1>a. PICK free : free = Forgotten(z, m)
    OBVIOUS
  <1>b. PICK next : next = NextWave(free)
    OBVIOUS
  <1>c. PICK minion : minion = IF z.run \in {"fight", "cut"} THEN Listed(free, e) ELSE free
    OBVIOUS
  <1>0. ~Quiet /\ (Heard(z) => Handled(z))
    BY DEF Quiet, Is, Heard, Handled
  <1>1. CASE y = z
    BY <1>0, <1>1
  <1>2. CASE y # z
    <2>1. m \in Tracked(z) /\ e # Nothing
      BY <1>2 DEF BossOnMonster, Tracked
    <2>2. CASE m = z.master
      <3>1. \/ y = Over(Listed([free EXCEPT !.master = Nothing], e))
            \/ cfg.policy # "staged" /\ y = HandleMasterDeath(free, e)
        BY <1>a, <1>2, <2>2 DEF BossOnMonster, IsMaster
      <3>2. CASE y = Over(Listed([free EXCEPT !.master = Nothing], e))
        BY <1>a, <2>1, <3>2, BossStagedMaster DEF Freed
      <3>3. CASE cfg.policy # "staged" /\ y = HandleMasterDeath(free, e)
        BY <1>a, <2>2, <3>3, MasterDeathFine
      <3> QED  BY <3>1, <3>2, <3>3
    <2>3. CASE m # z.master
      <3>1. Fine(free, m, {e})
        BY <1>a, <2>1, <2>3, ForgottenFine
      <3>2. Same(z, free)
        BY <1>a, <2>1, <2>3, ForgottenFine
      <3>3. e \in Entries
        BY <1>a, <2>1, <2>3, ForgottenFine
      <3>4. Fine(free, m, {}) /\ Heard(free)
        BY <1>0, <3>1, <3>2, FineDrop DEF Heard, Same
      <3>5. \/ y = free
            \/ cfg.policy = "staged" /\ y \in EachBegun(next, BagOf(Wave(next.wave)), "delayed")
            \/ y \in {minion, Over(minion)}
        BY <1>a, <1>b, <1>c, <1>2, <2>3 DEF BossOnMonster, IsMaster
      <3>6. Fine(minion, m, {}) /\ Heard(minion)
        <4>1. CASE minion = free
          BY <3>4, <4>1
        <4>2. CASE minion = Listed(free, e)
          <5>1. Fine(minion, m, {e} \ {e}) /\ Grows(free, minion)
            BY <3>1, <3>3, <4>2, FineListed
          <5>2. {e} \ {e} = {}
            OBVIOUS
          <5> QED  BY <3>4, <5>1, <5>2 DEF Grows, Same, Heard
        <4> QED  BY <1>c, <4>1, <4>2
      <3>7. CASE y \in {minion, Over(minion)}
        BY <3>6, <3>7, OverFine DEF Heard, Handled
      <3>8. CASE cfg.policy = "staged" /\ y \in EachBegun(next, BagOf(Wave(next.wave)), "delayed")
        <4>1. Fine(next, m, {}) /\ next.run = free.run /\ next.on = free.on /\ next.wave \in 1 .. MaxWave
          BY <1>b, <3>4, NextWaveFine
        <4> DEFINE T == Wave(next.wave)
        <4>2. T \in SUBSET Entries /\ \A d \in T : ~Guarded(d)
          BY <3>8, <4>1, WaveOpen
        <4>3. "delayed" \in Hows /\ y \in EachBegun(next, BagOf(T), "delayed")
          BY <3>8 DEF Hows
        <4> HIDE DEF T
        <4>4. Fine(y, m, {} \ T) /\ Grows(next, y)
          BY <1>0, <4>1, <4>2, <4>3, FineEach
        <4>5. {} \ T = {}
          OBVIOUS
        <4> QED  BY <3>4, <4>1, <4>4, <4>5 DEF Grows, Same, Heard, Handled
      <3>9. CASE y = free
        BY <3>4, <3>9 DEF Heard, Handled
      <3> QED  BY <3>5, <3>7, <3>8, <3>9
    <2> QED  BY <2>2, <2>3
  <1> QED  BY <1>1, <1>2

\* Losses: the creature dies, and is still in the world, or is gone.
LEMMA OnLossGood ==
  ASSUME cfg \in Configs, NEW z, NEW x, NEW W, Good(z, x, {}, W), Heard(z), NEW m \in Monsters,
         NEW t, (t = "Death" /\ x = m) \/ (t \in {"Despawn", "Leave"} /\ z.world[m] = Nothing),
         NEW y \in OnCreature(z, m, t)
  PROVE  Good(y, x, {}, W) /\ (Unpaused(z) => Unpaused(y)) /\ Handled(y)
  <1>1. ConfigOK(cfg) /\ Fine(z, x, {}) /\ (x = m \/ z.world[m] = Nothing)
    BY ZonesAssumption DEF Good
  <1>2. ASSUME Fine(y, x, {}), ~Quiet PROVE Good(y, x, {}, W) /\ (Unpaused(z) => Unpaused(y))
    BY <1>2, Loud DEF Good
  <1>3. ASSUME y.on = z.on, y.run = z.run PROVE Handled(y)
    BY <1>3 DEF Heard, Handled
  <1>4. CASE Is("monster", "fixed")
    <2>1. y \in FixedOnMonster(z, m, t)
      BY <1>4 DEF OnCreature, Is
    <2> QED  BY <1>1, <1>3, <1>4, <2>1, FixedMonster
  <1>5. CASE ~Is("monster", "fixed")
    <2>0. ~Quiet
      BY <1>5 DEF Quiet
    <2>1. CASE cfg.kind = "boss"
      <3>1. y \in BossOnMonster(z, m, t)
        BY <2>1 DEF OnCreature, Is
      <3>2. CASE t = "Death"
        BY <1>1, <1>2, <2>0, <2>1, <3>1, <3>2, BossMonster
      <3>3. CASE t # "Death"
        <4>1. y = z
          BY <3>1, <3>3 DEF BossOnMonster
        <4> QED  BY <1>3, <4>1
      <3> QED  BY <3>2, <3>3
    <2>2. CASE cfg.kind = "npc"
      <3>1. y \in NpcOnDeath(z, m, t)
        BY <2>2 DEF OnCreature, Is
      <3> QED  BY <1>1, <1>2, <1>3, <2>0, <2>2, <3>1, NpcMonster
    <2>3. CASE Is("monster", "relative")
      <3>1. y \in RelativeOnMonster(z, m, t)
        BY <2>3 DEF OnCreature, Is
      <3> QED  BY <1>1, <1>2, <1>3, <2>0, <2>3, <3>1, RelativeMonster DEF Is
    <2>4. CASE Is("monster", "staged")
      <3>1. y \in StagedOnMonster(z, m, t)
        BY <2>4 DEF OnCreature, Is
      <3> QED  BY <1>1, <1>2, <1>3, <2>0, <2>4, <3>1, StagedMonster
    <2>5. CASE Is("monster", "triggered")
      <3>1. PICK v \in Configured(z, t) : y \in TriggeredOnMonster(v, m, t)
        BY <2>5 DEF OnCreature, Is
      <3>2. Fine(v, x, {}) /\ v.on = z.on /\ v.run = z.run
        BY <1>1, <2>0, <3>1, ConfiguredFine
      <3>3. x = m \/ v.world[m] = Nothing
        <4>1. CASE t = "Death"
          BY <1>1, <4>1
        <4>2. CASE t # "Death"
          <5>1. cfg.trigger # t
            BY <1>1, <4>2 DEF ConfigOK
          <5> QED  BY <1>1, <3>1, <5>1 DEF Configured
        <4> QED  BY <4>1, <4>2
      <3>4. Fine(y, x, {}) /\ y.on = v.on /\ y.run = v.run
        BY <2>5, <3>1, <3>2, <3>3, TriggeredMonster DEF Is
      <3> QED  BY <1>2, <1>3, <2>0, <3>2, <3>4
    <2> QED  BY <1>1, <1>5, <2>1, <2>2, <2>3, <2>4, <2>5 DEF ConfigOK, Is
  <1> QED  BY <1>4, <1>5

\* What no creature has died of.
LEMMA OnOtherGood ==
  ASSUME cfg \in Configs, NEW z, NEW x, NEW H, NEW W, Good(z, x, H, W), Heard(z), NEW m,
         NEW t \in {"Enter", "Other"}, NEW y \in OnCreature(z, m, t)
  PROVE  Good(y, x, H, W) /\ (Unpaused(z) => Unpaused(y)) /\ Heard(y) /\ Grows(z, y)
  <1>1. ConfigOK(cfg) /\ Fine(z, x, H)
    BY ZonesAssumption DEF Good
  <1>2. CASE y = z
    BY <1>2 DEF Grows, Aware, Same
  <1>3. CASE Is("monster", "triggered")
    <2>1. PICK v \in Configured(z, t) : y \in TriggeredOnMonster(v, m, t)
      BY <1>3 DEF OnCreature, Is
    <2>2. y = v /\ ~Quiet
      BY <1>3, <2>1 DEF TriggeredOnMonster, Quiet, Is
    <2>3. Fine(y, x, H) /\ y.on = z.on /\ y.run = z.run /\ Grows(z, y)
      BY <1>1, <2>1, <2>2, ConfiguredFine
    <2> QED  BY <2>2, <2>3, Loud DEF Good, Heard
  <1>4. CASE ~Is("monster", "triggered")
    <2>1. y \in BossOnMonster(z, m, t) \cup NpcOnDeath(z, m, t) \cup FixedOnMonster(z, m, t)
               \cup RelativeOnMonster(z, m, t) \cup StagedOnMonster(z, m, t)
      BY <1>1, <1>4 DEF OnCreature, ConfigOK, Is
    <2>2. y = z
      BY <2>1 DEF BossOnMonster, NpcOnDeath, FixedOnMonster, RelativeOnMonster, StagedOnMonster
    <2> QED  BY <1>2, <2>2
  <1> QED  BY <1>3, <1>4

\* Between two events.  A frame that has ended with timers left is lost.
Settled(z) == z.run \in RestingRuns /\ (z.run = "ended" => z.wild \/ z.timers = 0)

\* A boss zone is not quiet.
LEMMA BossLoud ==
  ASSUME cfg.kind = "boss" PROVE ~Quiet
  BY DEF Quiet, Is

\* A zone of another kind knows no fight.
LEMMA OthersWait ==
  ASSUME cfg.kind # "boss", NEW z, NEW x, NEW H, Fine(z, x, H), z.run # "none"
  PROVE  z.run = "wait" /\ z.timers = 0
  BY DEF Fine, Body, Linked

(***************************************************************************)
(* The Run frame.                                                          *)
(***************************************************************************)
LEMMA LoopIdle ==
  ASSUME NEW z, NEW x, NEW H, NEW W, Good(z, x, H, W), Is("monster", "fixed"), NEW y \in FixedLoop(z)
  PROVE  y = z
  BY DEF FixedLoop, Good, Calm, Quiet

\* A frame that has nothing to do goes back to wait.
LEMMA ResumeIdle ==
  ASSUME NEW z, NEW x, NEW H, NEW W, Good(z, x, H, W), Heard(z), NEW y \in Resume(z)
  PROVE  /\ Good(y, x, H, W) /\ (Unpaused(z) => Unpaused(y)) /\ Heard(y)
         /\ y.world = z.world /\ y.active = z.active /\ (Quiet => y = z)
  <1>0. Fine(z, x, H)
    BY DEF Good
  <1>1. CASE y = z
    BY <1>1
  <1>2. CASE z.run \in {"cooldown", "cut"}
    <2>1. y = [z EXCEPT !.run = "wait"]
      BY <1>2 DEF Resume, Heard
    <2>2. cfg.kind = "boss"
      BY <1>0, <1>2, OthersWait
    <2>3. "wait" \in Runs
      BY DEF Runs, RestingRuns
    <2>4. Fine(y, x, H) /\ y.run = "wait" /\ y.on = z.on /\ Aside(z, y)
      BY <1>0, <2>1, <2>2, <2>3, RunPut
    <2> QED  BY <2>2, <2>4, BossLoud, Loud DEF Good, Heard, Aside
  <1>3. CASE z.run = "fight"
    <2>1. y = z
      BY <1>3 DEF Resume, Heard
    <2> QED  BY <1>1, <2>1
  <1>4. CASE z.run = "wait"
    <2>1. y \in IF Is("monster", "fixed") THEN FixedLoop(z)
                ELSE IF Is("monster", "staged") THEN {[z EXCEPT !.paused = FALSE]}
                ELSE {z}
      BY <1>4 DEF Resume, Heard
    <2>2. CASE Is("monster", "fixed")
      BY <1>1, <2>1, <2>2, LoopIdle
    <2>3. CASE ~Is("monster", "fixed") /\ y = [z EXCEPT !.paused = FALSE]
      <3>1. ~Quiet
        BY <2>3 DEF Quiet
      <3>2. PICK v : v = [z EXCEPT !.paused = FALSE]
        OBVIOUS
      <3>3. Fine(v, x, H) /\ v.run = z.run /\ v.on = z.on /\ Aside(z, v)
        BY <1>0, <3>2, PausedPut
      <3> QED  BY <2>3, <3>1, <3>2, <3>3, Loud DEF Good, Heard, Aside
    <2> QED  BY <1>1, <2>1, <2>2, <2>3
  <1> QED  BY <1>2, <1>3, <1>4 DEF Heard

\* A zone that is switched off ends its frame.
LEMMA EndedFine ==
  ASSUME cfg.kind = "boss", NEW z, NEW x, Fine(z, x, {}), NEW y, y = Ended(z)
  PROVE  Fine(y, x, {}) /\ Settled(y)
  <1>1. Zoned(z)
    BY DEF Fine, Body
  <1> DEFINE q == z.wild \/ z.timers > 0
  <1>2. q \in BOOLEAN /\ y = [z EXCEPT !.run = "ended", !.wild = q]
    BY DEF Ended
  <1>3. z.timers \in Nat
    BY <1>1, ZonesAssumption DEF Zoned
  <1>4. q \/ z.timers = 0
    BY <1>3
  <1> HIDE DEF q
  <1>5. "ended" \in Runs
    BY DEF Runs, RestingRuns
  <1>6. /\ Zoned(y) /\ Aside(z, y) /\ y.master = z.master /\ y.run = "ended"
        /\ y.wild = q /\ y.timers = z.timers
    BY ZenonT(60), <1>1, <1>2, <1>5 DEF Zoned, Aside
  <1> QED  BY <1>4, <1>6, FineAside DEF Settled, RestingRuns

\* A fight ends, and a cooldown begins.
LEMMA EndFightFine ==
  ASSUME cfg.kind = "boss", NEW z, NEW x, Fine(z, x, {}), NEW y \in EndFight(z)
  PROVE  Fine(y, x, {}) /\ Settled(y)
  <1>1. Zoned(z)
    BY DEF Fine, Body
  <1> DEFINE n == z.timers + 1
             w == IF cfg.policy = "staged" THEN 1 ELSE z.wave
             r == IF z.run = "over" THEN "cooldown" ELSE "cut"
  <1>2. z.timers # MaxTimers
        /\ y = [z EXCEPT !.players = {}, !.run = r, !.timers = n, !.wave = w]
    BY DEF EndFight
  <1>3. n \in 0 .. MaxTimers /\ w \in 1 .. MaxWave
    BY <1>1, <1>2, ZonesAssumption DEF Zoned
  <1>4. r \in {"cooldown", "cut"} /\ r \in Runs
    BY DEF Runs, RestingRuns
  <1> HIDE DEF n, w, r
  <1>5. Zoned(y) /\ Aside(z, y) /\ y.master = z.master /\ y.run = r
    BY <1>1, <1>2, <1>3, <1>4 DEF Zoned, Aside
  <1> QED  BY <1>4, <1>5, FineAside DEF Settled, RestingRuns

\* A fight begins with the master and its minions, all of them from the list.
LEMMA BeginFightFine ==
  ASSUME cfg \in Configs, cfg.kind = "boss", NEW z, NEW x, Fine(z, x, {}), NEW y \in BeginFight(z)
  PROVE  Fine(y, x, {}) /\ Settled(y)
  <1> DEFINE masters == ByRole(z, "master")
             followers == IF cfg.policy = "staged" THEN Wave(z.wave) ELSE ByRole(z, "minion")
             Found(v) == {m \in Tracked(v) : v.active[m] \in masters}
             Named(v) == IF Found(v) = {} THEN {v} ELSE {[v EXCEPT !.master = m] : m \in Found(v)}
  <1>a. PICK cleared : cleared = [z EXCEPT !.list = Empty, !.run = "fight"]
    OBVIOUS
  <1>b. PICK v \in EachBegun(cleared, BagOf(masters), "at once") :
          \E w \in Named(v) : y \in EachBegun(w, BagOf(followers), "delayed")
    BY <1>a DEF BeginFight
  <1>c. PICK w \in Named(v) : y \in EachBegun(w, BagOf(followers), "delayed")
    BY <1>b
  <1> DEFINE H == {e \in DOMAIN z.list : cfg.role[e] \in {"master", "minion"}}
  <1>1. ~Quiet /\ Zoned(z) /\ ConfigOK(cfg)
    BY BossLoud, ZonesAssumption DEF Fine, Body
  <1>2. masters \in SUBSET Entries /\ masters \in SUBSET H /\ followers \in SUBSET Entries
    BY <1>1 DEF ByRole, Zoned, IsBag, Wave
  <1>3. \A e \in followers : Guarded(e) => e \in H \ masters
    <2>1. CASE cfg.policy = "staged"
      <3>1. \A e \in Wave(z.wave) : ~Guarded(e)
        BY <1>1, <2>1, WaveOpen DEF Zoned
      <3> QED  BY <2>1, <3>1
    <2>2. CASE cfg.policy # "staged"
      BY <2>2 DEF ByRole
    <2> QED  BY <2>1, <2>2
  <1>4. Fine(cleared, x, H) /\ cleared.run = "fight"
    <2>1. PICK c1 : c1 = [z EXCEPT !.list = Empty]
      OBVIOUS
    <2>2. /\ Zoned(c1) /\ Same(z, c1) /\ c1.frames = z.frames /\ c1.list = Empty
          /\ c1.active = z.active /\ c1.world = z.world /\ c1.placing = z.placing
      <3>1. IsBag(Empty, Entries) /\ Zoned(z)
        BY <1>1, EmptyIsBag
      <3>2. Zoned(c1) /\ Same(z, c1)
        BY <2>1, <3>1, PutList
      <3>3. /\ c1.frames = z.frames /\ c1.list = Empty
            /\ c1.active = z.active /\ c1.world = z.world /\ c1.placing = z.placing
        BY <2>1, <3>1 DEF Zoned
      <3> QED  BY <3>2, <3>3
    <2>3. Kept(z, x, H \cup DOMAIN c1.list)
      <3>1. H \cup DOMAIN c1.list = H
        BY <2>2, EmptyIsBag
      <3>2. Kept(z, x, H)
        BY <1>1, KeptDrop DEF Fine
      <3> QED  BY <3>1, <3>2
    <2>4. Fine(c1, x, H)
      <3>1. Kept(c1, x, H \cup DOMAIN c1.list)
        BY <2>2, <2>3, KeptSame
      <3>2. Listing(c1, H)
        BY <2>2, EmptyIsBag DEF Listing
      <3>3. Body(c1, x)
        BY <2>2 DEF Fine, Body, Linked, Same
      <3> QED  BY <3>1, <3>2, <3>3 DEF Fine
    <2>5. cleared = [c1 EXCEPT !.run = "fight"] /\ "fight" \in Runs
      BY <1>a, <1>1, <2>1 DEF Zoned, Runs, RestingRuns
    <2>6. Zoned(c1) /\ Zoned(cleared) /\ Aside(c1, cleared) /\ cleared.master = c1.master
          /\ cleared.run = "fight"
      BY <2>2, <2>5 DEF Zoned, Aside
    <2> QED  BY <2>4, <2>6, FineAside
  <1>5. "at once" \in Hows /\ "delayed" \in Hows
    BY DEF Hows
  <1> HIDE DEF H, masters, followers
  <1>6. Fine(v, x, H \ masters) /\ Grows(cleared, v)
    BY <1>b, <1>1, <1>2, <1>4, <1>5, FineEach
  <1>7. Fine(w, x, H \ masters) /\ w.run = "fight"
    <2>1. CASE w = v
      BY <1>4, <1>6, <2>1 DEF Grows, Same
    <2>2. CASE \E m \in Found(v) : w = [v EXCEPT !.master = m]
      <3>1. PICK m \in Found(v) : w = [v EXCEPT !.master = m]
        BY <2>2
      <3>2. Zoned(v) /\ v.run = "fight" /\ m \in Monsters
        BY <1>4, <1>6 DEF Fine, Body, Grows, Same, Tracked
      <3>3. Zoned(w) /\ Aside(v, w) /\ w.master = m /\ w.run = "fight"
        BY <3>1, <3>2 DEF Zoned, Aside
      <3>4. v.active[m] \in Entries /\ cfg.role[v.active[m]] = "master"
        BY <1>1 DEF masters, ByRole, Zoned, IsBag
      <3>5. Linked(w)
        BY <3>3, <3>4 DEF Linked, Aside
      <3> QED  BY <1>6, <3>3, <3>5, FineSame DEF Aside
    <2> QED  BY <1>c, <2>1, <2>2
  <1> HIDE DEF Named
  <1>8. Fine(y, x, (H \ masters) \ followers) /\ Grows(w, y)
    BY <1>c, <1>1, <1>2, <1>3, <1>5, <1>7, FineEach
  <1>9. Fine(y, x, {})
    BY <1>1, <1>8, FineDrop
  <1> QED  BY <1>7, <1>8, <1>9 DEF Grows, Same, Settled, RestingRuns

\* The Run frame goes on, wherever it was.
LEMMA ResumeGood ==
  ASSUME cfg \in Configs, NEW z, NEW x, NEW W, Good(z, x, {}, W),
         z.run \in {"wait", "fight", "cooldown", "cut", "started", "over"}, z.on \/ cfg.kind = "boss",
         NEW y \in Resume(z)
  PROVE  Good(y, x, {}, W) /\ (Unpaused(z) => Unpaused(y)) /\ Settled(y) /\ (Quiet => y = z)
  <1>0. Fine(z, x, {})
    BY DEF Good
  <1>1. CASE Heard(z)
    BY <1>1, ResumeIdle DEF Heard, Settled, RestingRuns
  <1>2. CASE ~Heard(z)
    <2>1. cfg.kind = "boss"
      BY <1>0, <1>2, OthersWait DEF Heard
    <2>2. y = Ended(z) \/ y \in BeginFight(z) \/ y \in EndFight(z)
      <3>1. CASE z.run \in {"cooldown", "cut"}
        BY <1>2, <3>1 DEF Resume, Heard
      <3>2. CASE z.run = "started"
        BY <3>2 DEF Resume
      <3>3. CASE z.run = "over"
        BY <3>3 DEF Resume
      <3>4. CASE z.run = "fight"
        BY <1>2, <3>4 DEF Resume, Heard
      <3>5. CASE z.run = "wait"
        BY <1>2, <3>5 DEF Resume, Heard
      <3> QED  BY <3>1, <3>2, <3>3, <3>4, <3>5
    <2>3. Fine(y, x, {}) /\ Settled(y)
      BY <1>0, <2>1, <2>2, EndedFine, EndFightFine, BeginFightFine
    <2> QED  BY <2>1, <2>3, BossLoud, Loud DEF Good
  <1> QED  BY <1>1, <1>2

\* A trigger for a player: nobody hears, the frame is gone, or the handler runs.
LEMMA FirePlayer ==
  ASSUME NEW z, NEW p, NEW t, NEW y \in TriggerPlayer(z, p, t)
  PROVE  \/ ~z.on /\ y = z
         \/ z.on /\ z.run = "ended" /\ y = [z EXCEPT !.wild = TRUE]
         \/ z.on /\ z.run # "ended" /\ \E v \in OnPlayer(z, p, t) : y \in Resume(v)
  BY DEF TriggerPlayer, Fire

\* A trigger for a creature, the same.
LEMMA FireCreature ==
  ASSUME NEW z, NEW m, NEW t, NEW y \in TriggerCreature(z, m, t)
  PROVE  \/ ~z.on /\ y = z
         \/ z.on /\ z.run = "ended" /\ y = [z EXCEPT !.wild = TRUE]
         \/ z.on /\ z.run # "ended" /\ \E v \in OnCreature(z, m, t) : y \in Resume(v)
  BY DEF TriggerCreature, Fire

\* The frame is gone, and the handler with it.
LEMMA WildGood ==
  ASSUME NEW z, NEW x, NEW H, NEW W, Good(z, x, H, W), z.run = "ended",
         NEW y, y = [z EXCEPT !.wild = TRUE]
  PROVE  /\ Good(y, x, H, W) /\ Settled(y) /\ (Unpaused(z) => Unpaused(y))
         /\ Aside(z, y) /\ y.on = z.on
  <1>1. Zoned(z) /\ Fine(z, x, H)
    BY DEF Good, Fine, Body
  <1>2. /\ Zoned(y) /\ Aside(z, y) /\ y.master = z.master /\ y.run = z.run /\ y.timers = z.timers
        /\ y.players = z.players /\ y.paused = z.paused /\ y.wild = TRUE /\ y.on = z.on
    BY <1>1 DEF Zoned, Aside
  <1>3. Fine(y, x, H)
    BY <1>1, <1>2, FineAside
  <1>4. Calm(y, W) /\ (Unpaused(z) => Unpaused(y))
    BY <1>2 DEF Good, Calm, Unpaused, Aside
  <1> QED  BY <1>2, <1>3, <1>4 DEF Good, Settled, RestingRuns

\* A trigger for a player leaves the zone good; a death may leave it paused until
\* the leave that follows.
LEMMA TriggerPlayerGood ==
  ASSUME cfg \in Configs, NEW z, NEW x, NEW W, Good(z, x, {}, W), Settled(z), NEW p \in Players,
         NEW t, t = "Enter" => Clear(z, W), NEW y \in TriggerPlayer(z, p, t)
  PROVE  /\ Good(y, x, {}, W) /\ Settled(y)
         /\ t # "Death" /\ Unpaused(z) => Unpaused(y)
         /\ t = "Death" /\ Unpaused(z) => Unpaused(y) \/ (y.on /\ y.run # "ended")
         /\ t = "Leave" /\ z.on /\ z.run # "ended" => Unpaused(y)
  <1>1. CASE ~z.on /\ y = z
    BY <1>1
  <1>2. CASE z.on /\ z.run = "ended" /\ y = [z EXCEPT !.wild = TRUE]
    <2>1. Good(y, x, {}, W) /\ Settled(y) /\ (Unpaused(z) => Unpaused(y))
      BY <1>2, WildGood
    <2> QED  BY <1>2, <2>1
  <1>3. CASE z.on /\ z.run # "ended" /\ \E v \in OnPlayer(z, p, t) : y \in Resume(v)
    <2>1. PICK v \in OnPlayer(z, p, t) : y \in Resume(v)
      BY <1>3
    <2>2. Heard(z)
      BY <1>3 DEF Settled, Heard, RestingRuns
    <2>3. Good(v, x, {}, W) /\ Rested(z, v, t) /\ Handled(v)
      BY <2>1, <2>2, OnPlayerGood
    <2>4. Good(y, x, {}, W) /\ (Unpaused(v) => Unpaused(y)) /\ Settled(y) /\ (Quiet => y = v)
      BY <2>1, <2>3, ResumeGood DEF Handled
    <2>5. Quiet => y.on /\ y.run # "ended"
      BY <2>3, <2>4 DEF Handled
    <2>6. ~Quiet => Unpaused(y)
      BY DEF Unpaused
    <2> QED  BY <2>3, <2>4, <2>5, <2>6 DEF Rested
  <1> QED  BY <1>1, <1>2, <1>3, FirePlayer

\* A trigger for a creature that dies, or has been removed, leaves the zone good.
LEMMA TriggerLossGood ==
  ASSUME cfg \in Configs, NEW z, NEW x, NEW W, Good(z, x, {}, W), Settled(z),
         NEW m \in Monsters, NEW t,
         (t = "Death" /\ x = m) \/ (t \in {"Despawn", "Leave"} /\ z.world[m] = Nothing),
         NEW y \in TriggerCreature(z, m, t)
  PROVE  Good(y, x, {}, W) /\ Settled(y) /\ (Unpaused(z) => Unpaused(y))
  <1>1. CASE ~z.on /\ y = z
    BY <1>1
  <1>2. CASE z.on /\ z.run = "ended" /\ y = [z EXCEPT !.wild = TRUE]
    BY <1>2, WildGood
  <1>3. CASE z.on /\ z.run # "ended" /\ \E v \in OnCreature(z, m, t) : y \in Resume(v)
    <2>1. PICK v \in OnCreature(z, m, t) : y \in Resume(v)
      BY <1>3
    <2>2. Heard(z)
      BY <1>3 DEF Settled, Heard, RestingRuns
    <2>3. Good(v, x, {}, W) /\ (Unpaused(z) => Unpaused(v)) /\ Handled(v)
      BY <2>1, <2>2, OnLossGood
    <2>4. Good(y, x, {}, W) /\ (Unpaused(v) => Unpaused(y)) /\ Settled(y)
      BY <2>1, <2>3, ResumeGood DEF Handled
    <2> QED  BY <2>3, <2>4
  <1> QED  BY <1>1, <1>2, <1>3, FireCreature

\* Any other trigger for a creature does too, and the creatures stay.
LEMMA TriggerOtherGood ==
  ASSUME cfg \in Configs, NEW z, NEW x, NEW H, NEW W, Good(z, x, H, W), Settled(z),
         NEW m, NEW t \in {"Enter", "Other"}, NEW y \in TriggerCreature(z, m, t)
  PROVE  /\ Good(y, x, H, W) /\ Settled(y) /\ (Unpaused(z) => Unpaused(y))
         /\ \A n \in Monsters : z.world[n] # Nothing =>
               y.world[n] = z.world[n] /\ y.active[n] = z.active[n]
         /\ Aware(z, y)
  <1>1. CASE ~z.on /\ y = z
    BY <1>1 DEF Aware
  <1>2. CASE z.on /\ z.run = "ended" /\ y = [z EXCEPT !.wild = TRUE]
    <2>1. Good(y, x, H, W) /\ Settled(y) /\ (Unpaused(z) => Unpaused(y)) /\ Aside(z, y)
      BY <1>2, WildGood
    <2> QED  BY <2>1 DEF Aside, Aware
  <1>3. CASE z.on /\ z.run # "ended" /\ \E v \in OnCreature(z, m, t) : y \in Resume(v)
    <2>1. PICK v \in OnCreature(z, m, t) : y \in Resume(v)
      BY <1>3
    <2>2. Heard(z)
      BY <1>3 DEF Settled, Heard, RestingRuns
    <2>3. Good(v, x, H, W) /\ (Unpaused(z) => Unpaused(v)) /\ Heard(v) /\ Grows(z, v)
      BY <2>1, <2>2, OnOtherGood
    <2>4. /\ Good(y, x, H, W) /\ (Unpaused(v) => Unpaused(y)) /\ Heard(y)
          /\ y.world = v.world /\ y.active = v.active
      BY <2>1, <2>3, ResumeIdle
    <2> QED  BY <2>3, <2>4 DEF Grows, Aware, Heard, Settled, RestingRuns
  <1> QED  BY <1>1, <1>2, <1>3, FireCreature

\* What holds between two events, of the monsters W that are not in the world
\* when the event begins.
Between(z, W) == Good(z, Nothing, {}, W) /\ Unpaused(z) /\ Settled(z)

(***************************************************************************)
(* The Run frame starts.                                                   *)
(***************************************************************************)
Flagged(z, o, r, s) == [z EXCEPT !.on = o, !.run = r, !.startup = s]

\* The flags of the Run frame do not matter to the entries.
LEMMA FlagsFine ==
  ASSUME NEW z, NEW x, Fine(z, x, {}), NEW o \in BOOLEAN, NEW s \in BOOLEAN, NEW r \in Runs,
         cfg.kind # "boss" => r = "wait",
         NEW y, y = Flagged(z, o, r, s)
  PROVE  /\ Fine(y, x, {}) /\ y.run = r /\ y.startup = s /\ y.on = o
         /\ y.players = z.players /\ y.paused = z.paused /\ y.list = z.list
         /\ y.wild = z.wild /\ y.timers = z.timers /\ y.active = z.active /\ y.world = z.world
  <1>1. Zoned(z)
    BY DEF Fine, Body
  <1>2. /\ Zoned(y) /\ Aside(z, y) /\ y.master = z.master /\ y.run = r /\ y.startup = s
        /\ y.players = z.players /\ y.paused = z.paused /\ y.timers = z.timers
        /\ y.on = o /\ y.wild = z.wild
    BY <1>1 DEF Zoned, Aside, Flagged
  <1>3. Linked(y)
    BY <1>2 DEF Fine, Body, Linked, Aside
  <1>4. Fine(y, x, {})
    BY <1>2, <1>3, FineSame DEF Aside
  <1> QED  BY <1>2, <1>4 DEF Aside

\* Zone::Run, in a zone that tracks no player when it is a quiet one.
LEMMA RunGood ==
  ASSUME NEW z, Fine(z, Nothing, {}), Quiet => z.players = {} /\ ~z.paused, NEW W,
         NEW y \in Run(z)
  PROVE  Between(y, W) /\ (Quiet => y.players = {} /\ ~y.paused) /\ Aware(z, y)
  <1>1. Zoned(z) /\ "wait" \in Runs
    BY DEF Fine, Body, Runs, RestingRuns
  <1>a. PICK begun : begun = [z EXCEPT !.on = TRUE, !.run = "wait"]
    OBVIOUS
  <1>b. PICK fresh : fresh = [z EXCEPT !.on = TRUE, !.run = "wait", !.startup = TRUE]
    OBVIOUS
  <1>c. PICK late : late = [z EXCEPT !.on = TRUE, !.run = "wait", !.startup = FALSE]
    OBVIOUS
  <1>d. PICK yes \in BOOLEAN : yes = TRUE
    OBVIOUS
  <1>e. PICK no \in BOOLEAN : no = FALSE
    OBVIOUS
  <1>f. PICK old \in BOOLEAN : old = z.startup
    BY <1>1 DEF Zoned
  <1>g. fresh = [begun EXCEPT !.startup = TRUE] /\ late = [fresh EXCEPT !.startup = FALSE]
    BY <1>1, <1>a, <1>b, <1>c DEF Zoned
  <1>h. begun = Flagged(z, yes, "wait", old)
    BY <1>1, <1>a, <1>d, <1>f DEF Zoned, Flagged
  <1>i. fresh = Flagged(z, yes, "wait", yes) /\ late = Flagged(z, yes, "wait", no)
    BY <1>1, <1>b, <1>c, <1>d, <1>e DEF Flagged
  <1>2. Fine(begun, Nothing, {}) /\ begun.run = "wait" /\ begun.players = z.players
        /\ begun.paused = z.paused /\ begun.active = z.active /\ begun.world = z.world
    BY <1>1, <1>h, FlagsFine
  <1>3. Fine(fresh, Nothing, {}) /\ fresh.run = "wait" /\ fresh.players = z.players
        /\ fresh.paused = z.paused /\ fresh.active = z.active /\ fresh.world = z.world
    BY <1>1, <1>i, FlagsFine
  <1>4. Fine(late, Nothing, {}) /\ late.run = "wait" /\ late.players = z.players
        /\ late.paused = z.paused /\ late.active = z.active /\ late.world = z.world
    BY <1>1, <1>i, FlagsFine
  <1>5. ASSUME NEW v, Fine(v, Nothing, {}), v.run = "wait", v.players = z.players,
               v.paused = z.paused, v.active = z.active, v.world = z.world, y \in SpawnListed(v, "startup")
        PROVE  Between(y, W) /\ (Quiet => y.players = {} /\ ~y.paused) /\ Aware(z, y)
    <2>1. Fine(y, Nothing, {}) /\ y.list = Empty /\ Grows(v, y)
      BY <1>5, SpawnListedLemma DEF Hows
    <2>2. y.run = "wait" /\ y.players = z.players /\ y.paused = z.paused
      BY <1>5, <2>1 DEF Grows, Same
    <2>3. Aware(z, y)
      BY <1>5, <2>1 DEF Grows, Aware
    <2> QED  BY <2>1, <2>2, <2>3 DEF Between, Good, Calm, Unpaused, Settled, RestingRuns
  <1>6. ASSUME Fine(y, Nothing, {}), y.run = "wait", y.players = z.players, y.paused = z.paused,
               y.active = z.active, y.world = z.world, Quiet => y.list = Empty
        PROVE  Between(y, W) /\ (Quiet => y.players = {} /\ ~y.paused) /\ Aware(z, y)
    BY <1>6 DEF Aware, Between, Good, Calm, Unpaused, Settled, RestingRuns
  <1>7. CASE Is("monster", "fixed")
    <2>1. y \in FixedLoop(fresh)
      BY <1>7, <1>a, <1>g DEF Run
    <2>2. CASE y \in SpawnListed(late, "startup")
      BY <1>4, <1>5, <2>2
    <2>3. CASE y = fresh /\ ~(fresh.startup /\ cfg.passive /\ fresh.players = {} /\ fresh.list # Empty)
      <3>0. fresh.startup = TRUE
        BY <1>1, <1>b DEF Zoned
      <3>1. Quiet => fresh.list = Empty
        BY <1>3, <2>3, <3>0 DEF Quiet
      <3> QED  BY <1>3, <1>6, <2>3, <3>1
    <2> QED  BY <1>g, <2>1, <2>2, <2>3 DEF FixedLoop
  <1>8. CASE Is("npc", "fixed")
    <2>1. y \in SpawnListed(begun, "startup")
      BY <1>8, <1>a DEF Run, Is
    <2> QED  BY <1>2, <1>5, <2>1
  <1>9. CASE ~Is("monster", "fixed") /\ ~Is("npc", "fixed")
    <2>1. y = begun /\ ~Quiet
      BY <1>9, <1>a DEF Run, Quiet
    <2> QED  BY <1>2, <1>6, <2>1
  <1> QED  BY <1>7, <1>8, <1>9

\* A zone as it is loaded: every entry of its first wave is in the list.
LEMMA LoadedFine ==
  ASSUME cfg \in Configs, NEW z, z = Loaded(cfg)
  PROVE  Fine(z, Nothing, {}) /\ z.players = {} /\ ~z.paused
  <1> DEFINE E == {e \in Entries : cfg.policy = "staged" => cfg.wave[e] \in {0, 1}}
  <1>1. IsBag(BagOf(E), Entries) /\ IsBag(Empty, Frames) /\ DOMAIN Empty = {}
    BY BagOfBag, EmptyIsBag
  <1>2. DOMAIN BagOf(E) = E /\ \A e \in E : BagOf(E)[e] = 1
    BY BagOfDomain, BagOfOne
  <1>3. /\ z.list = BagOf(E) /\ z.frames = Empty /\ z.active = NoneActive /\ z.world = NoneActive
        /\ z.placing = Nothing /\ z.master = Nothing /\ z.run = "none" /\ z.timers = 0
        /\ z.players = {} /\ z.paused = FALSE
    BY DEF Loaded
  <1>4. Quiet => E = Entries
    BY DEF Quiet, Is
  <1> HIDE DEF E
  <1>5. NoneActive \in CreatureMap /\ "none" \in Runs
    BY DEF NoneActive, CreatureMap, Runs
  <1>6. 0 \in 0 .. MaxTimers /\ 1 \in 1 .. MaxWave
    BY ZonesAssumption
  <1>7. Zoned(z)
    BY <1>1, <1>3, <1>5, <1>6 DEF Zoned, Loaded, CreatureMap
  <1>8. Linked(z)
    BY <1>3 DEF Linked
  <1>9. ASSUME NEW e \in Entries PROVE Nowhere(z, Nothing, e)
    <2>1. \A m \in Monsters : z.active[m] # e /\ z.world[m] # e
      BY <1>3, ZonesAssumption DEF NoneActive
    <2> QED  BY <1>1, <1>3, <2>1 DEF Nowhere, Held
  <1>10. Kept(z, Nothing, {} \cup DOMAIN z.list)
    <2>1. Quiet => DOMAIN z.list = Entries
      BY <1>2, <1>3, <1>4
    <2> QED  BY <1>9, <2>1, NowhereSingle DEF Kept
  <1>11. Listing(z, {})
    BY <1>2, <1>3 DEF Listing
  <1>12. Body(z, Nothing)
    BY <1>3, <1>7, <1>8, ZonesAssumption DEF Body
  <1> QED  BY <1>3, <1>10, <1>11, <1>12 DEF Fine

\* The first states are good.
LEMMA InitGood ==
  ASSUME ZonesInit
  PROVE  cfg \in Configs /\ Between(zone, {}) /\ Aware(Loaded(cfg), zone)
  <1>1. cfg \in Configs
    BY DEF ZonesInit
  <1>a. PICK z : z = Loaded(cfg)
    OBVIOUS
  <1>2. Fine(z, Nothing, {}) /\ z.players = {} /\ ~z.paused
    BY <1>1, <1>a, LoadedFine
  <1>3. CASE zone \in Run(z)
    BY <1>1, <1>a, <1>2, <1>3, RunGood
  <1>4. CASE \E u \in Run(z) : zone \in Run([u EXCEPT !.spare = TRUE])
    <2>1. PICK u \in Run(z) : zone \in Run([u EXCEPT !.spare = TRUE])
      BY <1>4
    <2>2. Between(u, {}) /\ (Quiet => u.players = {} /\ ~u.paused) /\ Aware(z, u)
      BY <1>2, <2>1, RunGood
    <2>3. Fine(u, Nothing, {}) /\ Zoned(u)
      BY <2>2 DEF Between, Good, Fine, Body
    <2>4. PICK v : v = [u EXCEPT !.spare = TRUE]
      OBVIOUS
    <2>5. /\ Zoned(v) /\ Aside(u, v) /\ v.master = u.master /\ v.run = u.run /\ v.timers = u.timers
          /\ v.players = u.players /\ v.paused = u.paused /\ Aware(u, v)
      BY <2>3, <2>4 DEF Zoned, Aside, Aware
    <2>6. Fine(v, Nothing, {})
      BY <2>3, <2>5, FineAside
    <2>7. Between(zone, {}) /\ Aware(v, zone)
      BY <2>1, <2>2, <2>4, <2>5, <2>6, RunGood
    <2> QED  BY <1>1, <1>a, <2>2, <2>5, <2>7 DEF Aware
  <1> QED  BY <1>1, <1>a, <1>3, <1>4 DEF ZonesInit

\* Monster m is in the world for e, or gone; it is tracked for e; frame f wakes.
Seen(z, m, e) == [z EXCEPT !.world[m] = e]
Followed(z, m, e) == [z EXCEPT !.active[m] = e]
Woke(z, f) == [z EXCEPT !.frames = Taken(@, f)]

(***************************************************************************)
(* What happens in the world before the zone hears of it.                  *)
(***************************************************************************)
LEMMA FlagPut ==
  ASSUME NEW z, NEW x, NEW H, NEW W, Good(z, x, H, W), Settled(z), NEW y, Zoned(y), Aside(z, y),
         y.master = z.master, y.run = z.run, y.timers = z.timers, y.wild = z.wild,
         y.players = z.players, y.paused = z.paused
  PROVE  Good(y, x, H, W) /\ Settled(y) /\ (Unpaused(z) => Unpaused(y))
  <1>1. Fine(y, x, H)
    BY FineAside DEF Good
  <1> QED  BY <1>1 DEF Good, Calm, Unpaused, Settled, Aside

\* A player walks in or out before the zone hears of it.
LEMMA InsidePut ==
  ASSUME NEW z, NEW x, NEW W, Good(z, x, {}, W), Settled(z), NEW P \in SUBSET Players,
         NEW y, y = [z EXCEPT !.inside = P]
  PROVE  /\ Good(y, x, {}, W) /\ Settled(y) /\ (Unpaused(z) => Unpaused(y))
         /\ y.world = z.world /\ y.on = z.on /\ y.run = z.run
  <1>1. Zoned(z)
    BY DEF Good, Fine, Body
  <1>2. /\ Zoned(y) /\ Aside(z, y) /\ y.master = z.master /\ y.run = z.run /\ y.timers = z.timers
        /\ y.wild = z.wild /\ y.players = z.players /\ y.paused = z.paused /\ y.on = z.on
    BY <1>1 DEF Zoned, Aside
  <1> QED  BY <1>2, FlagPut DEF Aside

\* A creature of the world is about to die.
LEMMA Exempt ==
  ASSUME NEW z, NEW H, NEW W, Good(z, Nothing, H, W), NEW m \in Monsters, z.world[m] # Nothing
  PROVE  Good(z, m, H, W)
  <1>1. Kept(z, m, H \cup DOMAIN z.list)
    BY KeptExempt DEF Good, Fine
  <1> QED  BY <1>1 DEF Good, Fine, Body

\* It is taken off its tile.
LEMMA Unworld ==
  ASSUME NEW z, NEW m \in Monsters, NEW W, Good(z, m, {}, W), Settled(z),
         NEW y, y = Seen(z, m, Nothing)
  PROVE  /\ Good(y, Nothing, {}, W) /\ Settled(y) /\ (Unpaused(z) => Unpaused(y))
         /\ y.world[m] = Nothing
  <1> DEFINE w == [z.world EXCEPT ![m] = Nothing]
  <1>1. Zoned(z) /\ Fine(z, m, {}) /\ z.placing = Nothing
    BY DEF Good, Fine, Body
  <1>2. w \in CreatureMap
    BY <1>1 DEF Zoned, CreatureMap
  <1>3. y = [z EXCEPT !.world = w]
    BY <1>1 DEF Zoned, Seen
  <1>4. /\ w[m] = Nothing /\ \A n \in Monsters : n # m => w[n] = z.world[n]
    BY <1>1 DEF Zoned
  <1> HIDE DEF w
  <1>5. /\ Zoned(y) /\ Same(z, y) /\ y.list = z.list /\ y.frames = z.frames
        /\ y.active = z.active /\ y.world = w /\ y.placing = z.placing
    BY <1>1, <1>2, <1>3, PutWorld
  <1>6. Kept(y, Nothing, {} \cup DOMAIN y.list)
    BY <1>1, <1>4, <1>5, KeptUnworld DEF Fine
  <1>7. Linked(y)
    BY <1>1, <1>5 DEF Linked, Fine, Body, Same
  <1>8. Body(y, Nothing)
    BY <1>1, <1>5, <1>7, ZonesAssumption DEF Body
  <1>9. Fine(y, Nothing, {})
    BY <1>1, <1>5, <1>6, <1>8 DEF Fine, Listing
  <1>10. ASSUME Quiet, ~cfg.forced, y.players # {} PROVE \A n \in W : y.world[n] = Nothing
    <2>1. \A n \in W : z.world[n] = Nothing
      BY <1>5, <1>10 DEF Good, Calm, Same
    <2>2. \A n \in W : n = m \/ w[n] = z.world[n]
      BY <1>1 DEF w, Zoned
    <2> QED  BY <1>4, <1>5, <2>1, <2>2
  <1>11. Calm(y, W)
    BY <1>5, <1>10 DEF Good, Calm, Same
  <1> QED  BY <1>4, <1>5, <1>9, <1>11 DEF Good, Unpaused, Settled, Same

(***************************************************************************)
(* A sleeping frame wakes.                                                 *)
(***************************************************************************)
LEMMA FineTaken ==
  ASSUME NEW z, NEW W, Between(z, W), NEW f \in DOMAIN z.frames,
         NEW y, y = Woke(z, f)
  PROVE  /\ Good(y, Nothing, {f.entry}, W) /\ Unpaused(y) /\ Settled(y)
         /\ f \in Frames /\ SleeperOK(f)
  <1> DEFINE b == Taken(z.frames, f)
             S == {} \cup DOMAIN z.list
  <1>1. /\ Zoned(z) /\ z.placing = Nothing /\ Fine(z, Nothing, {}) /\ IsBag(z.frames, Frames)
        /\ Kept(z, Nothing, S)
    BY DEF Between, Good, Fine, Body, Zoned
  <1>2. f \in Frames /\ \A g \in DOMAIN z.frames : SleeperOK(g)
    BY <1>1 DEF Zoned, IsBag
  <1>3. IsBag(b, Frames)
    BY <1>1, TakenBag
  <1>4. DOMAIN b \subseteq DOMAIN z.frames
    BY TakenDomain
  <1>5. \A g \in DOMAIN b : SleeperOK(g)
    BY <1>2, <1>4
  <1> HIDE DEF b, S
  <1>6. y = [z EXCEPT !.frames = b]
    BY DEF b, Woke
  <1>7. /\ Zoned(y) /\ Same(z, y) /\ y.frames = b /\ y.list = z.list
        /\ y.active = z.active /\ y.world = z.world /\ y.placing = z.placing
    BY <1>1, <1>3, <1>5, <1>6, PutFrames
  <1>8. Kept(y, Nothing, S \cup {f.entry}) /\ (Guarded(f.entry) => f.entry \notin S)
    BY <1>1, <1>7, KeptTake DEF b
  <1>9. Kept(y, Nothing, {f.entry} \cup DOMAIN y.list)
    <2>1. {f.entry} \cup DOMAIN y.list = S \cup {f.entry}
      BY <1>7 DEF S
    <2> QED  BY <1>8, <2>1
  <1>10. Listing(y, {f.entry})
    BY <1>1, <1>7, <1>8 DEF Listing, Fine, S
  <1>11. Linked(y)
    BY <1>1, <1>7 DEF Linked, Fine, Body, Same
  <1>12. Fine(y, Nothing, {f.entry})
    BY <1>1, <1>7, <1>9, <1>10, <1>11, ZonesAssumption DEF Fine, Body
  <1>13. Calm(y, W) /\ Unpaused(y) /\ Settled(y)
    BY <1>7 DEF Between, Good, Calm, Unpaused, Settled, Same
  <1> QED  BY <1>2, <1>12, <1>13 DEF Good

\* A monster that appears, and is not tracked yet, frees nothing.
LEMMA KeptAppear ==
  ASSUME NEW z, NEW y, y.frames = z.frames, y.active = z.active, NEW m \in Monsters,
         z.world[m] = Nothing, \A n \in Monsters : n # m => y.world[n] = z.world[n],
         NEW S, Kept(z, Nothing, S)
  PROVE  Kept(y, m, S)
  <1>1. ASSUME NEW e \in Entries, NEW n \in Monsters
        PROVE  Held(y, m, e, n) <=> Held(z, Nothing, e, n)
    BY ZonesAssumption DEF Held
  <1>2. ASSUME NEW e \in Entries PROVE Out(z, e) <=> Out(y, e)
    BY DEF Out
  <1>3. ASSUME NEW e \in Entries
        PROVE  /\ Nowhere(z, Nothing, e) => Nowhere(y, m, e)
               /\ Single(z, Nothing, e) => Single(y, m, e)
    BY <1>1 DEF Nowhere, Single
  <1> QED  BY <1>2, <1>3 DEF Kept

\* The monster is in the world, and not yet tracked.
LEMMA Appeared ==
  ASSUME NEW z, NEW e \in Entries, NEW W, Good(z, Nothing, {e}, W), Unpaused(z), Settled(z),
         Unwatched(z), NEW m \in Monsters, z.world[m] = Nothing, z.active[m] = Nothing,
         NEW y, y = Seen(z, m, e)
  PROVE  /\ Good(y, m, {e}, W) /\ Unpaused(y) /\ Settled(y)
         /\ y.world[m] = e /\ y.active[m] = Nothing
  <1> DEFINE w == [z.world EXCEPT ![m] = e]
  <1>1. Zoned(z) /\ Fine(z, Nothing, {e}) /\ z.placing = Nothing
    BY DEF Good, Fine, Body
  <1>2. w \in CreatureMap
    BY <1>1 DEF Zoned, CreatureMap
  <1>3. y = [z EXCEPT !.world = w]
    BY <1>1 DEF Zoned, Seen
  <1>4. w[m] = e /\ \A n \in Monsters : n # m => w[n] = z.world[n]
    BY <1>1 DEF Zoned
  <1> HIDE DEF w
  <1>5. /\ Zoned(y) /\ Same(z, y) /\ y.list = z.list /\ y.frames = z.frames
        /\ y.active = z.active /\ y.world = w /\ y.placing = z.placing
    BY <1>1, <1>2, <1>3, PutWorld
  <1>6. Kept(y, m, {e} \cup DOMAIN y.list)
    BY <1>1, <1>4, <1>5, KeptAppear DEF Fine
  <1>7. Linked(y)
    BY <1>1, <1>5 DEF Linked, Fine, Body, Same
  <1>8. Body(y, m)
    BY <1>1, <1>4, <1>5, <1>7, ZonesAssumption DEF Body
  <1>9. Fine(y, m, {e})
    BY <1>1, <1>5, <1>6, <1>8 DEF Fine, Listing
  <1>10. Calm(y, W)
    BY <1>5 DEF Good, Calm, Same, Unwatched
  <1> QED  BY <1>4, <1>5, <1>9, <1>10 DEF Good, Unpaused, Settled, Same

\* It is tracked.
LEMMA TrackedGood ==
  ASSUME NEW z, NEW e \in Entries, NEW W, NEW m \in Monsters, Good(z, m, {e}, W), Unpaused(z),
         Settled(z), z.world[m] = e, z.active[m] = Nothing,
         NEW y, y = Followed(z, m, e)
  PROVE  Between(y, W)
  <1> DEFINE a == [z.active EXCEPT ![m] = e]
             S == {e} \cup DOMAIN z.list
  <1>1. Zoned(z) /\ Fine(z, m, {e}) /\ z.placing = Nothing /\ Kept(z, m, S)
    BY DEF Good, Fine, Body
  <1>2. a \in CreatureMap
    BY <1>1 DEF Zoned, CreatureMap
  <1>3. y = [z EXCEPT !.active = a]
    BY <1>1 DEF Zoned, Followed
  <1>4. a[m] = e /\ \A n \in Monsters : n # m => a[n] = z.active[n]
    BY <1>1 DEF Zoned
  <1> HIDE DEF a, S
  <1>5. /\ Zoned(y) /\ Same(z, y) /\ y.list = z.list /\ y.frames = z.frames
        /\ y.active = a /\ y.world = z.world /\ y.placing = z.placing
    BY <1>1, <1>2, <1>3, PutActive
  <1>6. Kept(y, Nothing, S \ {e})
    <2>1. Guarded(e) => e \in S
      BY DEF S
    <2> QED  BY <1>1, <1>4, <1>5, <2>1, KeptTrack
  <1>7. \A d \in Entries : Guarded(d) => (d \in S \ {e} <=> d \in {} \cup DOMAIN y.list)
    BY <1>1, <1>5 DEF Fine, Listing, S
  <1>8. Kept(y, Nothing, {} \cup DOMAIN y.list)
    BY <1>6, <1>7, KeptAgree
  <1>9. Linked(y)
    <2>1. y.master = z.master /\ y.run = z.run /\ y.timers = z.timers
      BY <1>5 DEF Same
    <2>2. z.master # m
      BY <1>1, ZonesAssumption DEF Fine, Body, Linked, Zoned
    <2>3. z.master # Nothing => y.active[z.master] = z.active[z.master]
      BY <1>1, <1>4, <1>5, <2>2 DEF Zoned
    <2> QED  BY <1>1, <2>1, <2>3 DEF Fine, Body, Linked
  <1>10. Fine(y, Nothing, {})
    BY <1>1, <1>5, <1>8, <1>9, ZonesAssumption DEF Fine, Body, Listing
  <1>11. Calm(y, W) /\ Unpaused(y) /\ Settled(y)
    BY <1>5 DEF Good, Calm, Unpaused, Settled, Same
  <1> QED  BY <1>10, <1>11 DEF Between, Good

\* A sleeping frame wakes up: Wake.
LEMMA WakeGood ==
  ASSUME cfg \in Configs, NEW z, NEW W, Between(z, W), NEW f \in DOMAIN z.frames,
         NEW u \in Spawn(Woke(z, f), f), NEW y \in PlacingAloud(u)
  PROVE  Between(y, W) /\ Aware(z, y)
  <1> DEFINE e == f.entry
  <1>a. PICK v : v = Woke(z, f)
    OBVIOUS
  <1>1. /\ Good(v, Nothing, {e}, W) /\ Unpaused(v) /\ Settled(v)
        /\ f \in Frames /\ SleeperOK(f)
    BY <1>a, FineTaken
  <1>2. Fine(v, Nothing, {e}) /\ v.placing = Nothing /\ Zoned(v) /\ e \in Entries
    BY <1>1 DEF Good, Fine, Body, Frames
  <1>b. v.active = z.active /\ v.world = z.world
    BY <1>a DEF Woke, Between, Good, Fine, Body, Zoned
  <1>3. SpawnEnds(v, u, e)
    <2>1. Quiet /\ ~cfg.forced /\ v.players # {} => v.paused
      BY <1>1 DEF Good, Calm
    <2> QED  BY <1>a, <1>1, <2>1, SpawnLemma
  <1> HIDE DEF e
  <1>4. u.placing = Nothing => y = u
    BY DEF PlacingAloud
  <1>5. {e} \ {e} = {} /\ e \in {e}
    OBVIOUS
  <1>6. CASE Slept(v, u, e)
    <2>1. Fine(u, Nothing, {}) /\ Grows(v, u) /\ u.list = v.list /\ u.world = v.world
      BY <1>2, <1>5, <1>6, FineSlept
    <2>2. Calm(u, W) /\ Unpaused(u) /\ Settled(u)
      BY <1>1, <2>1 DEF Good, Calm, Unpaused, Settled, Grows, Same
    <2> QED  BY <1>b, <1>4, <2>1, <2>2 DEF Between, Good, Fine, Body, Grows, Aware
  <1>7. CASE Chosen(v, u, e) /\ Unwatched(v)
    <2>1. PICK m \in Monsters : /\ v.world[m] = Nothing /\ v.active[m] = Nothing
                                /\ u = [v EXCEPT !.placing = <<m, e>>]
      BY <1>7 DEF Chosen
    <2>2. /\ u.placing = <<m, e>> /\ <<m, e>> # Nothing /\ u.placing[1] = m /\ u.placing[2] = e
      BY <1>2, <2>1, ZonesAssumption DEF Zoned
    <2>b. PICK g : g = Seen(v, m, e)
      OBVIOUS
    <2>3. [u EXCEPT !.world[m] = e, !.placing = Nothing] = g
      BY <1>2, <2>1, <2>b DEF Zoned, Seen
    <2>4. PICK h \in TriggerCreature(g, m, "Enter") : y = Followed(h, m, e)
      BY <2>2, <2>3 DEF PlacingAloud, Followed
    <2>5. /\ Good(g, m, {e}, W) /\ Unpaused(g) /\ Settled(g)
          /\ g.world[m] = e /\ g.active[m] = Nothing
      BY <1>1, <1>2, <1>7, <2>1, <2>b, Appeared
    <2>6. e # Nothing
      BY <1>2, ZonesAssumption
    <2>7. /\ Good(h, m, {e}, W) /\ Settled(h) /\ Unpaused(h)
          /\ h.world[m] = g.world[m] /\ h.active[m] = g.active[m] /\ Aware(g, h)
      BY <2>4, <2>5, <2>6, TriggerOtherGood
    <2>8. Between(y, W)
      BY <1>2, <2>4, <2>5, <2>7, TrackedGood
    <2>9. y.world = h.world /\ \A n \in Monsters : n # m => y.active[n] = h.active[n]
      BY <2>4, <2>7 DEF Followed, Good, Fine, Body, Zoned
    <2>10. \A n \in Monsters : n # m => g.world[n] = v.world[n] /\ g.active[n] = v.active[n]
      BY <1>2, <2>b DEF Seen, Zoned
    <2>11. y.world[m] # Nothing
      BY <2>5, <2>6, <2>7, <2>9
    <2>12. Aware(z, y)
      BY <1>b, <2>7, <2>9, <2>10, <2>11 DEF Aware
    <2> QED  BY <2>8, <2>12
  <1>8. CASE u = Listed(v, e) /\ Hindered(v)
    <2>1. Fine(u, Nothing, {}) /\ Grows(v, u) /\ u.world = v.world
      BY <1>2, <1>5, <1>8, FineListed
    <2>2. Quiet => v.players # {}
      BY <1>1, <1>8 DEF Hindered, Unpaused
    <2>3. Calm(u, W) /\ Unpaused(u) /\ Settled(u)
      BY <1>1, <2>1, <2>2 DEF Good, Calm, Unpaused, Settled, Grows, Same
    <2> QED  BY <1>b, <1>4, <2>1, <2>3 DEF Between, Good, Fine, Body, Grows, Aware
  <1>9. CASE u = v /\ ~Quiet
    <2>1. Fine(u, Nothing, {})
      BY <1>2, <1>9, FineDrop
    <2> QED  BY <1>b, <1>1, <1>2, <1>4, <1>9, <2>1, Loud DEF Aware, Between, Good
  <1> QED  BY <1>3, <1>6, <1>7, <1>8, <1>9 DEF SpawnEnds

(***************************************************************************)
(* One lemma per action: what it leaves behind.                            *)
(***************************************************************************)
LEMMA PlayerEntersGood ==
  ASSUME cfg \in Configs, NEW W, Between(zone, W), Clear(zone, W), NEW p \in Players, PlayerEnters(p)
  PROVE  Between(zone', W)
  <1>a. PICK z : z = [zone EXCEPT !.inside = zone.inside \cup {p}]
    OBVIOUS
  <1>1. zone' \in TriggerPlayer(z, p, "Enter")
    BY <1>a DEF PlayerEnters, Becomes, Happens
  <1>2. zone.inside \cup {p} \in SUBSET Players
    BY DEF Between, Good, Fine, Body, Zoned
  <1>3. Good(z, Nothing, {}, W) /\ Settled(z) /\ Unpaused(z) /\ z.world = zone.world
    BY <1>a, <1>2, InsidePut DEF Between
  <1>4. Clear(z, W)
    BY <1>3 DEF Clear
  <1> QED  BY <1>1, <1>3, <1>4, TriggerPlayerGood DEF Between

\* PlayerLeaves.
LEMMA PlayerLeavesGood ==
  ASSUME cfg \in Configs, NEW W, Between(zone, W), NEW p \in Players, PlayerLeaves(p)
  PROVE  Between(zone', W)
  <1>a. PICK z : z = [zone EXCEPT !.inside = zone.inside \ {p}]
    OBVIOUS
  <1>1. zone' \in TriggerPlayer(z, p, "Leave")
    BY <1>a DEF PlayerLeaves, Becomes, Happens
  <1>2. zone.inside \ {p} \in SUBSET Players
    BY DEF Between, Good, Fine, Body, Zoned
  <1>3. Good(z, Nothing, {}, W) /\ Settled(z) /\ Unpaused(z)
    BY <1>a, <1>2, InsidePut DEF Between
  <1> QED  BY <1>1, <1>3, TriggerPlayerGood DEF Between

\* PlayerDies: the leave undoes the pause that the death may leave behind.
LEMMA PlayerDiesGood ==
  ASSUME cfg \in Configs, NEW W, Between(zone, W), NEW p \in Players, PlayerDies(p)
  PROVE  Between(zone', W)
  <1>1. PICK v \in TriggerPlayer(zone, p, "Death") :
           zone' \in TriggerPlayer([v EXCEPT !.inside = @ \ {p}], p, "Leave")
    BY DEF PlayerDies, Becomes, Happens
  <1>2. Good(v, Nothing, {}, W) /\ Settled(v) /\ (Unpaused(v) \/ (v.on /\ v.run # "ended"))
    BY <1>1, TriggerPlayerGood DEF Between
  <1>a. PICK z : z = [v EXCEPT !.inside = v.inside \ {p}]
    OBVIOUS
  <1>3. v.inside \ {p} \in SUBSET Players
    BY <1>2 DEF Good, Fine, Body, Zoned
  <1>4. /\ Good(z, Nothing, {}, W) /\ Settled(z) /\ (Unpaused(v) => Unpaused(z))
        /\ z.on = v.on /\ z.run = v.run
    BY <1>a, <1>2, <1>3, InsidePut
  <1>5. zone' \in TriggerPlayer(z, p, "Leave")
    BY <1>1, <1>a
  <1> QED  BY <1>2, <1>4, <1>5, TriggerPlayerGood DEF Between

\* A creature is taken off its tile, and the zone hears of it.
LEMMA RemovedGood ==
  ASSUME cfg \in Configs, NEW z, NEW W, NEW m \in Monsters, Good(z, m, {}, W), Settled(z),
         Unpaused(z), NEW y \in Removed(z, m)
  PROVE  Between(y, W)
  <1>a. PICK v : v = Seen(z, m, Nothing)
    OBVIOUS
  <1>b. PICK t \in {"Despawn", "Leave"} : t = IF cfg.kind = "npc" THEN "Leave" ELSE "Despawn"
    OBVIOUS
  <1>1. y \in TriggerCreature(v, m, t)
    BY <1>a, <1>b DEF Removed, Seen
  <1>2. Good(v, Nothing, {}, W) /\ Settled(v) /\ Unpaused(v) /\ v.world[m] = Nothing
    BY <1>a, Unworld
  <1> QED  BY <1>1, <1>2, TriggerLossGood DEF Between

\* The zone hears of a death.
LEMMA DeathGood ==
  ASSUME cfg \in Configs, NEW z, NEW m \in Monsters, NEW W, Good(z, m, {}, W), Settled(z),
         NEW y \in TriggerCreature(z, m, "Death")
  PROVE  Good(y, m, {}, W) /\ Settled(y) /\ (Unpaused(z) => Unpaused(y))
  BY TriggerLossGood

\* CreatureDies: the death, and then the removal of a creature that is forgotten.
LEMMA CreatureDiesGood ==
  ASSUME cfg \in Configs, NEW W, Between(zone, W), NEW m \in Monsters, CreatureDies(m)
  PROVE  Between(zone', W)
  <1>1. PICK v \in TriggerCreature(zone, m, "Death") : zone' \in Removed(v, m)
    BY DEF CreatureDies, Vanishes, Happens
  <1>2. Good(zone, m, {}, W)
    BY Exempt DEF Between, CreatureDies, Vanishes
  <1>a. Settled(zone) /\ Unpaused(zone)
    BY DEF Between
  <1>3. Good(v, m, {}, W) /\ Settled(v) /\ Unpaused(v)
    BY <1>1, <1>2, <1>a, DeathGood
  <1> QED  BY <1>1, <1>3, RemovedGood

\* CreatureRemoved.
LEMMA CreatureRemovedGood ==
  ASSUME cfg \in Configs, NEW W, Between(zone, W), NEW m \in Monsters, CreatureRemoved(m)
  PROVE  Between(zone', W)
  <1>1. Good(zone, m, {}, W)
    BY Exempt DEF Between, CreatureRemoved, Vanishes
  <1> QED  BY <1>1, RemovedGood DEF Between, CreatureRemoved, Vanishes, Happens

\* CreatureGone: the zone does not hear of it.
LEMMA CreatureGoneGood ==
  ASSUME cfg \in Configs, NEW W, Between(zone, W), NEW m \in Monsters, CreatureGone(m)
  PROVE  Between(zone', W)
  <1>1. Good(zone, m, {}, W)
    BY Exempt DEF Between, CreatureGone, Vanishes
  <1>2. zone' = Seen(zone, m, Nothing)
    BY DEF CreatureGone, Vanishes, Happens, Seen
  <1> QED  BY <1>1, <1>2, Unworld DEF Between

\* OtherTrigger: of a creature, or of a player.
LEMMA OtherTriggerCases ==
  ASSUME OtherTrigger
  PROVE  \/ \E m \in Monsters, t \in {"Enter", "Other"} : zone' \in TriggerCreature(zone, m, t)
         \/ \E p \in zone.inside : zone' \in TriggerPlayer(zone, p, "Other")
  <1> DEFINE A == {TriggerCreature(zone, m, t) :
                     m \in {n \in Monsters : zone.world[n] # Nothing}, t \in {"Enter", "Other"}}
             B == {TriggerPlayer(zone, p, "Other") : p \in zone.inside}
  <1>1. (\E a \in A : zone' \in a) \/ (\E b \in B : zone' \in b)
    <2>1. zone' \in (UNION A) \cup (UNION B)
      BY DEF OtherTrigger, Becomes, Happens
    <2> HIDE DEF A, B
    <2> QED  BY <2>1
  <1> QED  BY <1>1

\* It leaves the zone good.
LEMMA OtherTriggerGood ==
  ASSUME cfg \in Configs, NEW W, Between(zone, W), OtherTrigger
  PROVE  Between(zone', W)
  <1>1. CASE \E m \in Monsters, t \in {"Enter", "Other"} : zone' \in TriggerCreature(zone, m, t)
    BY <1>1, TriggerOtherGood DEF Between
  <1>2. CASE \E p \in zone.inside : zone' \in TriggerPlayer(zone, p, "Other")
    <2>1. zone.inside \in SUBSET Players
      BY DEF Between, Good, Fine, Body, Zoned
    <2> QED  BY <1>2, <2>1, TriggerPlayerGood DEF Between
  <1> QED  BY <1>1, <1>2, OtherTriggerCases

\* RunTimer: only a boss has timers.
LEMMA RunTimerGood ==
  ASSUME cfg \in Configs, NEW W, Between(zone, W), RunTimer
  PROVE  Between(zone', W)
  <1> DEFINE n == zone.timers - 1
  <1>1. Zoned(zone) /\ Linked(zone) /\ Fine(zone, Nothing, {}) /\ Settled(zone)
    BY DEF Between, Good, Fine, Body
  <1>2. zone.timers \in 0 .. MaxTimers /\ zone.timers > 0 /\ MaxTimers \in Nat
    BY <1>1, ZonesAssumption DEF RunTimer, Zoned
  <1>3. n \in 0 .. MaxTimers
    BY <1>2
  <1>4. cfg.kind = "boss"
    BY <1>1, <1>2 DEF Linked
  <1>5. zone.run \in {"wait", "fight", "cooldown", "cut"}
    <2>1. ~zone.wild
      BY DEF RunTimer, Becomes, Happens
    <2> QED  BY <1>1, <1>2, <2>1 DEF Settled, RestingRuns
  <1> HIDE DEF n
  <1>a. PICK z : z = [zone EXCEPT !.timers = n]
    OBVIOUS
  <1>6. zone' \in Resume(z)
    BY <1>a DEF RunTimer, Becomes, Happens, n
  <1>7. /\ Zoned(z) /\ Aside(zone, z) /\ z.master = zone.master /\ z.run = zone.run
        /\ z.players = zone.players /\ z.paused = zone.paused
    BY <1>1, <1>3, <1>a DEF Zoned, Aside
  <1>8. Fine(z, Nothing, {})
    BY <1>1, <1>4, <1>7, FineAside
  <1>9. Good(z, Nothing, {}, W) /\ Unpaused(z)
    BY <1>4, <1>8, Loud, BossLoud DEF Good
  <1> QED  BY <1>4, <1>5, <1>6, <1>7, <1>9, ResumeGood DEF Between

\* Deactivate, and the half of Activate that starts no frame.
LEMMA SwitchedGood ==
  ASSUME NEW W, Between(zone, W), NEW o \in BOOLEAN, zone' = [zone EXCEPT !.on = o]
  PROVE  Between(zone', W)
  <1>1. Zoned(zone)
    BY DEF Between, Good, Fine, Body
  <1>a. PICK z : z = [zone EXCEPT !.on = o]
    OBVIOUS
  <1>2. /\ Zoned(z) /\ Aside(zone, z) /\ z.master = zone.master /\ z.run = zone.run
        /\ z.timers = zone.timers /\ z.wild = zone.wild /\ z.players = zone.players
        /\ z.paused = zone.paused
    BY <1>1, <1>a DEF Zoned, Aside
  <1>3. Good(z, Nothing, {}, W) /\ Settled(z) /\ Unpaused(z)
    BY <1>2, FlagPut DEF Between
  <1> QED  BY <1>a, <1>3 DEF Between

\* Activate: only the frame of a boss ever ends.
LEMMA ActivateGood ==
  ASSUME cfg \in Configs, NEW W, Between(zone, W), Activate
  PROVE  Between(zone', W)
  <1>1. CASE zone' = [zone EXCEPT !.on = TRUE]
    BY <1>1, SwitchedGood
  <1>2. CASE zone.run = "ended" /\ zone' \in Run(zone)
    <2>1. Fine(zone, Nothing, {}) /\ Linked(zone)
      BY DEF Between, Good, Fine, Body
    <2>2. ~Quiet
      BY <1>2, <2>1, BossLoud DEF Linked
    <2> QED  BY <1>2, <2>1, <2>2, RunGood
  <1> QED  BY <1>1, <1>2 DEF Activate, Becomes, Happens

\* Whatever happens, the zone stays good, of the monsters too that were away.
LEMMA NextGood ==
  ASSUME cfg \in Configs, NEW W, Between(zone, W), Clear(zone, W), ZonesNext
  PROVE  cfg' = cfg /\ Between(zone', W)
  <1>1. cfg' = cfg
    <2>1. ASSUME NEW p \in Players, PlayerEnters(p) \/ PlayerLeaves(p) \/ PlayerDies(p)
          PROVE  cfg' = cfg
      BY <2>1 DEF PlayerEnters, PlayerLeaves, PlayerDies, Becomes, Happens
    <2>2. ASSUME NEW m \in Monsters, CreatureDies(m) \/ CreatureRemoved(m) \/ CreatureGone(m)
          PROVE  cfg' = cfg
      BY <2>2 DEF CreatureDies, CreatureRemoved, CreatureGone, Vanishes, Happens
    <2>3. OtherTrigger => cfg' = cfg
      BY DEF OtherTrigger, Becomes, Happens
    <2>4. (\E f \in DOMAIN zone.frames : Wake(f)) => cfg' = cfg
      BY DEF Wake, Becomes, Happens
    <2>5. RunTimer \/ Deactivate \/ Activate => cfg' = cfg
      BY DEF RunTimer, Deactivate, Activate, Becomes, Happens
    <2> QED  BY <2>1, <2>2, <2>3, <2>4, <2>5 DEF ZonesNext
  <1>2. ASSUME NEW p \in Players, PlayerEnters(p) \/ PlayerLeaves(p) \/ PlayerDies(p)
        PROVE  Between(zone', W)
    BY <1>2, PlayerEntersGood, PlayerLeavesGood, PlayerDiesGood
  <1>3. ASSUME NEW m \in Monsters, CreatureDies(m) \/ CreatureRemoved(m) \/ CreatureGone(m)
        PROVE  Between(zone', W)
    BY <1>3, CreatureDiesGood, CreatureRemovedGood, CreatureGoneGood
  <1>4. ASSUME NEW f \in DOMAIN zone.frames, Wake(f) PROVE Between(zone', W)
    <2>1. PICK u \in Spawn(Woke(zone, f), f) : zone' \in PlacingAloud(u)
      BY <1>4 DEF Wake, Becomes, Happens, Woke
    <2> QED  BY <2>1, WakeGood
  <1>5. CASE OtherTrigger
    BY <1>1, <1>5, OtherTriggerGood
  <1>6. CASE RunTimer
    BY <1>1, <1>6, RunTimerGood
  <1>7. CASE Deactivate
    BY <1>7, SwitchedGood DEF Deactivate, Becomes, Happens
  <1>8. CASE Activate
    BY <1>1, <1>8, ActivateGood
  <1> QED  BY <1>1, <1>2, <1>3, <1>4, <1>5, <1>6, <1>7, <1>8 DEF ZonesNext

(***************************************************************************)
(* Passive fixed zones: what becomes of the creatures that are tracked.    *)
(***************************************************************************)
LEMMA AwareSame ==
  ASSUME NEW z, NEW y, y.active = z.active, y.world = z.world
  PROVE  Aware(z, y)
  BY DEF Aware

\* onTrigger for a player: the creatures stay as they are, but for a walk of the list.
LEMMA QuietPlayer ==
  ASSUME Quiet, NEW z, NEW x, NEW W, Good(z, x, {}, W), NEW p \in Players,
         NEW t, NEW y \in OnPlayer(z, p, t)
  PROVE  Aware(z, y)
  <1> DEFINE gone == Quit(z, p)
             came == Join(z, p)
             q == came.paused \/ ~cfg.forced
             held == [came EXCEPT !.paused = q]
             late == [gone EXCEPT !.paused = FALSE]
  <1>1. Fine(gone, x, {}) /\ Aside(z, gone)
    BY QuitFine DEF Good
  <1>2. Fine(came, x, {}) /\ Aside(z, came)
    BY JoinFine DEF Good
  <1>3. y \in FixedOnPlayer(z, p, t)
    BY DEF OnPlayer, Quiet, Is
  <1>4. y \in {held, gone, z} \/ (gone.players = {} /\ y \in ProcessCreatures(late))
    <2> HIDE DEF gone, q, late
    <2>1. cfg.passive
      BY DEF Quiet
    <2>2. t = "Enter" => y = held
      BY <1>3, <2>1 DEF FixedOnPlayer, q
    <2>3. t = "Leave" => y = gone \/ (gone.players = {} /\ y \in Woken(gone))
      <3>1. t = "Leave" => y \in FixedLeave(gone)
        BY <1>3 DEF FixedOnPlayer, gone
      <3>2. y \in FixedLeave(gone) => y \in IF gone.players = {} THEN Woken(gone) ELSE {gone}
        BY <2>1 DEF FixedLeave
      <3> QED  BY <3>1, <3>2
    <2>4. t = "Death" => y = gone \/ (gone.players = {} /\ y \in Woken(gone))
      BY <1>3 DEF FixedOnPlayer, gone
    <2>5. t \notin {"Enter", "Leave", "Death"} => y = z
      BY <1>3 DEF FixedOnPlayer
    <2> QED  BY <2>2, <2>3, <2>4, <2>5 DEF Woken, late
  <1> HIDE DEF gone, came
  <1>5. CASE y = z \/ y = gone
    BY <1>1, <1>5 DEF Aside, Aware
  <1>6. CASE y = held
    <2>1. q \in BOOLEAN
      OBVIOUS
    <2> HIDE DEF q
    <2>2. Aside(came, y)
      BY <1>2, <1>6, <2>1, PausedPut
    <2> QED  BY <1>2, <2>2 DEF Aside, Aware
  <1>7. CASE gone.players = {} /\ y \in ProcessCreatures(late)
    <2>1. Fine(late, x, {}) /\ Aside(gone, late) /\ late.players = gone.players /\ late.paused = FALSE
      BY ZenonT(60), <1>1, PausedPut
    <2> HIDE DEF late
    <2>2. Grows(late, y)
      BY <1>7, <2>1, ProcessFine
    <2> QED  BY <1>1, <2>1, <2>2 DEF Grows, Aside, Aware
  <1> QED  BY <1>4, <1>5, <1>6, <1>7

\* A trigger for a player.
LEMMA QuietTrigger ==
  ASSUME cfg \in Configs, NEW z, NEW x, NEW W, Good(z, x, {}, W), Settled(z), NEW p \in Players,
         NEW t, t = "Enter" => Clear(z, W), NEW y \in TriggerPlayer(z, p, t)
  PROVE  Quiet => Aware(z, y)
  <1> SUFFICES ASSUME Quiet PROVE Aware(z, y)
    OBVIOUS
  <1>1. CASE ~z.on /\ y = z
    BY <1>1, AwareSame
  <1>2. CASE z.on /\ z.run = "ended" /\ y = [z EXCEPT !.wild = TRUE]
    BY <1>2, WildGood, AwareSame DEF Aside
  <1>3. CASE z.on /\ z.run # "ended" /\ \E v \in OnPlayer(z, p, t) : y \in Resume(v)
    <2>1. PICK v \in OnPlayer(z, p, t) : y \in Resume(v)
      BY <1>3
    <2>2. Heard(z)
      BY <1>3 DEF Settled, Heard, RestingRuns
    <2>3. Good(v, x, {}, W) /\ Handled(v)
      BY <2>1, <2>2, OnPlayerGood
    <2>4. y = v
      BY <2>1, <2>3, ResumeGood DEF Handled
    <2> QED  BY <2>1, <2>4, QuietPlayer
  <1> QED  BY <1>1, <1>2, <1>3, FirePlayer

\* The zone is told of the end of a creature, and tracks it no more.
LEMMA QuietLoss ==
  ASSUME cfg \in Configs, Quiet, NEW z, NEW x, NEW W, Good(z, x, {}, W), Settled(z),
         NEW m \in Monsters, NEW t \in {"Death", "Despawn"},
         t = "Death" => x = m, t = "Despawn" => z.world[m] = Nothing,
         NEW y \in TriggerCreature(z, m, t)
  PROVE  /\ y.on = z.on /\ y.world = z.world /\ Aware(z, y)
         /\ z.on => y.active[m] = Nothing
  <1>0. Fine(z, x, {}) /\ Zoned(z) /\ z.run # "ended"
    BY DEF Good, Fine, Body, Linked, Quiet, Is
  <1>1. CASE ~z.on /\ y = z
    BY <1>1, AwareSame
  <1>2. CASE z.on /\ \E v \in OnCreature(z, m, t) : y \in Resume(v)
    <2>1. PICK v \in OnCreature(z, m, t) : y \in Resume(v)
      BY <1>2
    <2>2. Heard(z)
      BY <1>0, <1>2 DEF Settled, Heard, RestingRuns
    <2>3. Good(v, x, {}, W) /\ Handled(v)
      BY <2>1, <2>2, OnLossGood
    <2>4. y = v
      BY <2>1, <2>3, ResumeGood DEF Handled
    <2>5. y \in FixedOnMonster(z, m, t) /\ Is("monster", "fixed")
      BY <2>1, <2>4 DEF OnCreature, Quiet, Is
    <2>6. v.on = z.on
      BY <2>1, <2>4, <2>5, FixedMonster
    <2>7. CASE z.active[m] = Nothing
      <3>1. y = z
        BY <2>5, <2>7 DEF FixedOnMonster, Tracked
      <3> QED  BY <2>7, <3>1, AwareSame
    <2>8. CASE z.active[m] # Nothing
      <3> DEFINE free == Forgotten(z, m)
      <3>1. y \in DelaySpawn(free, z.active[m]) \/ y = Listed(free, z.active[m])
        BY <2>5, <2>8 DEF FixedOnMonster, Tracked
      <3>2. /\ free.active[m] = Nothing /\ free.world = z.world
            /\ \A n \in Monsters : n # m => free.active[n] = z.active[n]
        BY <1>0 DEF Forgotten, Zoned
      <3>3. z.master # m
        BY <1>0, ZonesAssumption DEF Fine, Body, Linked, Quiet, Is
      <3>4. Fine(free, x, {z.active[m]}) /\ z.active[m] \in Entries
        BY <1>0, <2>8, <3>3, ForgottenFine
      <3>5. free.placing = Nothing /\ Zoned(free)
        BY <3>4 DEF Fine, Body
      <3> HIDE DEF free
      <3>6. y.active = free.active /\ y.world = free.world
        <4>1. CASE y \in DelaySpawn(free, z.active[m])
          <5>1. Slept(free, y, z.active[m])
            BY <3>4, <4>1, DelayEnds
          <5> QED  BY <3>5, <5>1 DEF Slept, Zoned
        <4>2. CASE y = Listed(free, z.active[m])
          BY <3>5, <4>2 DEF Listed, Zoned
        <4> QED  BY <3>1, <4>1, <4>2
      <3> QED  BY <2>4, <2>6, <3>2, <3>6 DEF Aware
    <2> QED  BY <2>7, <2>8
  <1> QED  BY <1>0, <1>1, <1>2, FireCreature

\* Every tracked creature is in the world, or one of U.
Recorded(z, U) ==
    Quiet => \A m \in Monsters : z.active[m] # Nothing => z.world[m] # Nothing \/ m \in U

\* It stays so where no creature comes to be tracked that is not in the world.
LEMMA AwareRecorded ==
  ASSUME NEW z, NEW y, NEW U, Recorded(z, U), Quiet => Aware(z, y)
  PROVE  Recorded(y, U \cap Tracked(y))
  BY DEF Recorded, Aware, Tracked

\* The creature m is taken from the world, and the zone is told.
LEMMA RemovedRecorded ==
  ASSUME cfg \in Configs, Quiet, NEW z, NEW W, NEW m \in Monsters, Good(z, m, {}, W), Settled(z),
         Unpaused(z), NEW y \in Removed(z, m)
  PROVE  /\ z.on => y.active[m] = Nothing
         /\ \A n \in Monsters : n # m /\ y.active[n] # Nothing /\ y.world[n] = Nothing =>
               z.active[n] # Nothing /\ z.world[n] = Nothing
  <1>a. PICK v : v = Seen(z, m, Nothing)
    OBVIOUS
  <1>1. y \in TriggerCreature(v, m, "Despawn")
    BY <1>a DEF Removed, Seen, Quiet, Is
  <1>2. Good(v, Nothing, {}, W) /\ Settled(v) /\ v.world[m] = Nothing
    BY <1>a, Unworld
  <1>3. /\ v.on = z.on /\ v.active = z.active
        /\ \A n \in Monsters : n # m => v.world[n] = z.world[n]
    BY <1>a DEF Seen, Good, Fine, Body, Zoned
  <1>4. Aware(v, y) /\ (v.on => y.active[m] = Nothing)
    BY <1>1, <1>2, QuietLoss
  <1> QED  BY <1>3, <1>4 DEF Aware

\* CreatureDies, CreatureRemoved and CreatureGone: who is unheard is noted.
LEMMA VanishesRecorded ==
  ASSUME cfg \in Configs, Between(zone, {}), Recorded(zone, unheard), NEW m \in Monsters,
         CreatureDies(m) \/ CreatureRemoved(m) \/ CreatureGone(m)
  PROVE  Recorded(zone', unheard')
  <1> SUFFICES ASSUME Quiet PROVE Recorded(zone', unheard')
    BY DEF Recorded
  <1>1. Good(zone, Nothing, {}, {}) /\ Settled(zone) /\ Unpaused(zone) /\ Zoned(zone)
    BY DEF Between, Good, Fine, Body
  <1>2. zone.world[m] # Nothing
    BY DEF CreatureDies, CreatureRemoved, CreatureGone, Vanishes
  <1>3. Good(zone, m, {}, {})
    BY <1>1, <1>2, Exempt
  <1>4. ASSUME NEW told \in BOOLEAN,
               unheard' = (unheard \cup IF told THEN {} ELSE {m}) \cap Tracked(zone'),
               told => zone'.active[m] = Nothing,
               \A n \in Monsters : n # m /\ zone'.active[n] # Nothing /\ zone'.world[n] = Nothing =>
                 zone.active[n] # Nothing /\ zone.world[n] = Nothing
        PROVE  Recorded(zone', unheard')
    BY <1>4 DEF Recorded, Tracked
  <1>5. zone.on \in BOOLEAN
    BY <1>1 DEF Zoned
  <1>6. CASE CreatureDies(m)
    <2>1. PICK v \in TriggerCreature(zone, m, "Death") : zone' \in Removed(v, m)
      BY <1>6 DEF CreatureDies, Vanishes, Happens
    <2>2. Good(v, m, {}, {}) /\ Settled(v) /\ Unpaused(v)
      BY <1>1, <1>3, <2>1, DeathGood
    <2>3. v.on = zone.on /\ Aware(zone, v)
      BY <1>1, <1>3, <2>1, QuietLoss
    <2>4. /\ zone.on => zone'.active[m] = Nothing
          /\ \A n \in Monsters : n # m /\ zone'.active[n] # Nothing /\ zone'.world[n] = Nothing =>
                zone.active[n] # Nothing /\ zone.world[n] = Nothing
      BY <2>1, <2>2, <2>3, RemovedRecorded DEF Aware
    <2> QED  BY <1>4, <1>5, <1>6, <2>4 DEF CreatureDies, Vanishes
  <1>7. CASE CreatureRemoved(m)
    <2>1. zone' \in Removed(zone, m)
      BY <1>7 DEF CreatureRemoved, Vanishes, Happens
    <2>2. /\ zone.on => zone'.active[m] = Nothing
          /\ \A n \in Monsters : n # m /\ zone'.active[n] # Nothing /\ zone'.world[n] = Nothing =>
                zone.active[n] # Nothing /\ zone.world[n] = Nothing
      BY <1>1, <1>3, <2>1, RemovedRecorded
    <2> QED  BY <1>4, <1>5, <1>7, <2>2 DEF CreatureRemoved, Vanishes
  <1>8. CASE CreatureGone(m)
    <2>1. zone' = Seen(zone, m, Nothing)
      BY <1>8 DEF CreatureGone, Vanishes, Happens, Seen
    <2>2. \A n \in Monsters : n # m => zone'.world[n] = zone.world[n] /\ zone'.active[n] = zone.active[n]
      BY <1>1, <2>1 DEF Seen, Zoned
    <2> QED  BY <1>4, <1>8, <2>2 DEF CreatureGone, Vanishes
  <1> QED  BY <1>6, <1>7, <1>8

\* Whatever else happens, no creature comes to be tracked that is not in the world.
LEMMA NextAware ==
  ASSUME cfg \in Configs, Between(zone, {}), Quiet, ZonesNext,
         ~\E m \in Monsters : CreatureDies(m) \/ CreatureRemoved(m) \/ CreatureGone(m)
  PROVE  Aware(zone, zone') /\ unheard' = unheard \cap Tracked(zone')
  <1>0. /\ Good(zone, Nothing, {}, {}) /\ Settled(zone) /\ Zoned(zone) /\ Clear(zone, {})
        /\ zone.inside \in SUBSET Players
    BY DEF Between, Good, Fine, Body, Zoned, Clear
  <1>1. ASSUME NEW p \in Players, NEW z, Good(z, Nothing, {}, {}), Settled(z), Clear(z, {}),
               NEW P \in SUBSET Players, NEW t, NEW y \in TriggerPlayer([z EXCEPT !.inside = P], p, t)
        PROVE  Aware(z, y)
    <2>a. PICK v : v = [z EXCEPT !.inside = P]
      OBVIOUS
    <2>1. Good(v, Nothing, {}, {}) /\ Settled(v) /\ Clear(v, {})
      BY <1>1, <2>a, InsidePut DEF Clear
    <2>2. v.active = z.active /\ v.world = z.world
      BY <1>1, <2>a DEF Good, Fine, Body, Zoned
    <2>3. Aware(v, y)
      BY <1>1, <2>a, <2>1, QuietTrigger
    <2> QED  BY <2>2, <2>3 DEF Aware
  <1>2. ASSUME NEW p \in Players, PlayerEnters(p)
        PROVE  Aware(zone, zone') /\ unheard' = unheard \cap Tracked(zone')
    <2>1. PICK P \in SUBSET Players : P = zone.inside \cup {p}
      BY <1>0
    <2>2. zone' \in TriggerPlayer([zone EXCEPT !.inside = P], p, "Enter")
      BY <1>2, <2>1 DEF PlayerEnters, Becomes, Happens
    <2> QED  BY <1>0, <1>1, <1>2, <2>2 DEF PlayerEnters, Becomes
  <1>3. ASSUME NEW p \in Players, PlayerLeaves(p)
        PROVE  Aware(zone, zone') /\ unheard' = unheard \cap Tracked(zone')
    <2>1. PICK P \in SUBSET Players : P = zone.inside \ {p}
      BY <1>0
    <2>2. zone' \in TriggerPlayer([zone EXCEPT !.inside = P], p, "Leave")
      BY <1>3, <2>1 DEF PlayerLeaves, Becomes, Happens
    <2> QED  BY <1>0, <1>1, <1>3, <2>2 DEF PlayerLeaves, Becomes
  <1>4. ASSUME NEW p \in Players, PlayerDies(p)
        PROVE  Aware(zone, zone') /\ unheard' = unheard \cap Tracked(zone')
    <2>1. PICK v \in TriggerPlayer(zone, p, "Death") :
             zone' \in TriggerPlayer([v EXCEPT !.inside = v.inside \ {p}], p, "Leave")
      BY <1>4 DEF PlayerDies, Becomes, Happens
    <2>2. Aware(zone, v)
      BY <1>0, <2>1, QuietTrigger
    <2>3. Good(v, Nothing, {}, {}) /\ Settled(v) /\ Clear(v, {})
      BY <1>0, <2>1, TriggerPlayerGood DEF Clear
    <2>4. PICK P \in SUBSET Players : P = v.inside \ {p}
      BY <2>3 DEF Good, Fine, Body, Zoned
    <2>5. Aware(v, zone')
      BY <1>1, <2>1, <2>3, <2>4
    <2> QED  BY <1>4, <2>2, <2>5 DEF PlayerDies, Becomes, Aware
  <1>5. CASE OtherTrigger
    <2>1. ASSUME NEW m \in Monsters, NEW t \in {"Enter", "Other"}, zone' \in TriggerCreature(zone, m, t)
          PROVE  Aware(zone, zone')
      BY <1>0, <2>1, TriggerOtherGood
    <2>2. ASSUME NEW p \in zone.inside, zone' \in TriggerPlayer(zone, p, "Other")
          PROVE  Aware(zone, zone')
      BY <1>0, <2>2, QuietTrigger
    <2> QED  BY <1>5, <2>1, <2>2, OtherTriggerCases DEF OtherTrigger, Becomes
  <1>6. ASSUME NEW f \in DOMAIN zone.frames, Wake(f)
        PROVE  Aware(zone, zone') /\ unheard' = unheard \cap Tracked(zone')
    <2>1. PICK u \in Spawn(Woke(zone, f), f) : zone' \in PlacingAloud(u)
      BY <1>6 DEF Wake, Becomes, Happens, Woke
    <2> QED  BY <1>6, <2>1, WakeGood DEF Wake, Becomes
  <1>7. CASE RunTimer
    <2>1. zone.timers > 0 /\ zone.timers = 0
      BY <1>0, <1>7 DEF RunTimer, Good, Fine, Body, Linked, Quiet, Is
    <2> QED  BY <2>1
  <1>8. CASE Deactivate
    BY <1>0, <1>8, AwareSame DEF Deactivate, Becomes, Happens, Zoned
  <1>9. CASE Activate
    <2>1. zone.run # "ended"
      BY <1>0 DEF Good, Fine, Body, Linked, Quiet, Is
    <2>2. zone' = [zone EXCEPT !.on = TRUE]
      BY <1>9, <2>1 DEF Activate, Becomes, Happens
    <2> QED  BY <1>0, <1>9, <2>2, AwareSame DEF Activate, Becomes, Zoned
  <1> QED  BY <1>2, <1>3, <1>4, <1>5, <1>6, <1>7, <1>8, <1>9 DEF ZonesNext

\* So the record of the unheard stays complete.
LEMMA NextRecorded ==
  ASSUME cfg \in Configs, Between(zone, {}), unheard \in SUBSET Monsters,
         Recorded(zone, unheard), ZonesNext
  PROVE  unheard' \in SUBSET Monsters /\ Recorded(zone', unheard')
  <1>1. unheard' \in SUBSET Monsters
    <2>1. \A m \in Monsters : CreatureDies(m) \/ CreatureRemoved(m) \/ CreatureGone(m) =>
            unheard' \subseteq Tracked(zone')
      BY DEF CreatureDies, CreatureRemoved, CreatureGone, Vanishes
    <2>2. \A p \in Players : PlayerEnters(p) \/ PlayerLeaves(p) \/ PlayerDies(p) =>
            unheard' \subseteq Tracked(zone')
      BY DEF PlayerEnters, PlayerLeaves, PlayerDies, Becomes
    <2>3. OtherTrigger \/ RunTimer \/ Deactivate \/ Activate => unheard' \subseteq Tracked(zone')
      BY DEF OtherTrigger, RunTimer, Deactivate, Activate, Becomes
    <2>4. (\E f \in DOMAIN zone.frames : Wake(f)) => unheard' \subseteq Tracked(zone')
      BY DEF Wake, Becomes
    <2> QED  BY <2>1, <2>2, <2>3, <2>4 DEF ZonesNext, Tracked
  <1>2. CASE \E m \in Monsters : CreatureDies(m) \/ CreatureRemoved(m) \/ CreatureGone(m)
    BY <1>1, <1>2, VanishesRecorded
  <1>3. CASE Quiet /\ ~\E m \in Monsters : CreatureDies(m) \/ CreatureRemoved(m) \/ CreatureGone(m)
    BY <1>1, <1>3, NextAware, AwareRecorded
  <1>4. CASE ~Quiet
    BY <1>1, <1>4 DEF Recorded
  <1> QED  BY <1>2, <1>3, <1>4

ZoneInv ==
    /\ cfg \in Configs /\ unheard \in SUBSET Monsters
    /\ Between(zone, {}) /\ Recorded(zone, unheard)

\* The invariant holds at first,
LEMMA ZonesInitInv == ZonesInit => ZoneInv
  <1> SUFFICES ASSUME ZonesInit PROVE ZoneInv
    OBVIOUS
  <1>1. cfg \in Configs /\ Between(zone, {}) /\ Aware(Loaded(cfg), zone)
    BY InitGood
  <1>2. \A m \in Monsters : Loaded(cfg).active[m] = Nothing
    BY DEF Loaded, NoneActive
  <1>3. Recorded(zone, unheard)
    BY <1>1, <1>2 DEF Aware, Recorded
  <1>4. unheard \in SUBSET Monsters
    BY DEF ZonesInit
  <1> QED  BY <1>1, <1>3, <1>4 DEF ZoneInv

\* Of the monsters that are away, nothing is said.
LEMMA BetweenFewer ==
  ASSUME NEW z, NEW W, Between(z, W)
  PROVE  Between(z, {})
  BY DEF Between, Good, Calm

\* What is good of the next zone is good of it in the next state: the table of
\* the zone stays.
LEMMA TableStays ==
  ASSUME cfg' = cfg, Between(zone', {}), Recorded(zone', unheard')
  PROVE  Between(zone, {})' /\ Recorded(zone, unheard)'
  <1>1. Quiet' = Quiet
    BY DEF Quiet, Is
  <1>2. Zoned(zone)' /\ Linked(zone)' /\ Settled(zone)'
    BY DEF Between, Good, Fine, Body, Zoned, SleeperOK, Linked, Settled
  <1>3. Body(zone, Nothing)'
    BY <1>2 DEF Between, Good, Fine, Body
  <1>4. \A e : Guarded(e)' <=> Guarded(e)
    BY DEF Guarded
  <1>5. \A e : (Nowhere(zone, Nothing, e)' <=> Nowhere(zone', Nothing, e))
               /\ (Single(zone, Nothing, e)' <=> Single(zone', Nothing, e))
               /\ (Out(zone, e)' <=> Out(zone', e))
    BY DEF Nowhere, Single, Out, Held
  <1>6. Kept(zone, Nothing, {} \cup DOMAIN zone.list)'
    BY <1>1, <1>4, <1>5 DEF Kept, Between, Good, Fine
  <1>7. Listing(zone, {})'
    BY <1>4 DEF Listing, Between, Good, Fine
  <1>8. Calm(zone, {})' /\ Unpaused(zone)'
    BY <1>1 DEF Calm, Unpaused, Between, Good
  <1>9. Recorded(zone, unheard)'
    BY <1>1 DEF Recorded
  <1> QED  BY <1>2, <1>3, <1>6, <1>7, <1>8, <1>9 DEF Between, Good, Fine

\* every step keeps it,
LEMMA ZonesNextInv == ZoneInv /\ [ZonesNext]_zonesVars => ZoneInv'
  <1> SUFFICES ASSUME ZoneInv, [ZonesNext]_zonesVars PROVE ZoneInv'
    OBVIOUS
  <1>1. CASE UNCHANGED zonesVars
    <2>1. cfg' = cfg /\ zone' = zone /\ unheard' = unheard
      BY <1>1 DEF zonesVars
    <2>2. /\ cfg \in Configs /\ unheard' \in SUBSET Monsters
          /\ Between(zone', {}) /\ Recorded(zone', unheard')
      BY <2>1 DEF ZoneInv
    <2> QED  BY <2>1, <2>2, TableStays DEF ZoneInv
  <1>2. CASE ZonesNext
    <2>1. Clear(zone, {}) /\ cfg \in Configs /\ Between(zone, {})
      BY DEF Clear, ZoneInv
    <2>2. cfg' = cfg /\ Between(zone', {})
      BY <1>2, <2>1, NextGood
    <2>3. unheard' \in SUBSET Monsters /\ Recorded(zone', unheard')
      BY <1>2, <2>1, NextRecorded DEF ZoneInv
    <2> QED  BY <2>1, <2>2, <2>3, TableStays DEF ZoneInv
  <1> QED  BY <1>1, <1>2

\* and so it always holds.
LEMMA ZonesSpecInv == ZonesSpec => []ZoneInv
  BY ZonesInitInv, ZonesNextInv, PTL DEF ZonesSpec

(***************************************************************************)
(* What the invariant says of the places of an entry.                      *)
(***************************************************************************)
LEMMA InvParts ==
  ASSUME ZoneInv
  PROVE  /\ cfg \in Configs /\ Zoned(zone) /\ Settled(zone) /\ zone.placing = Nothing
         /\ Kept(zone, Nothing, DOMAIN zone.list) /\ Listing(zone, {})
         /\ Calm(zone, {}) /\ Unpaused(zone)
  <1>1. {} \cup DOMAIN zone.list = DOMAIN zone.list
    OBVIOUS
  <1> QED  BY <1>1 DEF ZoneInv, Between, Good, Fine, Body

\* The invariant gives the shape of the zone.
LEMMA InvTypes == ZoneInv => ZonesTypeOK
  <1> SUFFICES ASSUME ZoneInv PROVE ZonesTypeOK
    OBVIOUS
  <1>1. cfg \in Configs /\ Zoned(zone) /\ Settled(zone) /\ zone.placing = Nothing
    BY InvParts
  <1>2. zone.run \in {"wait", "fight", "cooldown", "cut", "ended"}
    BY <1>1 DEF Settled, RestingRuns
  <1>3. unheard \subseteq Monsters
    BY DEF ZoneInv
  <1> QED  BY <1>1, <1>2, <1>3 DEF Zoned, ZonesTypeOK

\* The places, one kind at a time.
Copied(e) == {c \in Copies(zone.list) : c[1] = e}
Followers(e) == {m \in Tracked(zone) : zone.active[m] = e}
Sleeping(e) == {c \in Copies(zone.frames) : c[1].entry = e}

\* A pair with a given label.
LEMMA Labelled ==
  ASSUME NEW t, NEW S, NEW x
  PROVE  x \in {t} \X S <=> \E c \in S : x = <<t, c>>
  <1>1. ASSUME NEW c \in S, x = <<t, c>> PROVE x \in {t} \X S
    BY <1>1
  <1>2. ASSUME x \in {t} \X S PROVE \E c \in S : x = <<t, c>>
    <2>1. PICK u \in {t}, c \in S : x = <<u, c>>
      BY <1>2
    <2> QED  BY <2>1
  <1> QED  BY <1>1, <1>2

\* A place is a copy in the list, a creature, or a sleeping frame.
LEMMA PlacesParts ==
  ASSUME NEW e, NEW x
  PROVE  x \in Places(e) <=>
             \/ \E c \in Copied(e) : x = <<"list", c>>
             \/ \E m \in Followers(e) : x = <<"creature", m>>
             \/ \E c \in Sleeping(e) : x = <<"frame", c>>
  <1>1. Listings(e) = {"list"} \X Copied(e)
    BY DEF Listings, Copied
  <1>2. Creatures(e) = {"creature"} \X Followers(e)
    BY DEF Creatures, Followers
  <1>3. Sleepers(e) = {"frame"} \X Sleeping(e)
    BY DEF Sleepers, Sleeping
  <1>4. x \in Listings(e) <=> \E c \in Copied(e) : x = <<"list", c>>
    BY <1>1, Labelled
  <1>5. x \in Creatures(e) <=> \E m \in Followers(e) : x = <<"creature", m>>
    BY <1>2, Labelled
  <1>6. x \in Sleepers(e) <=> \E c \in Sleeping(e) : x = <<"frame", c>>
    BY <1>3, Labelled
  <1>7. x \in Places(e) <=> x \in Listings(e) \/ x \in Creatures(e) \/ x \in Sleepers(e)
    BY DEF Places
  <1> QED  BY <1>4, <1>5, <1>6, <1>7

\* No entry is in two places.
LEMMA InvTwice == ZoneInv => NoneTwice
  <1> SUFFICES ASSUME ZoneInv, NEW e \in Entries, Guarded(e),
                      NEW here \in Places(e), NEW there \in Places(e)
               PROVE  here = there
    BY DEF NoneTwice, Guarded
  <1>1. /\ IsBag(zone.list, Entries) /\ IsBag(zone.frames, Frames)
        /\ Kept(zone, Nothing, DOMAIN zone.list) /\ Listing(zone, {})
    BY InvParts DEF Zoned
  <1>2. /\ \A c \in Copies(zone.list) :
             c[1] \in DOMAIN zone.list /\ (zone.list[c[1]] = 1 => c = <<c[1], 1>>)
        /\ \A c \in Copies(zone.frames) :
             c[1] \in DOMAIN zone.frames /\ (zone.frames[c[1]] = 1 => c = <<c[1], 1>>)
    BY <1>1, CopiesLemma
  <1>3. CASE e \in DOMAIN zone.list
    <2>1. Nowhere(zone, Nothing, e) /\ zone.list[e] = 1
      BY <1>1, <1>3 DEF Kept, Listing
    <2>2. Followers(e) = {} /\ Sleeping(e) = {}
      BY <1>2, <2>1 DEF Followers, Sleeping, Nowhere, Held, Tracked
    <2>3. \A c \in Copied(e) : c = <<e, 1>>
      BY <1>2, <2>1 DEF Copied
    <2> QED  BY <2>2, <2>3, PlacesParts
  <1>4. CASE e \notin DOMAIN zone.list
    <2>1. Single(zone, Nothing, e)
      BY <1>1, <1>4 DEF Kept
    <2>2. Copied(e) = {}
      BY <1>2, <1>4 DEF Copied
    <2>3. \A m, n \in Followers(e) : m = n
      BY <2>1 DEF Single, Held, Followers, Tracked
    <2>4. \A c, d \in Sleeping(e) : c = d
      BY <1>2, <2>1 DEF Single, Sleeping
    <2>5. \A c \in Sleeping(e), m \in Followers(e) : FALSE
      BY <1>2, <2>1 DEF Single, Held, Sleeping, Followers, Tracked
    <2> QED  BY <2>2, <2>3, <2>4, <2>5, PlacesParts
  <1> QED  BY <1>3, <1>4

\* A quiet zone loses an entry only with a creature of the record.
LEMMA InvLost == ZoneInv => NoneLost
  <1> SUFFICES ASSUME ZoneInv, Quiet, NEW e \in Entries
               PROVE  \/ Listings(e) \cup Sleepers(e) # {}
                      \/ \E m \in Monsters : zone.active[m] = e /\ zone.world[m] # Nothing
                      \/ \E m \in unheard : zone.active[m] = e
    BY DEF NoneLost, ComesBack
  <1>1. /\ IsBag(zone.list, Entries) /\ IsBag(zone.frames, Frames)
        /\ Kept(zone, Nothing, DOMAIN zone.list)
    BY InvParts DEF Zoned
  <1>2. Guarded(e)
    BY DEF Quiet, Is, Guarded
  <1>3. CASE e \in DOMAIN zone.list
    <2>1. <<e, 1>> \in Copies(zone.list)
      BY <1>1, <1>3, CopiesLemma
    <2>2. <<e, 1>> \in Copied(e)
      BY <2>1 DEF Copied
    <2>3. <<"list", <<e, 1>>>> \in Listings(e)
      BY <2>2 DEF Listings, Copied
    <2> QED  BY <2>3
  <1>4. CASE e \notin DOMAIN zone.list
    <2>1. Out(zone, e)
      BY <1>1, <1>2, <1>4 DEF Kept
    <2>2. CASE \E f \in DOMAIN zone.frames : f.entry = e
      <3>1. PICK f \in DOMAIN zone.frames : f.entry = e
        BY <2>2
      <3>2. PICK c : c = <<f, 1>>
        OBVIOUS
      <3>3. c \in Copies(zone.frames) /\ c[1] = f
        BY <1>1, <3>2, CopiesLemma
      <3>4. c \in Sleeping(e)
        BY <3>1, <3>3 DEF Sleeping
      <3>5. <<"frame", c>> \in Sleepers(e)
        BY <3>4 DEF Sleepers, Sleeping
      <3> QED  BY <3>5
    <2>3. CASE \E m \in Monsters : zone.active[m] = e
      <3>1. PICK m \in Monsters : zone.active[m] = e
        BY <2>3
      <3>2. zone.world[m] # Nothing \/ m \in unheard
        BY <3>1, ZonesAssumption DEF ZoneInv, Recorded
      <3> QED  BY <3>1, <3>2
    <2> QED  BY <2>1, <2>2, <2>3 DEF Out
  <1> QED  BY <1>3, <1>4

\* The three together.
LEMMA InvKept == ZoneInv => EntriesKept
  <1>1. ZoneInv => NoneHeldBack
    BY InvParts DEF NoneHeldBack, Calm, Unpaused
  <1> QED  BY <1>1, InvTypes, InvTwice, InvLost DEF EntriesKept

\* Two living masters stand for one entry, which is in one place.
LEMMA InvOneMaster == ZoneInv => OneMaster
  <1> SUFFICES ASSUME ZoneInv,
                      NEW m \in Monsters, zone.world[m] # Nothing, cfg.role[zone.world[m]] = "master",
                      NEW n \in Monsters, zone.world[n] # Nothing, cfg.role[zone.world[n]] = "master"
               PROVE  m = n
    BY DEF OneMaster
  <1>1. cfg \in Configs /\ Zoned(zone) /\ Kept(zone, Nothing, DOMAIN zone.list)
    BY InvParts
  <1>2. zone.world[m] \in Entries /\ zone.world[n] \in Entries
    BY <1>1 DEF Zoned
  <1>a. PICK e \in Entries : e = zone.world[m]
    BY <1>2
  <1>3. zone.world[n] = e /\ cfg.role[e] = "master"
    BY <1>1, <1>2, <1>a, OneMasterEntry
  <1>4. Held(zone, Nothing, e, m) /\ Held(zone, Nothing, e, n) /\ Guarded(e)
    BY <1>3, <1>a, ZonesAssumption DEF Held, Guarded
  <1> QED  BY <1>1, <1>4 DEF Kept, Nowhere, Single

\* A monster that is new in the world was away when the step began.
LEMMA InvQuiet ==
  ASSUME ZoneInv, ZonesNext, Quiet, ~cfg.forced,
         NEW m \in Monsters, zone.world[m] = Nothing, zone'.world[m] # Nothing
  PROVE  zone'.players = {}
  <1>a. PICK W : W = {n \in Monsters : zone.world[n] = Nothing}
    OBVIOUS
  <1>1. cfg \in Configs /\ Clear(zone, W)
    BY <1>a DEF ZoneInv, Clear
  <1>2. Between(zone, W)
    BY <1>a DEF ZoneInv, Between, Good, Calm
  <1>3. Between(zone', W)
    BY <1>1, <1>2, NextGood
  <1> QED  BY <1>3, <1>a DEF Between, Good, Calm

\* The entries of a zone are shared out among its list, its creatures and its
\* sleeping frames: none is in two places; a passive fixed zone loses none but with
\* a creature whose end it was not told of (Creature::onDeath and removeCreature
\* tell the zone of the tile it ends on), and keeps none back while it tracks no
\* player; for every table a zone may have.
THEOREM ZonesEntriesKept == ZonesSpec => []EntriesKept
  BY ZonesSpecInv, InvKept, PTL

\* There is one living boss at a time, however fights end, minions come late, or
\* timers outlive their fight (HandleMasterDeath, the Run frame of the boss zones).
THEOREM ZonesOneMaster == ZonesSpec => []OneMaster
  BY ZonesSpecInv, InvOneMaster, PTL

\* A passive fixed zone that is not forced places nothing while it tracks a player,
\* whenever the frame that would place it went to sleep.
THEOREM ZonesQuietWhileWatched == ZonesSpec => QuietWhileWatched
  <1> DEFINE A == Quiet /\ ~cfg.forced
                    /\ (\E m \in Monsters : zone.world[m] = Nothing /\ zone'.world[m] # Nothing)
                  => zone'.players = {}
  <1>1. ZoneInv /\ [ZonesNext]_zonesVars => [A]_zonesVars
    BY InvQuiet
  <1>2. QuietWhileWatched <=> [][A]_zonesVars
    BY DEF QuietWhileWatched
  <1> HIDE DEF A
  <1> QED  BY <1>1, <1>2, ZonesSpecInv, PTL DEF ZonesSpec
=============================================================================
