--------------------------- MODULE SharedHand_proofs ---------------------------
(***************************************************************************)
(* Theorems about SharedHand, for any number of peers and Controllers, any *)
(* capacity and any stream of commands: the hand keeps its types and its   *)
(* bound, the possessed creature stays out of it, peers stay in step, and  *)
(* what is held belongs to someone who asked for it.                       *)
(***************************************************************************)
EXTENDS SharedHand, SequenceTheorems, FiniteSetTheorems, LeastElement_proofs

USE NoOneAssumption, NothingAssumption, CapacityAssumption, PeerAssumption,
    MaxAheadAssumption

-----------------------------------------------------------------------------
(* What a world is that the hooks can be in *)

\* Nothing is held twice, and no more than the stack has room for.
GoodHand(h) ==
  /\ h \in Seq(Thing)
  /\ Len(h) <= Capacity
  /\ \A i, j \in DOMAIN h : h[i] = h[j] => i = j

GoodSave(s) ==
  /\ s \in Save
  /\ GoodHand(s.hand)
  /\ DOMAIN s.slots = DOMAIN s.hand
  /\ s.possessed \notin Held(s.hand)

GoodWorld(w) ==
  /\ w \in World
  /\ GoodHand(w.hand)
  /\ w.possessed \notin Held(w.hand)
  /\ GoodSave(w.saved)

LEMMA ActionTypes ==
  /\ Idle \in Actions
  /\ \A x \in Thing, o \in Origin : Take(x, o) \in Actions
  /\ \A o \in Origin, b \in BOOLEAN : Drop(o, b) \in Actions
BY DEF Actions

LEMMA ActionCases ==
  ASSUME NEW a \in Actions
  PROVE  \/ a.kind = "idle" /\ a = Idle
         \/ a.kind = "take" /\ a.target \in Thing /\ a.who \in Origin
         \/ a.kind = "drop" /\ a.who \in Origin /\ a.allowed \in BOOLEAN
BY DEF Actions, Idle, Take, Drop

LEMMA SlotsType ==
  ASSUME NEW w, w.hand \in Seq(Thing), w.owner \in [Thing -> Origin]
  PROVE  Slots(w) \in Seq(Origin) /\ DOMAIN Slots(w) = DOMAIN w.hand
<1>1. \A i \in 1..Len(w.hand) : w.owner[w.hand[i]] \in Origin
  OBVIOUS
<1> QED
  BY <1>1 DEF Slots

LEMMA SavedGood ==
  ASSUME NEW w, GoodWorld(w)
  PROVE  GoodSave(Saved(w))
<1>1. Slots(w) \in Seq(Origin) /\ DOMAIN Slots(w) = DOMAIN w.hand
  BY SlotsType DEF GoodWorld, World
<1> QED
  BY <1>1 DEF GoodWorld, GoodSave, World, Save, Saved

LEMMA EmptyFields ==
  /\ Empty.hand = << >> /\ Empty.owner = [x \in Thing |-> NoOne]
  /\ Empty.action = Idle /\ Empty.possessed = Nothing
BY DEF Empty

LEMMA FreshGood == GoodWorld(Fresh)
<1>1. GoodHand(<< >>)
  BY DEF GoodHand
<1>2. [x \in Thing |-> NoOne] \in [Thing -> Origin]
  BY DEF Origin
<1>3. Held(<< >>) = {}
  BY DEF Held
<1>4. GoodSave(Saved(Empty))
  <2>1. PICK e : e = Empty
    OBVIOUS
  <2>2. e.hand \in Seq(Thing) /\ e.owner \in [Thing -> Origin]
    BY <1>1, <1>2, <2>1, EmptyFields DEF GoodHand
  <2>3. Slots(Empty) \in Seq(Origin) /\ DOMAIN Slots(Empty) = DOMAIN << >>
    BY <2>1, <2>2, EmptyFields, SlotsType
  <2> QED
    BY <1>1, <1>3, <2>3, EmptyFields, ActionTypes DEF GoodSave, Save, Saved
<1> QED
  BY <1>1, <1>2, <1>3, <1>4, ActionTypes DEF GoodWorld, World, Fresh, GoodSave

-----------------------------------------------------------------------------
(* Picking up *)

LEMMA AppendGood ==
  ASSUME NEW h, GoodHand(h), NEW x \in Thing, x \notin Held(h), Len(h) < Capacity
  PROVE  GoodHand(Append(h, x)) /\ Held(Append(h, x)) = Held(h) \cup {x}
<1>1. h \in Seq(Thing) /\ Len(h) \in Nat /\ DOMAIN h = 1..Len(h)
  BY LenProperties DEF GoodHand
<1>2. /\ Append(h, x) \in Seq(Thing)
      /\ Len(Append(h, x)) = Len(h) + 1
      /\ \A i \in 1..Len(h) : Append(h, x)[i] = h[i]
      /\ Append(h, x)[Len(h) + 1] = x
  BY <1>1, AppendProperties
<1>3. DOMAIN Append(h, x) = 1..(Len(h) + 1)
  BY <1>2, LenProperties
<1>4. \A i \in 1..Len(h) : h[i] # x
  BY <1>1 DEF Held
<1>5. Held(Append(h, x)) = Held(h) \cup {x}
  BY <1>1, <1>2, <1>3 DEF Held
<1>6. ASSUME NEW i \in 1..(Len(h) + 1), NEW j \in 1..(Len(h) + 1),
             Append(h, x)[i] = Append(h, x)[j]
      PROVE  i = j
  <2>1. i \in 1..Len(h) \/ i = Len(h) + 1
    BY <1>1
  <2>2. j \in 1..Len(h) \/ j = Len(h) + 1
    BY <1>1
  <2> QED
    BY <1>1, <1>2, <1>4, <1>6, <2>1, <2>2 DEF GoodHand
<1> QED
  BY <1>1, <1>2, <1>3, <1>5, <1>6 DEF GoodHand

LEMMA OriginType ==
  ASSUME NEW w, GoodWorld(w), NEW x \in Thing, NEW o \in Origin
  PROVE  CompletingOrigin(w.action, x, o) \in Origin
BY ActionCases DEF GoodWorld, World, CompletingOrigin

LEMMA TakeThingGood ==
  ASSUME NEW w, GoodWorld(w), NEW x \in Thing, NEW o \in Origin
  PROVE  GoodWorld(TakeThing(w, x, o))
<1>1. CASE ~ Blocked(w, x) /\ Fits(w, x)
  <2>1. PICK e \in Origin : e = CompletingOrigin(w.action, x, o)
    BY OriginType
  <2>2. TakeThing(w, x, o) =
          [w EXCEPT !.hand = Append(w.hand, x), !.owner = [w.owner EXCEPT ![x] = e]]
    BY <1>1, <2>1 DEF TakeThing, Owned, GoodWorld, World
  <2>3. GoodHand(Append(w.hand, x)) /\ Held(Append(w.hand, x)) = Held(w.hand) \cup {x}
    BY <1>1, AppendGood DEF Fits, GoodWorld
  <2>4. [w.owner EXCEPT ![x] = e] \in [Thing -> Origin]
    BY DEF GoodWorld, World
  <2> QED
    BY <1>1, <2>2, <2>3, <2>4 DEF GoodWorld, World, Blocked, GoodHand
<1>2. CASE ~ (~ Blocked(w, x) /\ Fits(w, x))
  BY <1>2 DEF TakeThing
<1> QED
  BY <1>1, <1>2

-----------------------------------------------------------------------------
(* Dropping *)

LEMMA DropIndexIs ==
  ASSUME NEW w, GoodWorld(w), NEW o \in Origin
  PROVE  DropIndex(w, o) \in 0..Len(w.hand)
<1>1. Len(w.hand) \in Nat /\ DOMAIN w.hand = 1..Len(w.hand)
  BY LenProperties DEF GoodWorld, GoodHand
<1>2. CASE o = NoOne
  BY <1>1, <1>2 DEF DropIndex
<1>3. CASE o # NoOne /\ Visible(w, o) = {}
  BY <1>1, <1>3 DEF DropIndex, Latest
<1>4. CASE o # NoOne /\ Visible(w, o) # {}
  <2>1. Visible(w, o) \in SUBSET (0..Len(w.hand))
    BY <1>1 DEF Visible
  <2>2. \E i \in Visible(w, o) : \A j \in Visible(w, o) : j <= i
    BY <1>1, <1>4, <2>1, GreatestElement
  <2>3. Latest(w, o) \in Visible(w, o)
    BY <1>4, <2>2 DEF Latest
  <2> QED
    BY <1>4, <2>1, <2>3 DEF DropIndex
<1> QED
  BY <1>2, <1>3, <1>4

\* Promoting an entry and popping the top takes out that entry and keeps the
\* order of the others.
Without(h, i) == [k \in 1..(Len(h) - 1) |-> IF k < i THEN h[k] ELSE h[k + 1]]

LEMMA PromotedAndPopped ==
  ASSUME NEW h, GoodHand(h), NEW i \in 1..Len(h)
  PROVE  /\ SubSeq(Promote(h, i), 1, Len(h) - 1) = Without(h, i)
         /\ GoodHand(Without(h, i))
         /\ Held(Without(h, i)) = Held(h) \ {h[i]}
<1>1. h \in Seq(Thing) /\ Len(h) \in Nat /\ DOMAIN h = 1..Len(h)
  BY LenProperties DEF GoodHand
<1>2. \A k \in 1..Len(h) : h[k] \in Thing
  BY <1>1
<1>3. Promote(h, i) \in Seq(Thing) /\ Len(Promote(h, i)) = Len(h)
  BY <1>1, <1>2 DEF Promote
<1>4. Without(h, i) \in Seq(Thing) /\ Len(Without(h, i)) = Len(h) - 1
  BY <1>1, <1>2 DEF Without
<1>5. SubSeq(Promote(h, i), 1, Len(h) - 1) = Without(h, i)
  <2>1. \A k \in 1..(Len(h) - 1) : Promote(h, i)[k] = Without(h, i)[k]
    BY <1>1 DEF Promote, Without
  <2>2. PICK q : q = Promote(h, i)
    OBVIOUS
  <2>3. /\ SubSeq(q, 1, Len(h) - 1) \in Seq(Thing)
        /\ Len(SubSeq(q, 1, Len(h) - 1)) = Len(h) - 1
        /\ \A k \in 1..(Len(h) - 1) : SubSeq(q, 1, Len(h) - 1)[k] = q[k]
    BY <1>1, <1>3, <2>2
  <2> QED
    BY <1>4, <2>1, <2>2, <2>3, SeqEqual
<1>6. \A k, l \in 1..(Len(h) - 1) : Without(h, i)[k] = Without(h, i)[l] => k = l
  BY <1>1 DEF Without, GoodHand
<1>7. GoodHand(Without(h, i))
  BY <1>1, <1>4, <1>6 DEF GoodHand
<1>8. Held(Without(h, i)) = Held(h) \ {h[i]}
  <2>1. ASSUME NEW k \in 1..(Len(h) - 1) PROVE Without(h, i)[k] \in Held(h) \ {h[i]}
    BY <1>1 DEF Without, Held, GoodHand
  <2>2. ASSUME NEW k \in 1..Len(h), k # i
        PROVE  \E l \in 1..(Len(h) - 1) : Without(h, i)[l] = h[k]
    <3>1. CASE k < i
      BY <1>1, <3>1 DEF Without
    <3>2. CASE k > i
      <4>1. k - 1 \in 1..(Len(h) - 1) /\ ~(k - 1 < i) /\ (k - 1) + 1 = k
        BY <1>1, <3>2
      <4>2. Without(h, i)[k - 1] = h[k]
        BY <1>1, <4>1 DEF Without
      <4> QED
        BY <4>1, <4>2
    <3> QED
      BY <1>1, <2>2, <3>1, <3>2
  <2>3. DOMAIN Without(h, i) = 1..(Len(h) - 1)
    BY DEF Without
  <2>4. PICK u : u = Without(h, i)
    OBVIOUS
  <2>5. \A k \in DOMAIN u : u[k] \in Held(h) \ {h[i]}
    BY <2>1, <2>3, <2>4
  <2>6. \A k \in DOMAIN h : k # i => \E l \in DOMAIN u : u[l] = h[k]
    BY <1>1, <2>2, <2>3, <2>4
  <2>7. Held(u) \subseteq Held(h) \ {h[i]}
    BY <2>5 DEF Held
  <2>8. Held(h) \ {h[i]} \subseteq Held(u)
    BY <2>6 DEF Held
  <2> QED
    BY <2>4, <2>7, <2>8
<1> QED
  BY <1>5, <1>7, <1>8

LEMMA DropThingGood ==
  ASSUME NEW w, GoodWorld(w), NEW o \in Origin, NEW b \in BOOLEAN
  PROVE  GoodWorld(DropThing(w, o, b))
<1>1. PICK i \in 0..Len(w.hand) : i = DropIndex(w, o)
  BY DropIndexIs
<1>2. CASE i = 0 \/ ~ b
  BY <1>1, <1>2 DEF DropThing
<1>3. CASE ~(i = 0 \/ ~ b)
  <2>1. GoodHand(w.hand) /\ i \in 1..Len(w.hand)
    BY <1>3 DEF GoodWorld
  <2>2. DropThing(w, o, b) = [w EXCEPT !.hand = Without(w.hand, i)]
    BY <1>1, <1>3, <2>1, PromotedAndPopped DEF DropThing
  <2>3. PICK h : h = Without(w.hand, i)
    OBVIOUS
  <2>4. GoodHand(h) /\ Held(h) \subseteq Held(w.hand)
    BY <2>1, <2>3, PromotedAndPopped
  <2> QED
    BY <2>2, <2>3, <2>4 DEF GoodWorld, World, GoodHand
<1> QED
  BY <1>2, <1>3

-----------------------------------------------------------------------------
(* Actions, saves and commands *)

\* Only the hand and the owners change while an action ends.
LEMMA EndedGood ==
  ASSUME NEW w, GoodWorld(w)
  PROVE  GoodWorld(Ended(w)) /\ Ended(w).action = Idle
<1>1. PICK v : v = IF w.action.kind = "take" THEN TakeThing(w, w.action.target, NoOne)
                   ELSE IF w.action.kind = "drop"
                        THEN DropThing(w, w.action.who, w.action.allowed)
                   ELSE w
  OBVIOUS
<1>2. GoodWorld(v)
  <2>1. CASE w.action.kind = "take"
    <3>1. w.action.target \in Thing /\ NoOne \in Origin
      BY <2>1, ActionCases DEF GoodWorld, World, Idle, Origin
    <3> QED
      BY <1>1, <2>1, <3>1, TakeThingGood
  <2>2. CASE w.action.kind = "drop"
    <3>1. w.action.who \in Origin /\ w.action.allowed \in BOOLEAN
      BY <2>2, ActionCases DEF GoodWorld, World, Idle
    <3> QED
      BY <1>1, <2>2, <3>1, DropThingGood
  <2> QED
    BY <1>1, <2>1, <2>2
<1>3. Ended(w) = [v EXCEPT !.action = Idle]
  BY <1>1 DEF Ended
<1> QED
  BY <1>2, <1>3, ActionTypes DEF GoodWorld, World

LEMMA StartedGood ==
  ASSUME NEW w, GoodWorld(w), NEW a \in Actions, NEW b \in BOOLEAN
  PROVE  GoodWorld(Started(w, a, b))
<1>1. PICK v : v = IF b THEN Ended(w) ELSE w
  OBVIOUS
<1>2. GoodWorld(v)
  BY <1>1, EndedGood
<1>3. Started(w, a, b) = [v EXCEPT !.action = a]
  BY <1>1 DEF Started
<1> QED
  BY <1>2, <1>3 DEF GoodWorld, World

LEMMA PickedGood ==
  ASSUME NEW w, GoodWorld(w), NEW x \in Thing, NEW o \in Origin, NEW b \in BOOLEAN
  PROVE  GoodWorld(Picked(w, x, o, b))
BY ActionTypes, StartedGood DEF Picked

LEMMA PlaceIs ==
  ASSUME NEW h, NEW x \in Held(h)
  PROVE  Place(h, x) \in DOMAIN h /\ h[Place(h, x)] = x
BY DEF Held, Place

LEMMA RestoredGood ==
  ASSUME NEW w, GoodWorld(w)
  PROVE  /\ GoodWorld(Restored(w))
         /\ Restored(w).saved = w.saved
         /\ Saved(Restored(w)) = w.saved
<1>1. PICK s : s = w.saved
  OBVIOUS
<1>2. PICK f : f = [x \in Thing |-> IF x \in Held(s.hand) THEN s.slots[Place(s.hand, x)]
                                    ELSE w.owner[x]]
  OBVIOUS
<1>3. /\ GoodHand(s.hand) /\ s.slots \in Seq(Origin) /\ DOMAIN s.slots = DOMAIN s.hand
      /\ s \in Save /\ s.possessed \notin Held(s.hand)
  BY <1>1 DEF GoodWorld, GoodSave, Save
<1>4. f \in [Thing -> Origin]
  <2>1. ASSUME NEW x \in Thing PROVE f[x] \in Origin
    <3>1. CASE x \in Held(s.hand)
      <4>1. Place(s.hand, x) \in DOMAIN s.slots
        BY <1>3, <3>1, PlaceIs
      <4>2. s.slots[Place(s.hand, x)] \in Origin
        BY <1>3, <4>1
      <4> QED
        BY <1>2, <3>1, <4>2
    <3>2. CASE x \notin Held(s.hand)
      BY <1>2, <3>2 DEF GoodWorld, World
    <3> QED
      BY <3>1, <3>2
  <2> QED
    BY <1>2, <2>1
<1>5. PICK r : r = Restored(w)
  OBVIOUS
<1>6. /\ r = [w EXCEPT !.hand = s.hand, !.action = s.action, !.possessed = s.possessed,
                      !.owner = f]
  BY <1>1, <1>2, <1>5 DEF Restored
<1>7. /\ r.hand = s.hand /\ r.action = s.action /\ r.possessed = s.possessed
      /\ r.owner = f /\ r.saved = s
      /\ r \in World
  BY <1>1, <1>3, <1>4, <1>6 DEF GoodWorld, World, Save
<1>8. GoodWorld(r)
  BY <1>1, <1>3, <1>7 DEF GoodWorld
<1>9. ASSUME NEW i \in DOMAIN s.hand PROVE f[s.hand[i]] = s.slots[i]
  <2>1. s.hand[i] \in Thing /\ s.hand[i] \in Held(s.hand)
    BY <1>3 DEF GoodHand, Held
  <2>2. Place(s.hand, s.hand[i]) = i
    BY <1>3, <2>1, PlaceIs DEF GoodHand
  <2> QED
    BY <1>2, <2>1, <2>2
<1>10. Slots(r) = s.slots
  <2>1. \A i \in DOMAIN s.hand : Slots(r)[i] = s.slots[i]
    BY <1>7, <1>9 DEF Slots
  <2>2. DOMAIN Slots(r) = DOMAIN s.hand
    BY <1>7 DEF Slots
  <2>3. Slots(r) \in Seq(Origin)
    BY <1>7, SlotsType DEF World
  <2>4. Len(Slots(r)) = Len(s.slots)
    BY <1>3, <2>2, <2>3, LenProperties
  <2> QED
    BY <1>3, <2>1, <2>2, <2>3, <2>4, SeqEqual, LenProperties
<1>11. Saved(r) = s
  <2>1. Saved(r) = [hand |-> s.hand, slots |-> s.slots, action |-> s.action,
                    possessed |-> s.possessed]
    BY <1>7, <1>10 DEF Saved
  <2> QED
    BY <1>3, <2>1 DEF Save
<1> QED
  BY <1>1, <1>5, <1>7, <1>8, <1>11

LEMMA CommandCases ==
  ASSUME NEW c \in Command
  PROVE  \/ /\ c.kind = "pickup" /\ c.who \in Controller /\ c.first \in Thing
            /\ c.completes \in BOOLEAN
         \/ /\ c.kind = "batch" /\ c.who \in Controller /\ c.first \in Thing
            /\ c.second \in Thing
         \/ /\ c.kind = "drop" /\ c.who \in Origin /\ c.completes \in BOOLEAN
            /\ c.allowed \in BOOLEAN
         \/ c.kind = "script" /\ c.first \in Thing
         \/ c.kind = "possess" /\ c.first \in Thing
         \/ c.kind \in {"end", "release", "save", "resync"}
BY DEF Command, Pickups, Batches, Drops, Scripted, Ticks

LEMMA AppliedGood ==
  ASSUME NEW w, GoodWorld(w), NEW c \in Command
  PROVE  GoodWorld(Applied(w, c))
<1>0. Controller \subseteq Origin /\ NoOne \in Origin
  BY DEF Origin
<1>1. CASE c.kind = "pickup"
  <2>1. c.who \in Controller /\ c.first \in Thing /\ c.completes \in BOOLEAN
    BY <1>1, CommandCases
  <2>2. Applied(w, c) = Picked(w, c.first, c.who, c.completes)
    BY <1>1 DEF Applied
  <2> QED
    BY <1>0, <2>1, <2>2, PickedGood
<1>2. CASE c.kind = "batch"
  <2>1. c.who \in Origin /\ c.first \in Thing /\ c.second \in Thing
    BY <1>0, <1>2, CommandCases
  <2>2. Applied(w, c) = TakeThing(TakeThing(w, c.first, c.who), c.second, c.who)
    BY <1>2 DEF Applied
  <2>3. PICK v : v = TakeThing(w, c.first, c.who)
    OBVIOUS
  <2>4. GoodWorld(v)
    BY <2>1, <2>3, TakeThingGood
  <2>5. GoodWorld(TakeThing(v, c.second, c.who))
    BY <2>1, <2>4, TakeThingGood
  <2> QED
    BY <2>2, <2>3, <2>5
<1>3. CASE c.kind = "drop"
  <2>1. Drop(c.who, c.allowed) \in Actions /\ c.completes \in BOOLEAN
    BY <1>3, CommandCases, ActionTypes
  <2>2. Applied(w, c) = Started(w, Drop(c.who, c.allowed), c.completes)
    BY <1>3 DEF Applied
  <2> QED
    BY <2>1, <2>2, StartedGood
<1>4. CASE c.kind = "script"
  <2>1. c.first \in Thing
    BY <1>4, CommandCases
  <2>2. Applied(w, c) = TakeThing(w, c.first, NoOne)
    BY <1>4 DEF Applied
  <2> QED
    BY <1>0, <2>1, <2>2, TakeThingGood
<1>5. CASE c.kind = "possess"
  <2>1. c.first \in Thing
    BY <1>5, CommandCases
  <2>2. Applied(w, c) = Possessing(w, c.first)
    BY <1>5 DEF Applied
  <2> QED
    BY <2>1, <2>2 DEF Possessing, GoodWorld, World
<1>6. CASE c.kind = "end"
  BY <1>6, EndedGood DEF Applied
<1>7. CASE c.kind = "release"
  <2>1. Applied(w, c) = [w EXCEPT !.possessed = Nothing]
    BY <1>7 DEF Applied
  <2>2. Nothing \notin Held(w.hand)
    BY DEF GoodWorld, GoodHand, Held
  <2> QED
    BY <2>1, <2>2 DEF GoodWorld, World
<1>8. CASE c.kind = "save"
  <2>1. PICK s : s = Saved(w)
    OBVIOUS
  <2>2. Applied(w, c) = [w EXCEPT !.saved = s]
    BY <1>8, <2>1 DEF Applied
  <2>3. GoodSave(s)
    BY <2>1, SavedGood
  <2>4. s \in Save
    BY <2>3 DEF GoodSave
  <2> QED
    BY <2>2, <2>3, <2>4 DEF GoodWorld, World
<1>9. CASE c.kind = "resync"
  BY <1>9, RestoredGood DEF Applied
<1> QED
  BY <1>1, <1>2, <1>3, <1>4, <1>5, <1>6, <1>7, <1>8, <1>9, CommandCases

-----------------------------------------------------------------------------
(* Types *)

Shape ==
  /\ stream \in Seq(Command)
  /\ at \in [Peer -> Nat]
  /\ world \in [Peer -> World]
  /\ ideal \in Seq(World)
  /\ Len(ideal) = Len(stream) + 1
  /\ diverged \subseteq Peer
  /\ unsound \subseteq Peer
  /\ asked \subseteq Controller \X Thing
  /\ \A p \in Peer : at[p] <= Len(stream) /\ GoodWorld(world[p])
  /\ \A i \in 1..Len(ideal) : GoodWorld(ideal[i])

\* Forgetting what every peer has applied moves all places along with it.
On(p) == [at EXCEPT ![p] = @ + 1]

LEMMA Trimmed ==
  ASSUME Shape, NEW p \in Peer, Apply(p)
  PROVE  /\ stream' \in Seq(Command) /\ ideal' \in Seq(World) /\ at' \in [Peer -> Nat]
         /\ Len(ideal') = Len(stream') + 1
         /\ \A q \in Peer : /\ at'[q] <= Len(stream')
                            /\ ideal'[at'[q] + 1] = ideal[On(p)[q] + 1]
                            /\ On(p)[q] <= Len(stream)
         /\ \A i \in 1..Len(stream') : \E j \in 1..Len(stream) :
              /\ stream'[i] = stream[j]
              /\ ideal'[i] = ideal[j] /\ ideal'[i + 1] = ideal[j + 1]
         /\ \A i \in 1..Len(ideal') : \E j \in 1..Len(ideal) : ideal'[i] = ideal[j]
         /\ \A q, r \in Peer : at'[q] = at'[r] => On(p)[q] = On(p)[r]
<1>1. /\ On(p) \in [Peer -> Nat]
      /\ \A q \in Peer : On(p)[q] <= Len(stream)
      /\ Len(stream) \in Nat /\ Len(stream) > 0
  BY LenProperties DEF Shape, Apply, On
<1>2. CASE \A q \in Peer : On(p)[q] > 0
  <2>1. /\ stream' = Tail(stream) /\ ideal' = Tail(ideal)
        /\ at' = [q \in Peer |-> On(p)[q] - 1]
    BY <1>2 DEF Apply, On
  <2>2. /\ Tail(stream) \in Seq(Command) /\ Len(Tail(stream)) = Len(stream) - 1
        /\ \A i \in 1..(Len(stream) - 1) : Tail(stream)[i] = stream[i + 1]
    BY <1>1, HeadTailProperties DEF Shape
  <2>3. /\ Tail(ideal) \in Seq(World) /\ Len(Tail(ideal)) = Len(stream)
        /\ \A i \in 1..Len(stream) : Tail(ideal)[i] = ideal[i + 1]
    BY <1>1, HeadTailProperties DEF Shape
  <2>4. at' \in [Peer -> Nat] /\ \A q \in Peer : at'[q] = On(p)[q] - 1
    BY <1>1, <1>2, <2>1
  <2>5. ASSUME NEW q \in Peer
        PROVE  /\ at'[q] <= Len(stream')
               /\ ideal'[at'[q] + 1] = ideal[On(p)[q] + 1]
    <3>1. On(p)[q] \in 1..Len(stream) /\ at'[q] + 1 = On(p)[q]
      BY <1>1, <1>2, <2>4
    <3> QED
      BY <1>1, <2>1, <2>2, <2>3, <3>1
  <2>6. ASSUME NEW i \in 1..Len(stream')
        PROVE  \E j \in 1..Len(stream) :
                 /\ stream'[i] = stream[j]
                 /\ ideal'[i] = ideal[j] /\ ideal'[i + 1] = ideal[j + 1]
    <3>1. i + 1 \in 1..Len(stream) /\ i \in 1..(Len(stream) - 1)
      BY <1>1, <2>1, <2>2
    <3>2. /\ stream'[i] = stream[i + 1]
          /\ ideal'[i] = ideal[i + 1] /\ ideal'[i + 1] = ideal[(i + 1) + 1]
      BY <1>1, <2>1, <2>2, <2>3, <3>1
    <3> QED
      BY <3>1, <3>2
  <2>7. ASSUME NEW i \in 1..Len(ideal')
        PROVE  \E j \in 1..Len(ideal) : ideal'[i] = ideal[j]
    <3>1. i + 1 \in 1..Len(ideal) /\ ideal'[i] = ideal[i + 1]
      BY <1>1, <2>1, <2>3 DEF Shape
    <3> QED
      BY <3>1
  <2>8. \A q, r \in Peer : at'[q] = at'[r] => On(p)[q] = On(p)[r]
    BY <1>1, <2>4
  <2>9. /\ stream' \in Seq(Command) /\ ideal' \in Seq(World)
        /\ Len(ideal') = Len(stream') + 1
    BY <1>1, <2>1, <2>2, <2>3
  <2>10. \A q \in Peer : /\ at'[q] <= Len(stream')
                         /\ ideal'[at'[q] + 1] = ideal[On(p)[q] + 1]
                         /\ On(p)[q] <= Len(stream)
    BY <1>1, <2>5
  <2> QED
    BY <2>4, <2>6, <2>7, <2>8, <2>9, <2>10
<1>3. CASE ~ \A q \in Peer : On(p)[q] > 0
  <2>1. stream' = stream /\ ideal' = ideal /\ at' = On(p)
    BY <1>3 DEF Apply, On
  <2> QED
    BY <1>1, <2>1 DEF Shape
<1> QED
  BY <1>2, <1>3

LEMMA ShapeInit == Init => Shape
<1> SUFFICES ASSUME Init PROVE Shape
  OBVIOUS
<1>1. GoodWorld(Fresh)
  BY FreshGood
<1>2. Fresh \in World
  BY <1>1 DEF GoodWorld
<1>3. PICK f : f = Fresh
  OBVIOUS
<1>4. /\ ideal = <<f>> /\ world = [p \in Peer |-> f] /\ stream = << >>
      /\ at = [p \in Peer |-> 0] /\ diverged = {} /\ unsound = {} /\ asked = {}
  BY <1>3 DEF Init
<1> QED
  BY <1>1, <1>2, <1>3, <1>4 DEF Shape

LEMMA AskingType ==
  ASSUME NEW c \in Command
  PROVE  Asking(c) \subseteq Controller \X Thing
BY CommandCases DEF Asking

LEMMA ShapeOrder ==
  ASSUME Shape, NEW c \in Command, Order(c)
  PROVE  Shape'
<1>1. PICK v : v = Applied(ideal[Len(ideal)], c)
  OBVIOUS
<1>2. Len(ideal) \in 1..Len(ideal) /\ Len(stream) \in Nat
  BY LenProperties DEF Shape
<1>3. GoodWorld(v)
  BY <1>1, <1>2, AppliedGood DEF Shape
<1>4. v \in World
  BY <1>3 DEF GoodWorld
<1>5. /\ stream' = Append(stream, c) /\ ideal' = Append(ideal, v)
      /\ asked' = asked \cup Asking(c)
      /\ UNCHANGED <<at, world, diverged, unsound>>
  BY <1>1 DEF Order
<1>6. /\ stream' \in Seq(Command) /\ Len(stream') = Len(stream) + 1
      /\ ideal' \in Seq(World) /\ Len(ideal') = Len(ideal) + 1
      /\ \A i \in 1..Len(ideal) : ideal'[i] = ideal[i]
      /\ ideal'[Len(ideal) + 1] = v
  BY <1>4, <1>5, AppendProperties DEF Shape
<1>7. \A i \in 1..Len(ideal') : GoodWorld(ideal'[i])
  <2>1. \A i \in 1..Len(ideal') : i \in 1..Len(ideal) \/ i = Len(ideal) + 1
    BY <1>2, <1>6
  <2> QED
    BY <1>3, <1>6, <2>1 DEF Shape
<1>8. \A p \in Peer : at'[p] <= Len(stream')
  BY <1>2, <1>5, <1>6 DEF Shape
<1> QED
  BY <1>5, <1>6, <1>7, <1>8, AskingType DEF Shape

LEMMA NextCommand ==
  ASSUME Shape, NEW p \in Peer, Apply(p)
  PROVE  stream[at[p] + 1] \in Command /\ at[p] + 1 \in 1..Len(stream)
BY LenProperties, ElementOfSeq DEF Shape, Apply

LEMMA ShapeApply ==
  ASSUME Shape, NEW p \in Peer, Apply(p)
  PROVE  Shape'
<1>1. PICK v : v = Applied(world[p], stream[at[p] + 1])
  OBVIOUS
<1>2. GoodWorld(v)
  BY <1>1, NextCommand, AppliedGood DEF Shape
<1>3. world' = [world EXCEPT ![p] = v]
  BY <1>1 DEF Apply
<1>4. v \in World
  BY <1>2 DEF GoodWorld
<1>5. world' \in [Peer -> World] /\ \A q \in Peer : GoodWorld(world'[q])
  BY <1>2, <1>3, <1>4 DEF Shape
<1>6. diverged' \subseteq Peer /\ unsound' \subseteq Peer
  BY DEF Apply, Sound, Shape
<1>7. asked' \subseteq Controller \X Thing
  BY DEF Apply, Shape
<1>8. \A i \in 1..Len(ideal') : GoodWorld(ideal'[i])
  BY Trimmed DEF Shape
<1> QED
  BY <1>5, <1>6, <1>7, <1>8, Trimmed DEF Shape

LEMMA DisownedGood ==
  ASSUME NEW w, GoodWorld(w), NEW x \in Thing, NEW o \in Origin
  PROVE  GoodWorld(Disowned(w, x, o))
<1>1. PICK f : f = [w.owner EXCEPT ![x] = o]
  OBVIOUS
<1>2. f \in [Thing -> Origin]
  BY <1>1 DEF GoodWorld, World
<1>3. Disowned(w, x, o) = [w EXCEPT !.owner = f]
  BY <1>1 DEF Disowned
<1> QED
  BY <1>2, <1>3 DEF GoodWorld, World

LEMMA ShapeDiverge ==
  ASSUME Shape, NEW p \in Peer, Diverge(p)
  PROVE  Shape'
<1>1. PICK x \in Thing, o \in Origin :
        world' = [world EXCEPT ![p] = Disowned(world[p], x, o)]
  BY DEF Diverge
<1>2. PICK v : v = Disowned(world[p], x, o)
  OBVIOUS
<1>3. GoodWorld(v)
  BY <1>2, DisownedGood DEF Shape
<1>4. v \in World
  BY <1>3 DEF GoodWorld
<1>5. world' \in [Peer -> World] /\ \A q \in Peer : GoodWorld(world'[q])
  BY <1>1, <1>2, <1>3, <1>4 DEF Shape
<1> QED
  BY <1>5 DEF Shape, Diverge

LEMMA ShapeNext == Shape /\ [Next]_vars => Shape'
<1> SUFFICES ASSUME Shape, [Next]_vars PROVE Shape'
  OBVIOUS
<1>1. CASE UNCHANGED vars
  BY <1>1 DEF vars, Shape
<1>2. CASE Next
  BY <1>2, ShapeOrder, ShapeApply, ShapeDiverge DEF Next
<1> QED
  BY <1>1, <1>2

LEMMA ShapeAlways == Spec => []Shape
BY ShapeInit, ShapeNext, PTL DEF Spec

\* The state keeps its types, and the stack its bound, whatever is ordered.
THEOREM Types == Spec => []TypeOK
<1>1. Shape => TypeOK
  BY DEF Shape, TypeOK, GoodWorld, GoodHand
<1> QED
  BY <1>1, ShapeAlways, PTL

\* The possessed creature is never in the hand of any peer.
THEOREM PossessedIsFree == Spec => []PossessedFree
<1>1. Shape => PossessedFree
  BY DEF Shape, PossessedFree, GoodWorld
<1> QED
  BY <1>1, ShapeAlways, PTL
-----------------------------------------------------------------------------
(* Peers stay in step *)

\* What the save and the checksum tell of a world.
Alike(w, v) ==
  /\ w.hand = v.hand
  /\ w.action = v.action
  /\ w.possessed = v.possessed
  /\ \A x \in Held(w.hand) : w.owner[x] = v.owner[x]

LEMMA AlikeSaved ==
  ASSUME NEW w, GoodWorld(w), NEW v, GoodWorld(v)
  PROVE  Saved(w) = Saved(v) <=> Alike(w, v)
<1>1. ASSUME Saved(w) = Saved(v)
      PROVE  Alike(w, v)
  <2>1. /\ w.hand = v.hand /\ w.action = v.action /\ w.possessed = v.possessed
        /\ Slots(w) = Slots(v)
    BY <1>1 DEF Saved
  <2>2. ASSUME NEW i \in DOMAIN w.hand
        PROVE  w.owner[w.hand[i]] = v.owner[w.hand[i]]
    <3>1. Slots(w)[i] = w.owner[w.hand[i]] /\ Slots(v)[i] = v.owner[v.hand[i]]
      BY <2>1 DEF Slots
    <3> QED
      BY <2>1, <3>1
  <2> QED
    BY <2>1, <2>2 DEF Alike, Held
<1>2. ASSUME Alike(w, v)
      PROVE  Saved(w) = Saved(v)
  <2>1. \A i \in DOMAIN w.hand : w.owner[w.hand[i]] = v.owner[w.hand[i]]
    BY <1>2 DEF Alike, Held
  <2>2. Slots(w) = Slots(v)
    BY <1>2, <2>1 DEF Alike, Slots
  <2> QED
    BY <1>2, <2>2 DEF Alike, Saved
<1> QED
  BY <1>1, <1>2

LEMMA TakeThingAlike ==
  ASSUME NEW w, GoodWorld(w), NEW v, GoodWorld(v), Alike(w, v),
         NEW x \in Thing, NEW o \in Origin
  PROVE  /\ Alike(TakeThing(w, x, o), TakeThing(v, x, o))
         /\ TakeThing(w, x, o).saved = w.saved
<1>1. /\ Blocked(w, x) <=> Blocked(v, x)
      /\ Fits(w, x) <=> Fits(v, x)
  BY DEF Alike, Blocked, Fits
<1>2. CASE ~ Blocked(w, x) /\ Fits(w, x)
  <2>1. PICK e \in Origin : e = CompletingOrigin(w.action, x, o)
    BY OriginType
  <2>2. e = CompletingOrigin(v.action, x, o)
    BY <2>1 DEF Alike
  <2>3. TakeThing(w, x, o) =
          [w EXCEPT !.hand = Append(w.hand, x), !.owner = [w.owner EXCEPT ![x] = e]]
    BY <1>2, <2>1 DEF TakeThing, Owned, GoodWorld, World
  <2>4. TakeThing(v, x, o) =
          [v EXCEPT !.hand = Append(v.hand, x), !.owner = [v.owner EXCEPT ![x] = e]]
    BY <1>1, <1>2, <2>2 DEF TakeThing, Owned, GoodWorld, World
  <2>5. Held(Append(w.hand, x)) = Held(w.hand) \cup {x}
    BY <1>2, AppendGood DEF Fits, GoodWorld
  <2>6. PICK h : h = Append(w.hand, x)
    OBVIOUS
  <2>7. \A y \in Held(h) :
          [w.owner EXCEPT ![x] = e][y] = [v.owner EXCEPT ![x] = e][y]
    BY <2>5, <2>6 DEF Alike, GoodWorld, World
  <2>8. h = Append(v.hand, x)
    BY <2>6 DEF Alike
  <2> QED
    BY <2>3, <2>4, <2>6, <2>7, <2>8 DEF Alike, GoodWorld, World
<1>3. CASE ~ (~ Blocked(w, x) /\ Fits(w, x))
  BY <1>1, <1>3 DEF TakeThing
<1> QED
  BY <1>2, <1>3

LEMMA DropThingAlike ==
  ASSUME NEW w, GoodWorld(w), NEW v, GoodWorld(v), Alike(w, v),
         NEW o \in Origin, NEW b \in BOOLEAN
  PROVE  /\ Alike(DropThing(w, o, b), DropThing(v, o, b))
         /\ DropThing(w, o, b).saved = w.saved
<1>1. \A i \in DOMAIN w.hand : w.hand[i] \in Held(w.hand)
  BY DEF Held
<1>2. Visible(w, o) = Visible(v, o)
  BY <1>1 DEF Visible, Alike
<1>3. DropIndex(w, o) = DropIndex(v, o)
  BY <1>2 DEF DropIndex, Latest, Alike
<1>4. PICK i \in 0..Len(w.hand) : i = DropIndex(w, o)
  BY DropIndexIs
<1>5. CASE i = 0 \/ ~ b
  BY <1>3, <1>4, <1>5 DEF DropThing
<1>6. CASE ~(i = 0 \/ ~ b)
  <2>1. GoodHand(w.hand) /\ i \in 1..Len(w.hand)
    BY <1>6 DEF GoodWorld
  <2>2. PICK h : h = Without(w.hand, i)
    OBVIOUS
  <2>3. DropThing(w, o, b) = [w EXCEPT !.hand = h]
    BY <1>4, <1>6, <2>1, <2>2, PromotedAndPopped DEF DropThing
  <2>4. DropThing(v, o, b) = [v EXCEPT !.hand = h]
    BY <1>3, <1>4, <1>6, <2>1, <2>2, PromotedAndPopped DEF DropThing, Alike
  <2>5. Held(h) \subseteq Held(w.hand)
    BY <2>1, <2>2, PromotedAndPopped
  <2> QED
    BY <2>3, <2>4, <2>5 DEF Alike, GoodWorld, World
<1> QED
  BY <1>5, <1>6

LEMMA EndedAlike ==
  ASSUME NEW w, GoodWorld(w), NEW v, GoodWorld(v), Alike(w, v)
  PROVE  Alike(Ended(w), Ended(v)) /\ Ended(w).saved = w.saved
<1>1. PICK r : r = IF w.action.kind = "take" THEN TakeThing(w, w.action.target, NoOne)
                   ELSE IF w.action.kind = "drop"
                        THEN DropThing(w, w.action.who, w.action.allowed)
                   ELSE w
  OBVIOUS
<1>2. PICK s : s = IF v.action.kind = "take" THEN TakeThing(v, v.action.target, NoOne)
                   ELSE IF v.action.kind = "drop"
                        THEN DropThing(v, v.action.who, v.action.allowed)
                   ELSE v
  OBVIOUS
<1>3. w.action = v.action /\ w.action \in Actions
  BY DEF Alike, GoodWorld, World
<1>4. GoodWorld(r) /\ GoodWorld(s) /\ Alike(r, s) /\ r.saved = w.saved
  <2>1. CASE w.action.kind = "take"
    <3>1. w.action.target \in Thing /\ NoOne \in Origin
      BY <1>3, <2>1, ActionCases DEF Idle, Origin
    <3>2. /\ r = TakeThing(w, w.action.target, NoOne)
          /\ s = TakeThing(v, w.action.target, NoOne)
      BY <1>1, <1>2, <1>3, <2>1
    <3> QED
      BY <3>1, <3>2, TakeThingAlike, TakeThingGood
  <2>2. CASE w.action.kind = "drop"
    <3>1. w.action.who \in Origin /\ w.action.allowed \in BOOLEAN
      BY <1>3, <2>2, ActionCases DEF Idle
    <3>2. /\ r = DropThing(w, w.action.who, w.action.allowed)
          /\ s = DropThing(v, w.action.who, w.action.allowed)
      BY <1>1, <1>2, <1>3, <2>2
    <3> QED
      BY <3>1, <3>2, DropThingAlike, DropThingGood
  <2>3. CASE w.action.kind \notin {"take", "drop"}
    BY <1>1, <1>2, <1>3, <2>3
  <2> QED
    BY <2>1, <2>2, <2>3
<1>5. Ended(w) = [r EXCEPT !.action = Idle] /\ Ended(v) = [s EXCEPT !.action = Idle]
  BY <1>1, <1>2 DEF Ended
<1> QED
  BY <1>4, <1>5 DEF Alike, GoodWorld, World

LEMMA StartedAlike ==
  ASSUME NEW w, GoodWorld(w), NEW v, GoodWorld(v), Alike(w, v),
         NEW a \in Actions, NEW b \in BOOLEAN
  PROVE  Alike(Started(w, a, b), Started(v, a, b)) /\ Started(w, a, b).saved = w.saved
<1>1. PICK r : r = IF b THEN Ended(w) ELSE w
  OBVIOUS
<1>2. PICK s : s = IF b THEN Ended(v) ELSE v
  OBVIOUS
<1>3. GoodWorld(r) /\ GoodWorld(s) /\ Alike(r, s) /\ r.saved = w.saved
  BY <1>1, <1>2, EndedGood, EndedAlike
<1>4. Started(w, a, b) = [r EXCEPT !.action = a] /\ Started(v, a, b) = [s EXCEPT !.action = a]
  BY <1>1, <1>2 DEF Started
<1> QED
  BY <1>3, <1>4 DEF Alike, GoodWorld, World

LEMMA AppliedAlike ==
  ASSUME NEW w, GoodWorld(w), NEW v, GoodWorld(v), Alike(w, v),
         NEW c \in Command, c.kind # "resync"
  PROVE  /\ Alike(Applied(w, c), Applied(v, c))
         /\ c.kind # "save" => Applied(w, c).saved = w.saved
<1>0. Controller \subseteq Origin /\ NoOne \in Origin
  BY DEF Origin
<1>1. CASE c.kind = "pickup"
  <2>1. c.who \in Origin /\ c.first \in Thing /\ c.completes \in BOOLEAN
    BY <1>0, <1>1, CommandCases
  <2>2. PICK a \in Actions : a = Take(c.first, c.who)
    BY <2>1, ActionTypes
  <2>3. /\ Alike(Started(w, a, c.completes), Started(v, a, c.completes))
        /\ Started(w, a, c.completes).saved = w.saved
    BY <2>1, StartedAlike
  <2>4. Blocked(w, c.first) <=> Blocked(v, c.first)
    BY DEF Alike, Blocked
  <2>5. /\ Applied(w, c) = IF Blocked(w, c.first) THEN w ELSE Started(w, a, c.completes)
        /\ Applied(v, c) = IF Blocked(v, c.first) THEN v ELSE Started(v, a, c.completes)
    BY <1>1, <2>2 DEF Applied, Picked
  <2> QED
    BY <2>3, <2>4, <2>5
<1>2. CASE c.kind = "batch"
  <2>1. c.who \in Origin /\ c.first \in Thing /\ c.second \in Thing
    BY <1>0, <1>2, CommandCases
  <2>2. PICK r : r = TakeThing(w, c.first, c.who)
    OBVIOUS
  <2>3. PICK s : s = TakeThing(v, c.first, c.who)
    OBVIOUS
  <2>4. GoodWorld(r) /\ GoodWorld(s) /\ Alike(r, s) /\ r.saved = w.saved
    BY <2>1, <2>2, <2>3, TakeThingGood, TakeThingAlike
  <2>5. /\ Applied(w, c) = TakeThing(r, c.second, c.who)
        /\ Applied(v, c) = TakeThing(s, c.second, c.who)
    BY <1>2, <2>2, <2>3 DEF Applied
  <2> QED
    BY <1>2, <2>1, <2>4, <2>5, TakeThingAlike
<1>3. CASE c.kind = "drop"
  <2>1. c.who \in Origin /\ c.completes \in BOOLEAN /\ c.allowed \in BOOLEAN
    BY <1>3, CommandCases
  <2>2. PICK a \in Actions : a = Drop(c.who, c.allowed)
    BY <2>1, ActionTypes
  <2>3. /\ Applied(w, c) = Started(w, a, c.completes)
        /\ Applied(v, c) = Started(v, a, c.completes)
    BY <1>3, <2>2 DEF Applied
  <2> QED
    BY <2>1, <2>3, StartedAlike
<1>4. CASE c.kind = "script"
  <2>1. /\ c.first \in Thing
        /\ Applied(w, c) = TakeThing(w, c.first, NoOne)
        /\ Applied(v, c) = TakeThing(v, c.first, NoOne)
    BY <1>4, CommandCases DEF Applied
  <2> QED
    BY <1>0, <2>1, TakeThingAlike
<1>5. CASE c.kind = "end"
  BY <1>5, EndedAlike DEF Applied
<1>6. CASE c.kind = "possess"
  <2>1. /\ Applied(w, c) = Possessing(w, c.first)
        /\ Applied(v, c) = Possessing(v, c.first)
    BY <1>6 DEF Applied
  <2> QED
    BY <2>1 DEF Possessing, Alike, GoodWorld, World
<1>7. CASE c.kind = "release"
  <2>1. /\ Applied(w, c) = [w EXCEPT !.possessed = Nothing]
        /\ Applied(v, c) = [v EXCEPT !.possessed = Nothing]
    BY <1>7 DEF Applied
  <2> QED
    BY <2>1 DEF Alike, GoodWorld, World
<1>8. CASE c.kind = "save"
  <2>1. PICK r : r = Saved(w)
    OBVIOUS
  <2>2. PICK s : s = Saved(v)
    OBVIOUS
  <2>3. Applied(w, c) = [w EXCEPT !.saved = r] /\ Applied(v, c) = [v EXCEPT !.saved = s]
    BY <1>8, <2>1, <2>2 DEF Applied
  <2> QED
    BY <1>8, <2>3 DEF Alike, GoodWorld, World
<1> QED
  BY <1>1, <1>2, <1>3, <1>4, <1>5, <1>6, <1>7, <1>8, CommandCases

LEMMA SaveApplied ==
  ASSUME NEW w, GoodWorld(w), NEW c \in Command, c.kind = "save"
  PROVE  Applied(w, c).saved = Saved(w)
<1>1. PICK r : r = Saved(w)
  OBVIOUS
<1>2. Applied(w, c) = [w EXCEPT !.saved = r]
  BY <1>1 DEF Applied
<1> QED
  BY <1>1, <1>2 DEF GoodWorld, World

\* A world that has not gone wrong tells what the ideal one tells, and the
\* save of a peer that did not save while wrong is the ideal one.
LEMMA AppliedFollows ==
  ASSUME NEW w, GoodWorld(w), NEW v, GoodWorld(v), NEW c \in Command
  PROVE  /\ c.kind # "resync" /\ Saved(w) = Saved(v)
              => Saved(Applied(w, c)) = Saved(Applied(v, c))
         /\ c.kind = "resync" /\ w.saved = v.saved
              => Saved(Applied(w, c)) = Saved(Applied(v, c))
         /\ c.kind # "save" /\ w.saved = v.saved
              => Applied(w, c).saved = Applied(v, c).saved
         /\ c.kind = "save" /\ Saved(w) = Saved(v)
              => Applied(w, c).saved = Applied(v, c).saved
<1>1. GoodWorld(Applied(w, c)) /\ GoodWorld(Applied(v, c))
  BY AppliedGood
<1>2. c.kind # "resync" /\ Saved(w) = Saved(v)
        => Saved(Applied(w, c)) = Saved(Applied(v, c))
  BY <1>1, AlikeSaved, AppliedAlike
<1>3. ASSUME c.kind = "resync"
      PROVE  Applied(w, c) = Restored(w) /\ Applied(v, c) = Restored(v)
  BY <1>3 DEF Applied
<1>4. c.kind = "resync" /\ w.saved = v.saved
        => Saved(Applied(w, c)) = Saved(Applied(v, c))
  BY <1>3, RestoredGood
<1>5. ASSUME c.kind # "save", c.kind # "resync"
      PROVE  Applied(w, c).saved = w.saved /\ Applied(v, c).saved = v.saved
  <2>1. Alike(w, w) /\ Alike(v, v)
    BY DEF Alike
  <2> QED
    BY <1>5, <2>1, AppliedAlike
<1>6. c.kind # "save" /\ w.saved = v.saved => Applied(w, c).saved = Applied(v, c).saved
  BY <1>3, <1>5, RestoredGood
<1>7. c.kind = "save" /\ Saved(w) = Saved(v) => Applied(w, c).saved = Applied(v, c).saved
  BY SaveApplied
<1> QED
  BY <1>2, <1>4, <1>6, <1>7

\* The invariant behind InStep: the ideal worlds follow from the commands, and
\* each peer is, as far as saves tell, where the ideal one was at its place.
Follow ==
  /\ \A i \in 1..Len(stream) : ideal[i + 1] = Applied(ideal[i], stream[i])
  /\ \A p \in Peer \ diverged : Saved(world[p]) = Saved(ideal[at[p] + 1])
  /\ \A p \in Peer \ unsound : world[p].saved = ideal[at[p] + 1].saved

LEMMA FollowInit == Init => Follow
<1> SUFFICES ASSUME Init PROVE Follow
  OBVIOUS
<1>1. PICK f : f = Fresh
  OBVIOUS
<1>2. /\ ideal = <<f>> /\ world = [p \in Peer |-> f] /\ stream = << >>
      /\ at = [p \in Peer |-> 0] /\ diverged = {} /\ unsound = {}
  BY <1>1 DEF Init
<1>3. ideal[1] = f /\ Len(stream) = 0
  BY <1>2
<1>4. \A p \in Peer : world[p] = f /\ at[p] + 1 = 1
  BY <1>2
<1> QED
  BY <1>3, <1>4 DEF Follow

LEMMA FollowOrder ==
  ASSUME Shape, Follow, NEW c \in Command, Order(c)
  PROVE  Follow'
<1>1. PICK v : v = Applied(ideal[Len(ideal)], c)
  OBVIOUS
<1>2. /\ stream' = Append(stream, c) /\ ideal' = Append(ideal, v)
      /\ UNCHANGED <<at, world, diverged, unsound>>
  BY <1>1 DEF Order
<1>3. Len(stream) \in Nat /\ Len(ideal) = Len(stream) + 1
  BY LenProperties DEF Shape
<1>4. GoodWorld(v)
  BY <1>1, <1>3, AppliedGood DEF Shape
<1>5. v \in World
  BY <1>4 DEF GoodWorld
<1>6. /\ Len(stream') = Len(stream) + 1
      /\ \A i \in 1..Len(stream) : stream'[i] = stream[i]
      /\ stream'[Len(stream) + 1] = c
  BY <1>2, AppendProperties DEF Shape
<1>7. /\ \A i \in 1..Len(ideal) : ideal'[i] = ideal[i]
      /\ ideal'[Len(ideal) + 1] = v
  BY <1>2, <1>5, AppendProperties DEF Shape
<1>8. ASSUME NEW i \in 1..Len(stream')
      PROVE  ideal'[i + 1] = Applied(ideal'[i], stream'[i])
  <2>1. CASE i \in 1..Len(stream)
    <3>1. i \in 1..Len(ideal) /\ i + 1 \in 1..Len(ideal)
      BY <1>3, <2>1
    <3> QED
      BY <1>6, <1>7, <2>1, <3>1 DEF Follow
  <2>2. CASE i = Len(ideal)
    <3>1. i \in 1..Len(ideal) /\ stream'[i] = c /\ ideal'[i + 1] = v
      BY <1>3, <1>6, <1>7, <2>2
    <3> QED
      BY <1>1, <1>7, <2>2, <3>1
  <2> QED
    BY <1>3, <1>6, <2>1, <2>2
<1>9. \A p \in Peer : at[p] + 1 \in 1..Len(ideal)
  BY <1>3 DEF Shape
<1> QED
  BY <1>2, <1>7, <1>8, <1>9 DEF Follow

LEMMA FollowApply ==
  ASSUME Shape, Follow, NEW p \in Peer, Apply(p)
  PROVE  Follow'
<1>1. PICK c : c = stream[at[p] + 1]
  OBVIOUS
<1>2. c \in Command /\ at[p] + 1 \in 1..Len(stream)
  BY <1>1, NextCommand
<1>3. PICK w : w = world[p]
  OBVIOUS
<1>4. PICK v : v = ideal[at[p] + 1]
  OBVIOUS
<1>5. /\ world' = [world EXCEPT ![p] = Applied(w, c)] /\ Sound(p, c)
      /\ \A q \in Peer \ {p} : On(p)[q] = at[q]
      /\ On(p)[p] = at[p] + 1
  BY <1>1, <1>3 DEF Apply, On, Shape
<1>6. at[p] + 1 \in 1..Len(ideal) /\ ideal[(at[p] + 1) + 1] = Applied(v, c)
  BY <1>1, <1>2, <1>4 DEF Follow, Shape
<1>7. GoodWorld(w) /\ GoodWorld(v)
  BY <1>3, <1>4, <1>6 DEF Shape
<1>8. world'[p] = Applied(w, c) /\ \A q \in Peer \ {p} : world'[q] = world[q]
  BY <1>5 DEF Shape
<1>9. \A i \in 1..Len(stream') : ideal'[i + 1] = Applied(ideal'[i], stream'[i])
  BY Trimmed DEF Follow
<1>10. \A q \in Peer : ideal'[at'[q] + 1] = ideal[On(p)[q] + 1]
  BY Trimmed
<1>11. /\ \A q \in Peer \ {p} : ideal'[at'[q] + 1] = ideal[at[q] + 1]
       /\ ideal'[at'[p] + 1] = Applied(v, c)
  BY <1>5, <1>6, <1>10
<1>12. /\ p \notin diverged => Saved(w) = Saved(v)
       /\ p \notin unsound => w.saved = v.saved
  BY <1>3, <1>4 DEF Follow
<1>13. ASSUME NEW q \in Peer \ diverged'
       PROVE  Saved(world'[q]) = Saved(ideal'[at'[q] + 1])
  <2>1. CASE q = p
    <3>1. /\ c.kind # "resync" => p \notin diverged
          /\ c.kind = "resync" => p \notin unsound
      BY <1>5, <1>13, <2>1 DEF Sound
    <3> QED
      BY <1>2, <1>7, <1>8, <1>11, <1>12, <2>1, <3>1, AppliedFollows
  <2>2. CASE q # p
    <3>1. q \in Peer \ diverged
      BY <1>5, <1>13, <2>2 DEF Sound
    <3>2. world'[q] = world[q] /\ ideal'[at'[q] + 1] = ideal[at[q] + 1]
      BY <1>8, <1>11, <2>2
    <3> QED
      BY <3>1, <3>2 DEF Follow
  <2> QED
    BY <2>1, <2>2
<1>14. ASSUME NEW q \in Peer \ unsound'
       PROVE  world'[q].saved = ideal'[at'[q] + 1].saved
  <2>1. CASE q = p
    <3>1. /\ c.kind # "save" => p \notin unsound
          /\ c.kind = "save" => p \notin diverged
      BY <1>5, <1>14, <2>1 DEF Sound
    <3> QED
      BY <1>2, <1>7, <1>8, <1>11, <1>12, <2>1, <3>1, AppliedFollows
  <2>2. CASE q # p
    <3>1. q \in Peer \ unsound
      BY <1>5, <1>14, <2>2 DEF Sound
    <3>2. world'[q] = world[q] /\ ideal'[at'[q] + 1] = ideal[at[q] + 1]
      BY <1>8, <1>11, <2>2
    <3> QED
      BY <3>1, <3>2 DEF Follow
  <2> QED
    BY <2>1, <2>2
<1> QED
  BY <1>9, <1>13, <1>14 DEF Follow

LEMMA FollowDiverge ==
  ASSUME Shape, Follow, NEW p \in Peer, Diverge(p)
  PROVE  Follow'
<1>1. PICK x \in Thing, o \in Origin :
        world' = [world EXCEPT ![p] = Disowned(world[p], x, o)]
  BY DEF Diverge
<1>2. PICK w : w = world[p]
  OBVIOUS
<1>3. PICK v : v = Disowned(w, x, o)
  OBVIOUS
<1>4. v.saved = w.saved
  <2>1. PICK f : f = [w.owner EXCEPT ![x] = o]
    OBVIOUS
  <2>2. v = [w EXCEPT !.owner = f]
    BY <1>3, <2>1 DEF Disowned
  <2> QED
    BY <1>2, <2>2 DEF Shape, World
<1>5. world' = [world EXCEPT ![p] = v]
  BY <1>1, <1>2, <1>3
<1>6. world'[p] = v /\ \A q \in Peer \ {p} : world'[q] = world[q]
  BY <1>5 DEF Shape
<1>7. /\ diverged' = diverged \cup {p}
      /\ UNCHANGED <<stream, at, ideal, unsound>>
  BY DEF Diverge
<1>8. \A q \in Peer \ diverged' : Saved(world'[q]) = Saved(ideal'[at'[q] + 1])
  BY <1>6, <1>7 DEF Follow
<1>9. \A q \in Peer \ unsound' : world'[q].saved = ideal'[at'[q] + 1].saved
  BY <1>2, <1>4, <1>6, <1>7 DEF Follow
<1> QED
  BY <1>7, <1>8, <1>9 DEF Follow

LEMMA FollowNext == Shape /\ Follow /\ [Next]_vars => Follow'
<1> SUFFICES ASSUME Shape, Follow, [Next]_vars PROVE Follow'
  OBVIOUS
<1>1. CASE UNCHANGED vars
  BY <1>1 DEF vars, Follow
<1>2. CASE Next
  BY <1>2, FollowOrder, FollowApply, FollowDiverge DEF Next
<1> QED
  BY <1>1, <1>2

LEMMA FollowAlways == Spec => []Follow
BY FollowInit, FollowNext, ShapeAlways, PTL DEF Spec

\* Peers that have applied the same commands agree on the hand and its owners,
\* however far apart they ran and however often they reloaded.
THEOREM StayInStep == Spec => []InStep
<1>1. Follow => InStep
  BY DEF Follow, InStep
<1> QED
  BY <1>1, FollowAlways, PTL

-----------------------------------------------------------------------------
(* Owners have asked *)

Vouched(o, x, A) == o = NoOne \/ <<o, x>> \in A
HandVouched(w, A) == \A x \in Held(w.hand) : Vouched(w.owner[x], x, A)
ActionVouched(a, A) == a.kind = "take" => Vouched(a.who, a.target, A)
SaveVouched(s, A) == \A i \in DOMAIN s.hand : Vouched(s.slots[i], s.hand[i], A)

LEMMA TakeThingVouched ==
  ASSUME NEW w, GoodWorld(w), NEW A, HandVouched(w, A), ActionVouched(w.action, A),
         NEW x \in Thing, NEW o \in Origin, Vouched(o, x, A)
  PROVE  HandVouched(TakeThing(w, x, o), A)
<1>1. CASE ~ Blocked(w, x) /\ Fits(w, x)
  <2>1. PICK e \in Origin : e = CompletingOrigin(w.action, x, o)
    BY OriginType
  <2>2. Vouched(e, x, A)
    BY <2>1 DEF CompletingOrigin, ActionVouched
  <2>3. PICK h : h = Append(w.hand, x)
    OBVIOUS
  <2>4. TakeThing(w, x, o) =
          [w EXCEPT !.hand = h, !.owner = [w.owner EXCEPT ![x] = e]]
    BY <1>1, <2>1, <2>3 DEF TakeThing, Owned, GoodWorld, World
  <2>5. Held(h) = Held(w.hand) \cup {x}
    BY <1>1, <2>3, AppendGood DEF Fits, GoodWorld
  <2>6. \A y \in Held(h) : Vouched([w.owner EXCEPT ![x] = e][y], y, A)
    BY <2>2, <2>5 DEF HandVouched, GoodWorld, World
  <2> QED
    BY <2>4, <2>6 DEF HandVouched, GoodWorld, World
<1>2. CASE ~ (~ Blocked(w, x) /\ Fits(w, x))
  BY <1>2 DEF TakeThing
<1> QED
  BY <1>1, <1>2

LEMMA TakeThingAction ==
  ASSUME NEW w, GoodWorld(w), NEW x \in Thing, NEW o \in Origin
  PROVE  TakeThing(w, x, o).action = w.action
<1>1. PICK e : e = CompletingOrigin(w.action, x, o)
  OBVIOUS
<1>2. PICK h : h = Append(w.hand, x)
  OBVIOUS
<1>3. \/ TakeThing(w, x, o) = w
      \/ TakeThing(w, x, o) = [w EXCEPT !.hand = h, !.owner = [w.owner EXCEPT ![x] = e]]
  BY <1>1, <1>2 DEF TakeThing, Owned, GoodWorld, World
<1> QED
  BY <1>3 DEF GoodWorld, World

LEMMA DropThingVouched ==
  ASSUME NEW w, GoodWorld(w), NEW A, HandVouched(w, A), NEW o \in Origin, NEW b \in BOOLEAN
  PROVE  HandVouched(DropThing(w, o, b), A)
<1>1. PICK i \in 0..Len(w.hand) : i = DropIndex(w, o)
  BY DropIndexIs
<1>2. CASE i = 0 \/ ~ b
  BY <1>1, <1>2 DEF DropThing
<1>3. CASE ~(i = 0 \/ ~ b)
  <2>1. GoodHand(w.hand) /\ i \in 1..Len(w.hand)
    BY <1>3 DEF GoodWorld
  <2>2. PICK h : h = Without(w.hand, i)
    OBVIOUS
  <2>3. DropThing(w, o, b) = [w EXCEPT !.hand = h]
    BY <1>1, <1>3, <2>1, <2>2, PromotedAndPopped DEF DropThing
  <2>4. Held(h) \subseteq Held(w.hand)
    BY <2>1, <2>2, PromotedAndPopped
  <2> QED
    BY <2>3, <2>4 DEF HandVouched, GoodWorld, World
<1> QED
  BY <1>2, <1>3

LEMMA EndedVouched ==
  ASSUME NEW w, GoodWorld(w), NEW A, HandVouched(w, A), ActionVouched(w.action, A)
  PROVE  HandVouched(Ended(w), A)
<1>1. PICK r : r = IF w.action.kind = "take" THEN TakeThing(w, w.action.target, NoOne)
                   ELSE IF w.action.kind = "drop"
                        THEN DropThing(w, w.action.who, w.action.allowed)
                   ELSE w
  OBVIOUS
<1>2. GoodWorld(r) /\ HandVouched(r, A)
  <2>1. CASE w.action.kind = "take"
    <3>1. w.action.target \in Thing /\ NoOne \in Origin
      BY <2>1, ActionCases DEF GoodWorld, World, Idle, Origin
    <3>2. Vouched(NoOne, w.action.target, A)
      BY DEF Vouched
    <3> QED
      BY <1>1, <2>1, <3>1, <3>2, TakeThingGood, TakeThingVouched
  <2>2. CASE w.action.kind = "drop"
    <3>1. w.action.who \in Origin /\ w.action.allowed \in BOOLEAN
      BY <2>2, ActionCases DEF GoodWorld, World, Idle
    <3> QED
      BY <1>1, <2>2, <3>1, DropThingGood, DropThingVouched
  <2> QED
    BY <1>1, <2>1, <2>2
<1>3. Ended(w) = [r EXCEPT !.action = Idle]
  BY <1>1 DEF Ended
<1> QED
  BY <1>2, <1>3 DEF HandVouched, GoodWorld, World

LEMMA StartedVouched ==
  ASSUME NEW w, GoodWorld(w), NEW A, NEW a \in Actions, NEW b \in BOOLEAN
  PROVE  /\ HandVouched(w, A) /\ ActionVouched(w.action, A)
              => HandVouched(Started(w, a, b), A)
         /\ Started(w, a, b).action = a
<1>1. PICK r : r = IF b THEN Ended(w) ELSE w
  OBVIOUS
<1>2. /\ GoodWorld(r)
      /\ HandVouched(w, A) /\ ActionVouched(w.action, A) => HandVouched(r, A)
  BY <1>1, EndedGood, EndedVouched
<1>3. Started(w, a, b) = [r EXCEPT !.action = a]
  BY <1>1 DEF Started
<1> QED
  BY <1>2, <1>3 DEF HandVouched, GoodWorld, World

LEMMA RestoredVouched ==
  ASSUME NEW w, GoodWorld(w), NEW A, SaveVouched(w.saved, A)
  PROVE  HandVouched(Restored(w), A)
<1>1. PICK v : v = Restored(w)
  OBVIOUS
<1>2. PICK s : s = w.saved
  OBVIOUS
<1>3. GoodWorld(v) /\ Saved(v) = s
  BY <1>1, <1>2, RestoredGood
<1>4. v.hand = s.hand /\ Slots(v) = s.slots
  BY <1>3 DEF Saved
<1>5. ASSUME NEW i \in DOMAIN v.hand
      PROVE  Vouched(v.owner[v.hand[i]], v.hand[i], A)
  <2>1. Slots(v)[i] = v.owner[v.hand[i]]
    BY DEF Slots
  <2> QED
    BY <1>2, <1>4, <2>1 DEF SaveVouched
<1>6. HandVouched(v, A)
  BY <1>5 DEF HandVouched, Held
<1> QED
  BY <1>1, <1>6

LEMMA SavedVouched ==
  ASSUME NEW w, NEW A, HandVouched(w, A)
  PROVE  SaveVouched(Saved(w), A)
BY DEF SaveVouched, HandVouched, Held, Saved, Slots

\* What is under way was asked for, in the world and in its save.
LEMMA AppliedAction ==
  ASSUME NEW w, GoodWorld(w), NEW c \in Command, NEW A, Asking(c) \subseteq A,
         ActionVouched(w.action, A), ActionVouched(w.saved.action, A)
  PROVE  ActionVouched(Applied(w, c).action, A)
<1>0. Controller \subseteq Origin /\ NoOne \in Origin
  BY DEF Origin
<1>1. CASE c.kind = "pickup"
  <2>1. c.who \in Origin /\ c.first \in Thing /\ c.completes \in BOOLEAN
    BY <1>0, <1>1, CommandCases
  <2>2. PICK a \in Actions : a = Take(c.first, c.who)
    BY <2>1, ActionTypes
  <2>3. ActionVouched(a, A)
    BY <1>1, <2>2 DEF ActionVouched, Asking, Vouched, Take
  <2>4. Started(w, a, c.completes).action = a
    BY <2>1, StartedVouched
  <2>5. Applied(w, c) = IF Blocked(w, c.first) THEN w ELSE Started(w, a, c.completes)
    BY <1>1, <2>2 DEF Applied, Picked
  <2> QED
    BY <2>3, <2>4, <2>5
<1>2. CASE c.kind = "batch"
  <2>1. c.who \in Origin /\ c.first \in Thing /\ c.second \in Thing
    BY <1>0, <1>2, CommandCases
  <2>2. PICK r : r = TakeThing(w, c.first, c.who)
    OBVIOUS
  <2>3. GoodWorld(r) /\ r.action = w.action
    BY <2>1, <2>2, TakeThingGood, TakeThingAction
  <2>4. Applied(w, c) = TakeThing(r, c.second, c.who)
    BY <1>2, <2>2 DEF Applied
  <2> QED
    BY <2>1, <2>3, <2>4, TakeThingAction
<1>3. CASE c.kind = "drop"
  <2>1. c.who \in Origin /\ c.completes \in BOOLEAN /\ c.allowed \in BOOLEAN
    BY <1>3, CommandCases
  <2>2. PICK a \in Actions : a = Drop(c.who, c.allowed)
    BY <2>1, ActionTypes
  <2>3. Applied(w, c) = Started(w, a, c.completes)
    BY <1>3, <2>2 DEF Applied
  <2>4. Started(w, a, c.completes).action = a
    BY <2>1, StartedVouched
  <2> QED
    BY <2>2, <2>3, <2>4 DEF ActionVouched, Drop
<1>4. CASE c.kind = "script"
  <2>1. c.first \in Thing /\ Applied(w, c) = TakeThing(w, c.first, NoOne)
    BY <1>4, CommandCases DEF Applied
  <2> QED
    BY <1>0, <2>1, TakeThingAction
<1>5. CASE c.kind = "end"
  <2>1. Applied(w, c).action = Idle
    BY <1>5, EndedGood DEF Applied
  <2> QED
    BY <2>1 DEF ActionVouched, Idle
<1>6. CASE c.kind \in {"possess", "release"}
  <2>1. \/ Applied(w, c) = w
        \/ Applied(w, c) = [w EXCEPT !.possessed = c.first]
        \/ Applied(w, c) = [w EXCEPT !.possessed = Nothing]
    BY <1>6 DEF Applied, Possessing
  <2> QED
    BY <2>1 DEF GoodWorld, World
<1>7. CASE c.kind = "save"
  <2>1. PICK r : r = Saved(w)
    OBVIOUS
  <2>2. Applied(w, c) = [w EXCEPT !.saved = r]
    BY <1>7, <2>1 DEF Applied
  <2> QED
    BY <2>2 DEF GoodWorld, World
<1>8. CASE c.kind = "resync"
  <2>1. PICK v : v = Restored(w)
    OBVIOUS
  <2>2. Saved(v) = w.saved
    BY <2>1, RestoredGood
  <2>3. v.action = w.saved.action
    BY <2>2 DEF Saved
  <2>4. Applied(w, c) = v
    BY <1>8, <2>1 DEF Applied
  <2> QED
    BY <2>3, <2>4
<1> QED
  BY <1>1, <1>2, <1>3, <1>4, <1>5, <1>6, <1>7, <1>8, CommandCases

LEMMA AppliedHand ==
  ASSUME NEW w, GoodWorld(w), NEW c \in Command, NEW A, Asking(c) \subseteq A,
         ActionVouched(w.action, A),
         c.kind # "resync" => HandVouched(w, A),
         c.kind = "resync" => SaveVouched(w.saved, A)
  PROVE  HandVouched(Applied(w, c), A)
<1>0. Controller \subseteq Origin /\ NoOne \in Origin /\ \A x : Vouched(NoOne, x, A)
  BY DEF Origin, Vouched
<1>1. CASE c.kind = "pickup"
  <2>1. c.who \in Origin /\ c.first \in Thing /\ c.completes \in BOOLEAN
    BY <1>0, <1>1, CommandCases
  <2>2. PICK a \in Actions : a = Take(c.first, c.who)
    BY <2>1, ActionTypes
  <2>3. HandVouched(Started(w, a, c.completes), A)
    BY <1>1, <2>1, StartedVouched
  <2>4. Applied(w, c) = IF Blocked(w, c.first) THEN w ELSE Started(w, a, c.completes)
    BY <1>1, <2>2 DEF Applied, Picked
  <2> QED
    BY <1>1, <2>3, <2>4
<1>2. CASE c.kind = "batch"
  <2>1. c.who \in Origin /\ c.first \in Thing /\ c.second \in Thing
    BY <1>0, <1>2, CommandCases
  <2>2. Vouched(c.who, c.first, A) /\ Vouched(c.who, c.second, A)
    BY <1>2 DEF Vouched, Asking
  <2>3. PICK r : r = TakeThing(w, c.first, c.who)
    OBVIOUS
  <2>4. GoodWorld(r) /\ HandVouched(r, A) /\ r.action = w.action
    BY <1>2, <2>1, <2>2, <2>3, TakeThingGood, TakeThingVouched, TakeThingAction
  <2>5. Applied(w, c) = TakeThing(r, c.second, c.who)
    BY <1>2, <2>3 DEF Applied
  <2> QED
    BY <2>1, <2>2, <2>4, <2>5, TakeThingVouched
<1>3. CASE c.kind = "drop"
  <2>1. c.who \in Origin /\ c.completes \in BOOLEAN /\ c.allowed \in BOOLEAN
    BY <1>3, CommandCases
  <2>2. PICK a \in Actions : a = Drop(c.who, c.allowed)
    BY <2>1, ActionTypes
  <2>3. Applied(w, c) = Started(w, a, c.completes)
    BY <1>3, <2>2 DEF Applied
  <2> QED
    BY <1>3, <2>1, <2>3, StartedVouched
<1>4. CASE c.kind = "script"
  <2>1. c.first \in Thing /\ Applied(w, c) = TakeThing(w, c.first, NoOne)
    BY <1>4, CommandCases DEF Applied
  <2> QED
    BY <1>0, <1>4, <2>1, TakeThingVouched
<1>5. CASE c.kind = "end"
  BY <1>5, EndedVouched DEF Applied
<1>6. CASE c.kind \in {"possess", "release"}
  <2>1. \/ Applied(w, c) = w
        \/ Applied(w, c) = [w EXCEPT !.possessed = c.first]
        \/ Applied(w, c) = [w EXCEPT !.possessed = Nothing]
    BY <1>6 DEF Applied, Possessing
  <2> QED
    BY <1>6, <2>1 DEF HandVouched, GoodWorld, World
<1>7. CASE c.kind = "save"
  <2>1. PICK r : r = Saved(w)
    OBVIOUS
  <2>2. Applied(w, c) = [w EXCEPT !.saved = r]
    BY <1>7, <2>1 DEF Applied
  <2> QED
    BY <1>7, <2>2 DEF HandVouched, GoodWorld, World
<1>8. CASE c.kind = "resync"
  BY <1>8, RestoredVouched DEF Applied
<1> QED
  BY <1>1, <1>2, <1>3, <1>4, <1>5, <1>6, <1>7, <1>8, CommandCases

\* The save stays, but for a save, which is then as good as the hand.
LEMMA AppliedSave ==
  ASSUME NEW w, GoodWorld(w), NEW c \in Command
  PROVE  IF c.kind = "save" THEN Applied(w, c).saved = Saved(w)
         ELSE Applied(w, c).saved = w.saved
<1>1. CASE c.kind = "save"
  BY <1>1, SaveApplied
<1>2. CASE c.kind = "resync"
  BY <1>2, RestoredGood DEF Applied
<1>3. CASE c.kind \notin {"save", "resync"}
  <2>1. Alike(w, w)
    BY DEF Alike
  <2> QED
    BY <1>3, <2>1, AppliedAlike
<1> QED
  BY <1>1, <1>2, <1>3

\* The invariant behind OwnerAsked: whoever is recorded anywhere as the owner of
\* a thing, or is taking one, or is about to be told to, has asked for it.
Asked ==
  /\ \A i \in 1..Len(stream) : Asking(stream[i]) \subseteq asked
  /\ \A p \in Peer : /\ ActionVouched(world[p].action, asked)
                     /\ ActionVouched(world[p].saved.action, asked)
  /\ \A p \in Peer \ diverged : HandVouched(world[p], asked)
  /\ \A p \in Peer \ unsound : SaveVouched(world[p].saved, asked)

LEMMA AskedInit == Init => Asked
<1> SUFFICES ASSUME Init PROVE Asked
  OBVIOUS
<1>1. PICK f : f = Fresh
  OBVIOUS
<1>2. world = [p \in Peer |-> f] /\ stream = << >> /\ Len(stream) = 0
  BY <1>1 DEF Init
<1>3. f.action = Idle /\ f.hand = << >> /\ f.saved = Saved(Empty)
  BY <1>1 DEF Fresh
<1>4. f.saved.action = Idle /\ f.saved.hand = << >>
  BY <1>3, EmptyFields DEF Saved
<1>5. \A A : ActionVouched(Idle, A)
  BY DEF ActionVouched, Idle
<1>6. \A A : HandVouched(f, A) /\ SaveVouched(f.saved, A)
  BY <1>3, <1>4 DEF HandVouched, SaveVouched, Held
<1> QED
  BY <1>2, <1>3, <1>4, <1>5, <1>6 DEF Asked

LEMMA Monotone ==
  ASSUME NEW A, NEW B, A \subseteq B
  PROVE  /\ \A w : HandVouched(w, A) => HandVouched(w, B)
         /\ \A a : ActionVouched(a, A) => ActionVouched(a, B)
         /\ \A s : SaveVouched(s, A) => SaveVouched(s, B)
BY DEF HandVouched, ActionVouched, SaveVouched, Vouched

LEMMA AskedOrder ==
  ASSUME Shape, Asked, NEW c \in Command, Order(c)
  PROVE  Asked'
<1>1. /\ stream' = Append(stream, c) /\ asked' = asked \cup Asking(c)
      /\ UNCHANGED <<world, diverged, unsound>>
  BY DEF Order
<1>2. /\ Len(stream') = Len(stream) + 1 /\ Len(stream) \in Nat
      /\ \A i \in 1..Len(stream) : stream'[i] = stream[i]
      /\ stream'[Len(stream) + 1] = c
  BY <1>1, AppendProperties, LenProperties DEF Shape
<1>3. ASSUME NEW i \in 1..Len(stream')
      PROVE  Asking(stream'[i]) \subseteq asked'
  <2>1. i \in 1..Len(stream) \/ i = Len(stream) + 1
    BY <1>2
  <2>2. CASE i \in 1..Len(stream)
    BY <1>1, <1>2, <2>2 DEF Asked
  <2>3. CASE i = Len(stream) + 1
    BY <1>1, <1>2, <2>3
  <2> QED
    BY <2>1, <2>2, <2>3
<1>4. asked \subseteq asked'
  BY <1>1
<1>5. /\ \A p \in Peer : /\ ActionVouched(world[p].action, asked')
                         /\ ActionVouched(world[p].saved.action, asked')
      /\ \A p \in Peer \ diverged : HandVouched(world[p], asked')
      /\ \A p \in Peer \ unsound : SaveVouched(world[p].saved, asked')
  BY <1>4, Monotone DEF Asked
<1> QED
  BY <1>1, <1>3, <1>5 DEF Asked

\* What is forgotten of who asked concerns nothing that is at hand.
LEMMA Remembered ==
  ASSUME NEW A, NEW B, NEW O, B = {q \in A : q[2] \in O}
  PROVE  /\ \A w : HandVouched(w, A) /\ Held(w.hand) \subseteq O => HandVouched(w, B)
         /\ \A a : ActionVouched(a, A) /\ (a.kind = "take" => a.target \in O)
                     => ActionVouched(a, B)
         /\ \A s : SaveVouched(s, A) /\ Held(s.hand) \subseteq O => SaveVouched(s, B)
<1>1. ASSUME NEW o, NEW x, Vouched(o, x, A), x \in O
      PROVE  Vouched(o, x, B)
  BY <1>1 DEF Vouched
<1>2. ASSUME NEW w, HandVouched(w, A), Held(w.hand) \subseteq O
      PROVE  HandVouched(w, B)
  BY <1>1, <1>2 DEF HandVouched
<1>3. ASSUME NEW a, ActionVouched(a, A), a.kind = "take" => a.target \in O
      PROVE  ActionVouched(a, B)
  BY <1>1, <1>3 DEF ActionVouched
<1>4. ASSUME NEW s, SaveVouched(s, A), Held(s.hand) \subseteq O
      PROVE  SaveVouched(s, B)
  <2>1. \A i \in DOMAIN s.hand : s.hand[i] \in O
    BY <1>4 DEF Held
  <2> QED
    BY <1>1, <1>4, <2>1 DEF SaveVouched
<1> QED
  BY <1>2, <1>3, <1>4

LEMMA OpenHolds ==
  ASSUME NEW ws, NEW cs, NEW q \in Peer
  PROVE  /\ Held(ws[q].hand) \subseteq Open(ws, cs)
         /\ Held(ws[q].saved.hand) \subseteq Open(ws, cs)
         /\ ws[q].action.kind = "take" => ws[q].action.target \in Open(ws, cs)
         /\ ws[q].saved.action.kind = "take"
              => ws[q].saved.action.target \in Open(ws, cs)
         /\ \A i \in DOMAIN cs : \A r \in Asking(cs[i]) : r[2] \in Open(ws, cs)
<1>1. AtHand(ws[q]) \subseteq Open(ws, cs)
  BY DEF Open
<1>2. PICK w : w = ws[q]
  OBVIOUS
<1>3. /\ Held(w.hand) \subseteq AtHand(w) /\ Held(w.saved.hand) \subseteq AtHand(w)
      /\ w.action.kind = "take" => w.action.target \in AtHand(w)
      /\ w.saved.action.kind = "take" => w.saved.action.target \in AtHand(w)
  BY DEF AtHand
<1>4. PICK all : all = UNION {Asking(cs[i]) : i \in DOMAIN cs}
  OBVIOUS
<1>5. PICK things : things = {r[2] : r \in all}
  OBVIOUS
<1>6. things \subseteq Open(ws, cs)
  BY <1>4, <1>5 DEF Open
<1>7. ASSUME NEW i \in DOMAIN cs, NEW r \in Asking(cs[i])
      PROVE  r[2] \in Open(ws, cs)
  <2>1. r \in all
    BY <1>4
  <2>2. r[2] \in things
    BY <1>5, <2>1
  <2> QED
    BY <1>6, <2>2
<1> QED
  BY <1>1, <1>2, <1>3, <1>7

LEMMA AskedApply ==
  ASSUME Shape, Asked, NEW p \in Peer, Apply(p)
  PROVE  Asked'
<1>1. PICK c : c = stream[at[p] + 1]
  OBVIOUS
<1>2. c \in Command /\ Asking(c) \subseteq asked
  BY <1>1, NextCommand DEF Asked
<1>3. PICK w : w = world[p]
  OBVIOUS
<1>4. PICK v : v = Applied(w, c)
  OBVIOUS
<1>5. /\ world'[p] = v /\ \A q \in Peer \ {p} : world'[q] = world[q]
      /\ Sound(p, c)
  BY <1>1, <1>3, <1>4 DEF Apply, Shape
<1>6. GoodWorld(w)
  BY <1>3 DEF Shape
<1>7. PICK O : O = Open(world', stream')
  OBVIOUS
<1>8. asked' = {q \in asked : q[2] \in O}
  BY <1>7 DEF Apply
<1>9. /\ ActionVouched(w.action, asked) /\ ActionVouched(w.saved.action, asked)
      /\ p \notin diverged => HandVouched(w, asked)
      /\ p \notin unsound => SaveVouched(w.saved, asked)
  BY <1>3 DEF Asked
<1>10. ActionVouched(v.action, asked)
  BY <1>2, <1>4, <1>6, <1>9, AppliedAction
<1>11. ActionVouched(v.saved.action, asked)
  <2>1. Saved(w).action = w.action
    BY DEF Saved
  <2> QED
    BY <1>2, <1>4, <1>6, <1>9, <2>1, AppliedSave
<1>12. p \notin diverged' => HandVouched(v, asked)
  <2>1. p \notin diverged' => /\ c.kind # "resync" => p \notin diverged
                              /\ c.kind = "resync" => p \notin unsound
    BY <1>5 DEF Sound
  <2> QED
    BY <1>2, <1>4, <1>6, <1>9, <2>1, AppliedHand
<1>13. p \notin unsound' => SaveVouched(v.saved, asked)
  <2>1. p \notin unsound' => /\ c.kind # "save" => p \notin unsound
                             /\ c.kind = "save" => p \notin diverged
    BY <1>5 DEF Sound
  <2> QED
    BY <1>2, <1>4, <1>6, <1>9, <2>1, AppliedSave, SavedVouched
<1>14. ASSUME NEW q \in Peer
       PROVE  /\ ActionVouched(world'[q].action, asked)
              /\ ActionVouched(world'[q].saved.action, asked)
              /\ q \notin diverged' => HandVouched(world'[q], asked)
              /\ q \notin unsound' => SaveVouched(world'[q].saved, asked)
  <2>1. CASE q = p
    BY <1>5, <1>10, <1>11, <1>12, <1>13, <2>1
  <2>2. CASE q # p
    <3>1. /\ world'[q] = world[q]
          /\ q \notin diverged' => q \notin diverged
          /\ q \notin unsound' => q \notin unsound
      BY <1>5, <2>2 DEF Sound
    <3> QED
      BY <3>1 DEF Asked
  <2> QED
    BY <2>1, <2>2
<1>15. ASSUME NEW q \in Peer
       PROVE  /\ Held(world'[q].hand) \subseteq O
              /\ Held(world'[q].saved.hand) \subseteq O
              /\ world'[q].action.kind = "take" => world'[q].action.target \in O
              /\ world'[q].saved.action.kind = "take"
                   => world'[q].saved.action.target \in O
  BY <1>7, OpenHolds
<1>16. /\ \A q \in Peer : /\ ActionVouched(world'[q].action, asked')
                          /\ ActionVouched(world'[q].saved.action, asked')
       /\ \A q \in Peer \ diverged' : HandVouched(world'[q], asked')
       /\ \A q \in Peer \ unsound' : SaveVouched(world'[q].saved, asked')
  BY ZenonT(60), <1>8, <1>14, <1>15, Remembered
<1>17. ASSUME NEW i \in 1..Len(stream')
       PROVE  Asking(stream'[i]) \subseteq asked'
  <2>1. Asking(stream'[i]) \subseteq asked
    BY Trimmed DEF Asked
  <2>2. i \in DOMAIN stream'
    BY Trimmed, LenProperties
  <2>3. \A r \in Asking(stream'[i]) : r[2] \in O
    BY <1>7, <2>2, OpenHolds
  <2> QED
    BY <1>8, <2>1, <2>3
<1> QED
  BY <1>16, <1>17 DEF Asked

LEMMA AskedDiverge ==
  ASSUME Shape, Asked, NEW p \in Peer, Diverge(p)
  PROVE  Asked'
<1>1. PICK x \in Thing, o \in Origin :
        world' = [world EXCEPT ![p] = Disowned(world[p], x, o)]
  BY DEF Diverge
<1>2. PICK w : w = world[p]
  OBVIOUS
<1>3. PICK f : f = [w.owner EXCEPT ![x] = o]
  OBVIOUS
<1>4. PICK v : v = [w EXCEPT !.owner = f]
  OBVIOUS
<1>5. v.saved = w.saved /\ v.action = w.action
  BY <1>2, <1>4 DEF Shape, World
<1>6. world' = [world EXCEPT ![p] = v]
  <2>1. Disowned(w, x, o) = v
    BY <1>3, <1>4 DEF Disowned
  <2> QED
    BY <1>1, <1>2, <2>1
<1>7. world'[p] = v /\ \A q \in Peer \ {p} : world'[q] = world[q]
  BY <1>6 DEF Shape
<1>8. /\ diverged' = diverged \cup {p}
      /\ UNCHANGED <<stream, unsound, asked>>
  BY DEF Diverge
<1>9. \A q \in Peer \ diverged' : HandVouched(world'[q], asked')
  BY <1>7, <1>8 DEF Asked
<1>10. \A q \in Peer : /\ world'[q].saved = world[q].saved
                       /\ world'[q].action = world[q].action
  BY <1>2, <1>5, <1>7
<1> QED
  BY <1>8, <1>9, <1>10 DEF Asked

LEMMA AskedNext == Shape /\ Asked /\ [Next]_vars => Asked'
<1> SUFFICES ASSUME Shape, Asked, [Next]_vars PROVE Asked'
  OBVIOUS
<1>1. CASE UNCHANGED vars
  BY <1>1 DEF vars, Asked
<1>2. CASE Next
  BY <1>2, AskedOrder, AskedApply, AskedDiverge DEF Next
<1> QED
  BY <1>1, <1>2

LEMMA AskedAlways == Spec => []Asked
BY AskedInit, AskedNext, ShapeAlways, PTL DEF Spec

\* Nothing is held in the name of a Controller that has not asked for it.
THEOREM OwnersAsked == Spec => []OwnerAsked
<1>1. Asked => OwnerAsked
  BY DEF Asked, OwnerAsked, HandVouched, Vouched
<1> QED
  BY <1>1, AskedAlways, PTL
-----------------------------------------------------------------------------
(* Places in order *)

LEMMA ListedPlaces ==
  ASSUME NEW N \in Nat, NEW P \in SUBSET (1..N)
  PROVE  \E n \in Nat : \E g \in [1..n -> P] : Lists(g, P)
<1> DEFINE Listed(Q) == \E n \in Nat : \E g \in [1..n -> Q] : Lists(g, Q)
           Bad == {m \in Nat : \E Q \in SUBSET (1..m) : ~Listed(Q)}
<1>1. SUFFICES ASSUME Bad # {} PROVE FALSE
  OBVIOUS
<1>2. PICK m \in Bad : \A j \in Bad : m <= j
  <2>1. Bad \in SUBSET Nat
    OBVIOUS
  <2> HIDE DEF Bad
  <2> QED
    BY <1>1, <2>1, LeastElement
<1>3. PICK Q \in SUBSET (1..m) : ~Listed(Q)
  OBVIOUS
<1>4. m \in Nat
  OBVIOUS
<1>5. Q # {}
  <2>1. [k \in 1..0 |-> k] \in [1..0 -> {}]
    OBVIOUS
  <2>2. PICK g : g = [k \in 1..0 |-> k]
    OBVIOUS
  <2>3. g \in [1..0 -> {}] /\ Lists(g, {})
    BY <2>1, <2>2 DEF Lists
  <2> QED
    BY <1>3, <2>3
<1>6. m # 0
  <2>1. 1..0 = {}
    OBVIOUS
  <2> HIDE DEF Bad
  <2>2. m = 0 => Q \subseteq 1..0
    BY <1>3
  <2> QED
    BY <1>5, <2>1, <2>2
<1>7. m - 1 \in Nat /\ m - 1 \notin Bad
  <2> HIDE DEF Bad
  <2> QED
    BY <1>2, <1>4, <1>6
<1>8. m \in Q
  <2>1. SUFFICES ASSUME m \notin Q PROVE FALSE
    OBVIOUS
  <2>2. Q \in SUBSET (1..m - 1)
    BY <1>4, <2>1
  <2> QED
    BY <1>3, <1>7, <2>2
<1>9. PICK R : R = Q \ {m}
  OBVIOUS
<1>10. R \in SUBSET (1..m - 1)
  BY <1>4, <1>9
<1>11. Listed(R)
  BY <1>7, <1>10
<1>n. PICK n \in Nat : \E g \in [1..n -> R] : Lists(g, R)
  BY <1>11
<1>12. PICK g \in [1..n -> R] : Lists(g, R)
  BY <1>n
<1> DEFINE e == [k \in 1..n + 1 |-> IF k = n + 1 THEN m ELSE g[k]]
<1>13. \A k \in 1..n + 1 : k # n + 1 => k \in 1..n
  OBVIOUS
<1>14. e \in [1..n + 1 -> Q]
  BY <1>8, <1>9, <1>13
<1>15. ASSUME NEW j \in 1..n + 1, NEW k \in 1..n + 1, j < k PROVE e[j] < e[k]
  <2>1. j \in 1..n
    BY <1>15
  <2>2. e[j] = g[j] /\ g[j] \in R
    BY <1>15, <2>1
  <2>3. CASE k = n + 1
    <3>1. e[k] = m
      BY <2>3
    <3>2. g[j] \in 1..m - 1
      BY <1>10, <2>2
    <3> QED
      BY <1>4, <2>2, <3>1, <3>2
  <2>4. CASE k # n + 1
    <3>1. k \in 1..n /\ e[k] = g[k]
      BY <1>13, <2>4
    <3>2. g[j] < g[k]
      BY <1>12, <1>15, <2>1, <3>1 DEF Lists
    <3> QED
      BY <2>2, <3>1, <3>2
  <2> QED
    BY <2>3, <2>4
<1>16. ASSUME NEW i \in Q PROVE \E k \in 1..n + 1 : e[k] = i
  <2>1. CASE i = m
    <3>1. n + 1 \in 1..n + 1
      OBVIOUS
    <3> QED
      BY <2>1, <3>1
  <2>2. CASE i # m
    <3>1. PICK k \in 1..n : g[k] = i
      BY <1>9, <1>12, <2>2 DEF Lists
    <3>2. k \in 1..n + 1 /\ k # n + 1
      OBVIOUS
    <3> QED
      BY <3>1, <3>2
  <2> QED
    BY <2>1, <2>2
<1>17. Lists(e, Q)
  <2>1. DOMAIN e = 1..n + 1
    OBVIOUS
  <2> HIDE DEF e
  <2> QED
    BY <1>15, <1>16, <2>1 DEF Lists
<1>18. n + 1 \in Nat
  OBVIOUS
<1> HIDE DEF e
<1> QED
  BY <1>3, <1>14, <1>17, <1>18

\* g lists the n places P.
Listing(g, n, P) == n \in Nat /\ g \in [1..n -> P] /\ Lists(g, P)

LEMMA InPlaces ==
  ASSUME NEW N \in Nat, NEW P \in SUBSET (1..N), NEW n \in Nat, NEW g \in [1..n -> P]
  PROVE  \A k \in 1..n : g[k] \in P /\ g[k] \in 1..N /\ g[k] \in Nat
<1>1. \A k \in 1..n : g[k] \in P
  OBVIOUS
<1>2. \A i \in P : i \in 1..N /\ i \in Nat
  OBVIOUS
<1> QED
  BY <1>1, <1>2

\* Places, of a stack however high.
Bounded(P) == \E N \in Nat : P \subseteq 1..N

GoesOn(m, f, n, g, Q) ==
  /\ m <= n
  /\ \A k \in 1..m : g[k] = f[k]
  /\ \A k \in m + 1..n : g[k] \in Q

\* Of two sets, one of which goes on after the end of the other, the lists begin alike.
LEMMA ListGoesOn ==
  ASSUME NEW P, NEW Q, P \subseteq Q, Bounded(Q),
         \A i \in P : \A j \in Q \ P : i < j,
         NEW m, NEW f, Listing(f, m, P),
         NEW n, NEW g, Listing(g, n, Q)
  PROVE  GoesOn(m, f, n, g, Q \ P)
<1>0. /\ \A k \in 1..m : f[k] \in P /\ f[k] \in Nat
      /\ \A k \in 1..n : g[k] \in Q /\ g[k] \in Nat
      /\ m \in Nat /\ n \in Nat /\ DOMAIN f = 1..m /\ DOMAIN g = 1..n
  <2>1. f \in [1..m -> P] /\ g \in [1..n -> Q] /\ m \in Nat /\ n \in Nat
    BY DEF Listing
  <2>n. PICK N \in Nat : Q \subseteq 1..N
    BY DEF Bounded
  <2>2. P \in SUBSET (1..N) /\ Q \in SUBSET (1..N)
    BY <2>n
  <2> QED
    BY <2>1, <2>2, InPlaces
<1>1. /\ \A j, k \in 1..m : j < k => f[j] < f[k]
      /\ \A j, k \in 1..n : j < k => g[j] < g[k]
      /\ \A i \in P : \E k \in 1..m : f[k] = i
      /\ \A i \in Q : \E k \in 1..n : g[k] = i
  BY <1>0 DEF Lists, Listing
<1> DEFINE Off == {k \in 1..m : ~(k <= n /\ g[k] = f[k])}
<1>2. Off = {}
  <2>1. SUFFICES ASSUME Off # {} PROVE FALSE
    OBVIOUS
  <2>2. PICK k \in Off : \A j \in Off : k <= j
    <3>1. Off \in SUBSET Nat
      OBVIOUS
    <3> HIDE DEF Off
    <3> QED
      BY <2>1, <3>1, LeastElement
  <2>3. k \in 1..m
    OBVIOUS
  <2>4. \A j \in 1..m : j < k => j \in 1..n /\ g[j] = f[j]
    <3>1. \A j \in 1..m : j < k => j \notin Off
      <4> HIDE DEF Off
      <4> QED
        BY <2>2, <2>3
    <3> QED
      BY <3>1
  <2>5. PICK l \in 1..n : g[l] = f[k]
    BY <1>0, <1>1, <2>3
  <2>6. ~(l < k)
    <3>1. SUFFICES ASSUME l < k PROVE FALSE
      OBVIOUS
    <3>2. l \in 1..m /\ g[l] = f[l]
      BY <1>0, <2>3, <2>4, <3>1
    <3>3. f[l] < f[k]
      BY <1>1, <2>3, <3>1, <3>2
    <3>4. f[l] = f[k] /\ f[k] \in Nat
      BY <1>0, <2>3, <2>5, <3>2
    <3> QED
      BY <3>3, <3>4
  <2>7. k \in 1..n /\ g[k] <= f[k]
    <3>1. k \in 1..n
      BY <1>0, <2>3, <2>6
    <3>2. k < l \/ k = l
      BY <2>3, <2>6
    <3>3. k < l => g[k] < g[l]
      BY <1>1, <3>1
    <3>4. g[k] \in Nat /\ g[l] \in Nat
      BY <1>0, <3>1
    <3>5. g[k] <= g[l]
      BY <3>2, <3>3, <3>4
    <3> QED
      BY <2>5, <3>1, <3>5
  <2>8. g[k] \in P
    BY <1>0, <2>3, <2>7
  <2>9. PICK j \in 1..m : f[j] = g[k]
    BY <1>1, <2>8
  <2>10. ~(j < k)
    <3>1. SUFFICES ASSUME j < k PROVE FALSE
      OBVIOUS
    <3>2. j \in 1..n /\ g[j] = g[k]
      BY <2>4, <2>9, <3>1
    <3> QED
      BY <1>0, <1>1, <2>7, <3>1, <3>2
  <2>11. f[k] <= f[j]
    <3>1. k < j \/ k = j
      BY <2>3, <2>10
    <3> QED
      BY <1>0, <1>1, <2>3, <3>1
  <2> QED
    BY <1>0, <2>2, <2>3, <2>7, <2>9, <2>11
<1>3. \A k \in 1..m : k <= n /\ g[k] = f[k]
  BY <1>2
<1>4. m <= n
  <2>1. m \in 1..m \/ m = 0
    BY <1>0
  <2> QED
    BY <1>0, <1>3, <2>1
<1>5. ASSUME NEW k \in m + 1..n PROVE g[k] \in Q \ P
  <2>1. SUFFICES ASSUME g[k] \in P PROVE FALSE
    BY <1>0
  <2>2. PICK j \in 1..m : f[j] = g[k]
    BY <1>1, <2>1
  <2>3. j \in 1..n /\ k \in 1..n /\ j < k
    BY <1>0, <1>4
  <2>4. g[j] = g[k]
    BY <1>3, <2>2
  <2> QED
    BY <1>0, <1>1, <2>3, <2>4
<1> QED
  BY <1>3, <1>4, <1>5 DEF GoesOn

LEMMA ListLength ==
  ASSUME NEW P, Bounded(P), NEW n, NEW g, Listing(g, n, P)
  PROVE  Cardinality(P) = n
<1> USE DEF Listing
<1>1. \A i \in P : \E k \in 1..n : g[k] = i
  BY DEF Lists
<1>2. \A j, k \in 1..n : g[j] = g[k] => j = k
  <2>1. \A j, k \in 1..n : j < k => g[j] < g[k]
    BY DEF Lists
  <2>2. \A k \in 1..n : g[k] \in Nat
    BY InPlaces DEF Bounded
  <2>3. \A j, k \in 1..n : j < k \/ k < j \/ j = k
    OBVIOUS
  <2> QED
    BY <2>1, <2>2, <2>3
<1>3. g \in Bijection(1..n, P)
  BY <1>1, <1>2 DEF Bijection, Injection, Surjection, IsInjective
<1>4. ExistsBijection(1..n, P)
  BY <1>3 DEF ExistsBijection
<1>5. IsFiniteSet(1..n) /\ Cardinality(1..n) = n
  BY FS_Interval
<1> QED
  BY <1>4, <1>5, FS_Bijection

Along(h, n, g) == [k \in 1..n |-> h[g[k]]]

\* Whatever lists the places gives the entries.
LEMMA EntriesBy ==
  ASSUME NEW P, Bounded(P), NEW h, NEW n, NEW g, Listing(g, n, P)
  PROVE  Entries(h, P) = Along(h, n, g)
<1>1. Cardinality(P) = n
  BY ListLength
<1>2. PICK f : f = CHOOSE e \in [1..Cardinality(P) -> P] : Lists(e, P)
  OBVIOUS
<1>3. f \in [1..n -> P] /\ Lists(f, P) /\ Listing(f, n, P)
  BY <1>1, <1>2 DEF Listing
<1>4. \A k \in 1..n : g[k] = f[k]
  <2>1. P \subseteq P /\ \A i \in P : \A j \in P \ P : i < j
    OBVIOUS
  <2>2. GoesOn(n, f, n, g, P \ P)
    BY <1>3, <2>1, ListGoesOn
  <2> QED
    BY <2>2 DEF GoesOn
<1>5. Entries(h, P) = [k \in DOMAIN f |-> h[f[k]]]
  BY <1>2 DEF Entries
<1> QED
  BY <1>3, <1>4, <1>5 DEF Along

-----------------------------------------------------------------------------
(* Separate hands *)

\* The places of what o holds.
Mine(w, o) == {i \in DOMAIN w.hand : w.owner[w.hand[i]] = o}

Hands(w) == [o \in Origin |-> HandOf(w, o)]
SavedHands(s) == [o \in Origin |-> SavedHandOf(s, o)]
Dropping(w) == IF w.action.kind = "drop" THEN w.action.who ELSE NoOne

LEMMA MinePlaces ==
  ASSUME NEW w, GoodWorld(w), NEW o
  PROVE  Mine(w, o) \in SUBSET (1..Len(w.hand)) /\ Len(w.hand) \in Nat
         /\ DOMAIN w.hand = 1..Len(w.hand)
BY LenProperties DEF GoodWorld, GoodHand, Mine

\* The hand of o in w, by a list g of its n places.
ByList(w, o, n, g) ==
  /\ Listing(g, n, Mine(w, o))
  /\ HandOf(w, o) = [k \in 1..n |-> w.hand[g[k]]]
  /\ HandOf(w, o) \in Seq(Thing) /\ Len(HandOf(w, o)) = n

LEMMA HandBy ==
  ASSUME NEW w, GoodWorld(w), NEW o
  PROVE  \E n, g : ByList(w, o, n, g)
<1>1. PICK N \in Nat : N = Len(w.hand)
  BY MinePlaces
<1>2. PICK P \in SUBSET (1..N) : P = Mine(w, o)
  BY <1>1, MinePlaces
<1>n. PICK n, g : Listing(g, n, P)
  BY ListedPlaces DEF Listing
<1>3. n \in Nat /\ g \in [1..n -> P]
  BY <1>n DEF Listing
<1>4. Entries(w.hand, P) = [k \in 1..n |-> w.hand[g[k]]]
  <2>1. PICK h : h = w.hand
    OBVIOUS
  <2>2. Bounded(P)
    BY DEF Bounded
  <2>3. Entries(h, P) = Along(h, n, g)
    BY <1>n, <2>2, EntriesBy
  <2> QED
    BY <2>1, <2>3 DEF Along
<1>5. HandOf(w, o) = [k \in 1..n |-> w.hand[g[k]]]
  BY <1>2, <1>4 DEF HandOf, Mine
<1>6. \A k \in 1..n : w.hand[g[k]] \in Thing
  <2>1. \A k \in 1..n : g[k] \in 1..Len(w.hand)
    BY <1>1, <1>3, InPlaces
  <2>2. \A i \in 1..Len(w.hand) : w.hand[i] \in Thing
    BY DEF GoodWorld, GoodHand
  <2> QED
    BY <2>1, <2>2
<1>7. [k \in 1..n |-> w.hand[g[k]]] \in Seq(Thing)
  BY <1>3, <1>6
<1>8. Len([k \in 1..n |-> w.hand[g[k]]]) = n
  BY <1>3
<1> QED
  BY <1>2, <1>n, <1>5, <1>7, <1>8 DEF ByList

\* What is held stays, where it is and whose it is; more may come on top.
Grown(w, v) ==
  /\ Len(w.hand) <= Len(v.hand)
  /\ \A i \in 1..Len(w.hand) :
       v.hand[i] = w.hand[i] /\ v.owner[w.hand[i]] = w.owner[w.hand[i]]

LEMMA GrownExtends ==
  ASSUME NEW w, NEW v, GoodWorld(w), GoodWorld(v), Grown(w, v), NEW o
  PROVE  /\ Len(HandOf(w, o)) <= Len(HandOf(v, o))
         /\ SubSeq(HandOf(v, o), 1, Len(HandOf(w, o))) = HandOf(w, o)
         /\ \A i \in Len(HandOf(w, o)) + 1..Len(HandOf(v, o)) :
              HandOf(v, o)[i] \in Thing \ Held(w.hand)
<1>1. /\ Mine(w, o) \in SUBSET (1..Len(v.hand)) /\ Mine(v, o) \in SUBSET (1..Len(v.hand))
      /\ Len(w.hand) \in Nat /\ Len(v.hand) \in Nat
      /\ DOMAIN w.hand = 1..Len(w.hand) /\ DOMAIN v.hand = 1..Len(v.hand)
      /\ Mine(w, o) \in SUBSET (1..Len(w.hand))
  <2>1. 1..Len(w.hand) \subseteq 1..Len(v.hand)
    BY MinePlaces DEF Grown
  <2> QED
    BY <2>1, MinePlaces
<1>2. \A i \in 1..Len(w.hand) : i \in Mine(w, o) <=> i \in Mine(v, o)
  BY <1>1 DEF Mine, Grown
<1>3. Mine(w, o) \subseteq Mine(v, o)
  BY <1>1, <1>2
<1>4. \A j \in Mine(v, o) \ Mine(w, o) : j \in 1..Len(v.hand) /\ Len(w.hand) < j
  BY <1>1, <1>2
<1>5. \A i \in Mine(w, o) : \A j \in Mine(v, o) \ Mine(w, o) : i < j
  BY <1>1, <1>4
<1>6. PICK m, f : ByList(w, o, m, f)
  BY HandBy
<1>7. PICK n, g : ByList(v, o, n, g)
  BY HandBy
<1>y. m \in Nat /\ n \in Nat /\ f \in [1..m -> Mine(w, o)] /\ g \in [1..n -> Mine(v, o)]
  BY <1>6, <1>7 DEF ByList, Listing
<1>8. /\ m <= n
      /\ \A k \in 1..m : g[k] = f[k]
      /\ \A k \in m + 1..n : g[k] \in Mine(v, o) \ Mine(w, o)
  <2>1. Bounded(Mine(v, o))
    BY <1>1 DEF Bounded
  <2>2. Listing(f, m, Mine(w, o)) /\ Listing(g, n, Mine(v, o))
    BY <1>6, <1>7 DEF ByList
  <2>3. GoesOn(m, f, n, g, Mine(v, o) \ Mine(w, o))
    BY <1>3, <1>5, <2>1, <2>2, ListGoesOn
  <2> QED
    BY <2>3 DEF GoesOn
<1>9. \A k \in 1..m : HandOf(v, o)[k] = HandOf(w, o)[k]
  <2>1. ASSUME NEW k \in 1..m PROVE HandOf(v, o)[k] = HandOf(w, o)[k]
    <3>1. k \in 1..n /\ g[k] = f[k] /\ f[k] \in 1..Len(w.hand)
      BY <1>1, <1>y, <1>8
    <3>2. v.hand[f[k]] = w.hand[f[k]]
      BY <3>1 DEF Grown
    <3> QED
      BY <1>6, <1>7, <3>1, <3>2 DEF ByList
  <2> QED
    BY <2>1
<1>10. SubSeq(HandOf(v, o), 1, m) = HandOf(w, o)
  <2>1. PICK a \in Seq(Thing) : a = HandOf(w, o) /\ Len(a) = m
    BY <1>6 DEF ByList
  <2>2. PICK b \in Seq(Thing) : b = HandOf(v, o) /\ Len(b) = n
    BY <1>7 DEF ByList
  <2>3. /\ SubSeq(b, 1, m) \in Seq(Thing) /\ Len(SubSeq(b, 1, m)) = m
        /\ \A k \in 1..m : SubSeq(b, 1, m)[k] = b[k]
    BY <1>y, <1>8, <2>2, SubSeqProperties, ElementOfSeq
  <2> QED
    BY <1>9, <2>1, <2>2, <2>3, SeqEqual
<1>11. ASSUME NEW k \in m + 1..n PROVE HandOf(v, o)[k] \in Thing \ Held(w.hand)
  <2>1. k \in 1..n
    BY <1>y
  <2>2. HandOf(v, o)[k] = v.hand[g[k]]
    BY <1>7, <2>1 DEF ByList
  <2>3. g[k] \in 1..Len(v.hand) /\ Len(w.hand) < g[k]
    BY <1>4, <1>8
  <2>4. v.hand[g[k]] \in Thing
    BY <2>3 DEF GoodWorld, GoodHand
  <2>5. ASSUME NEW i \in 1..Len(w.hand) PROVE v.hand[g[k]] # w.hand[i]
    <3>1. v.hand[i] = w.hand[i] /\ i \in 1..Len(v.hand) /\ i # g[k]
      BY <1>1, <2>3 DEF Grown
    <3> QED
      BY <1>1, <2>3, <3>1 DEF GoodWorld, GoodHand
  <2> QED
    BY <1>1, <2>2, <2>4, <2>5 DEF Held
<1>12. Len(HandOf(w, o)) = m /\ Len(HandOf(v, o)) = n
  BY <1>6, <1>7 DEF ByList
<1> QED
  BY <1>8, <1>10, <1>11, <1>12

LEMMA GrownOn ==
  ASSUME NEW u, NEW w, NEW v, GoodWorld(u), GoodWorld(w), GoodWorld(v),
         Grown(u, w), Grown(w, v)
  PROVE  Grown(u, v)
<1>1. Len(u.hand) \in Nat /\ Len(w.hand) \in Nat /\ Len(v.hand) \in Nat
  BY MinePlaces
<1>2. \A i \in 1..Len(u.hand) : i \in 1..Len(w.hand)
  BY <1>1 DEF Grown
<1> QED
  BY SMTT(40), <1>1, <1>2 DEF Grown

-----------------------------------------------------------------------------
(* How a hand comes to change *)

LEMMA HandIs ==
  ASSUME NEW w, GoodWorld(w), NEW o, NEW n, NEW g, Listing(g, n, Mine(w, o))
  PROVE  HandOf(w, o) = Along(w.hand, n, g)
<1>1. Len(w.hand) \in Nat /\ Mine(w, o) \subseteq 1..Len(w.hand)
  BY MinePlaces
<1>2. HandOf(w, o) = Entries(w.hand, Mine(w, o))
  BY DEF HandOf, Mine
<1>3. Bounded(Mine(w, o))
  BY <1>1 DEF Bounded
<1>4. Entries(w.hand, Mine(w, o)) = Along(w.hand, n, g)
  BY <1>3, EntriesBy
<1> QED
  BY <1>2, <1>4

\* Only the stack and the owners tell what anyone holds.
LEMMA HandSame ==
  ASSUME NEW w, NEW v, w.hand = v.hand, w.owner = v.owner, NEW o
  PROVE  HandOf(w, o) = HandOf(v, o)
BY DEF HandOf

\* What a hand holds is held, and is its Controller's; nothing is in a hand twice.
LEMMA HandEntries ==
  ASSUME NEW w, GoodWorld(w), NEW o
  PROVE  /\ \A k \in 1..Len(HandOf(w, o)) :
              /\ HandOf(w, o)[k] \in Held(w.hand)
              /\ w.owner[HandOf(w, o)[k]] = o
         /\ \A j, k \in 1..Len(HandOf(w, o)) : HandOf(w, o)[j] = HandOf(w, o)[k] => j = k
<1>1. PICK n, g : ByList(w, o, n, g)
  BY HandBy
<1>2. /\ n \in Nat /\ g \in [1..n -> Mine(w, o)] /\ Len(HandOf(w, o)) = n
      /\ \A j, k \in 1..n : j < k => g[j] < g[k]
  BY <1>1 DEF ByList, Listing, Lists
<1>3. \A k \in 1..n : g[k] \in Mine(w, o) /\ g[k] \in 1..Len(w.hand) /\ g[k] \in DOMAIN w.hand
  BY <1>2, MinePlaces
<1>4. \A k \in 1..n : HandOf(w, o)[k] = w.hand[g[k]]
  BY <1>1 DEF ByList
<1>5. ASSUME NEW k \in 1..n
      PROVE  HandOf(w, o)[k] \in Held(w.hand) /\ w.owner[HandOf(w, o)[k]] = o
  BY <1>3, <1>4 DEF Mine, Held
<1>6. ASSUME NEW j \in 1..n, NEW k \in 1..n, HandOf(w, o)[j] = HandOf(w, o)[k]
      PROVE  j = k
  <2>1. g[j] = g[k]
    BY <1>3, <1>4, <1>6 DEF GoodWorld, GoodHand
  <2>2. g[j] \in Nat /\ g[k] \in Nat
    BY <1>3, MinePlaces
  <2>3. j < k \/ k < j \/ j = k
    BY <1>2
  <2> QED
    BY <1>2, <2>1, <2>2, <2>3
<1> QED
  BY <1>2, <1>5, <1>6

\* All hands together hold no more than the stack.
LEMMA PlacesFew ==
  ASSUME NEW w, GoodWorld(w)
  PROVE  Cardinality(Separate!Places(Hands(w))) <= Capacity
<1> DEFINE S == Separate!Places(Hands(w))
           T == 1..Len(w.hand)
<1>1. ASSUME NEW q \in S
      PROVE  /\ q = <<q[1], q[2]>> /\ q[1] \in Origin
             /\ q[2] \in 1..Len(HandOf(w, q[1]))
  <2>1. PICK o \in Origin : q \in {o} \X DOMAIN Hands(w)[o]
    BY DEF Separate!Places
  <2>2. DOMAIN HandOf(w, o) = 1..Len(HandOf(w, o))
    <3>1. PICK n, g : ByList(w, o, n, g)
      BY HandBy
    <3> QED
      BY <3>1, LenProperties DEF ByList
  <2>3. DOMAIN Hands(w)[o] = 1..Len(HandOf(w, o))
    BY <2>2 DEF Hands
  <2> QED
    BY <2>1, <2>3
<1> DEFINE f == [q \in S |-> Place(w.hand, HandOf(w, q[1])[q[2]])]
<1>2. ASSUME NEW q \in S
      PROVE  f[q] \in T /\ w.hand[f[q]] = HandOf(w, q[1])[q[2]]
  <2>1. HandOf(w, q[1])[q[2]] \in Held(w.hand)
    BY <1>1, HandEntries
  <2>2. f[q] = Place(w.hand, HandOf(w, q[1])[q[2]])
    OBVIOUS
  <2> QED
    BY <2>1, <2>2, PlaceIs, MinePlaces
<1>3. ASSUME NEW q \in S, NEW r \in S, f[q] = f[r]
      PROVE  q = r
  <2>1. HandOf(w, q[1])[q[2]] = HandOf(w, r[1])[r[2]]
    BY <1>2, <1>3
  <2>2. q[1] = r[1]
    <3>1. w.owner[HandOf(w, q[1])[q[2]]] = q[1]
      BY <1>1, HandEntries
    <3>2. w.owner[HandOf(w, r[1])[r[2]]] = r[1]
      BY <1>1, HandEntries
    <3> QED
      BY <2>1, <3>1, <3>2
  <2>3. q[2] = r[2]
    BY <1>1, <2>1, <2>2, HandEntries
  <2> QED
    BY <1>1, <2>2, <2>3
<1>4. DOMAIN f = S
  OBVIOUS
<1> HIDE DEF f, S
<1>5. f \in [S -> T]
  <2>1. f = [q \in S |-> f[q]]
    BY <1>4 DEF f
  <2> QED
    BY <1>2, <2>1
<1>6. f \in Injection(S, T)
  BY <1>3, <1>5 DEF Injection, IsInjective
<1>7. Len(w.hand) \in Nat /\ Len(w.hand) <= Capacity
  BY MinePlaces DEF GoodWorld, GoodHand
<1>8. IsFiniteSet(T) /\ Cardinality(T) = Len(w.hand)
  <2>1. PICK n \in Nat : n = Len(w.hand)
    BY <1>7
  <2>2. IsFiniteSet(1..n) /\ Cardinality(1..n) = IF 1 > n THEN 0 ELSE n - 1 + 1
    BY FS_Interval
  <2> QED
    BY <2>1, <2>2
<1> HIDE DEF T
<1>9. Cardinality(S) <= Cardinality(T) /\ Cardinality(S) \in Nat
  BY <1>6, <1>8, FS_Injection, FS_CardinalityType DEF ExistsInjection
<1> QED
  BY <1>7, <1>8, <1>9 DEF S

LEMMA TakeThingGrows ==
  ASSUME NEW w, GoodWorld(w), NEW x \in Thing, NEW o \in Origin
  PROVE  Grown(w, TakeThing(w, x, o)) /\ TakeThing(w, x, o).saved = w.saved
<1>1. CASE ~ Blocked(w, x) /\ Fits(w, x)
  <2>1. PICK e : e = CompletingOrigin(w.action, x, o)
    OBVIOUS
  <2>2. TakeThing(w, x, o) =
          [w EXCEPT !.hand = Append(w.hand, x), !.owner = [w.owner EXCEPT ![x] = e]]
    BY <1>1, <2>1 DEF TakeThing, Owned, GoodWorld, World
  <2>3. w.hand \in Seq(Thing) /\ w.owner \in [Thing -> Origin]
    BY DEF GoodWorld, World
  <2>4. /\ Len(Append(w.hand, x)) = Len(w.hand) + 1 /\ Len(w.hand) \in Nat
        /\ \A i \in 1..Len(w.hand) : Append(w.hand, x)[i] = w.hand[i]
    BY <2>3, AppendProperties, LenProperties
  <2>5. \A i \in 1..Len(w.hand) : w.hand[i] # x /\ w.hand[i] \in Thing
    BY <1>1, <2>3, MinePlaces DEF Fits, Held
  <2>6. PICK v : v = TakeThing(w, x, o)
    OBVIOUS
  <2>7. /\ v.hand = Append(w.hand, x) /\ v.owner = [w.owner EXCEPT ![x] = e]
        /\ v.saved = w.saved
    BY <2>2, <2>6 DEF GoodWorld, World
  <2> QED
    BY <2>3, <2>4, <2>5, <2>6, <2>7 DEF Grown
<1>2. CASE ~ (~ Blocked(w, x) /\ Fits(w, x))
  BY <1>2, MinePlaces DEF TakeThing, Grown
<1> QED
  BY <1>1, <1>2

\* Entry i is taken out of the stack.
Dropped(w, i) == [w EXCEPT !.hand = Without(w.hand, i)]

LEMMA DroppedIs ==
  ASSUME NEW w, GoodWorld(w), NEW i \in 1..Len(w.hand)
  PROVE  /\ GoodWorld(Dropped(w, i))
         /\ Dropped(w, i).hand = Without(w.hand, i)
         /\ Dropped(w, i).owner = w.owner
         /\ Dropped(w, i).saved = w.saved
         /\ Len(Dropped(w, i).hand) = Len(w.hand) - 1
<1>1. PICK h : h = Without(w.hand, i)
  OBVIOUS
<1>2. GoodHand(h) /\ Held(h) \subseteq Held(w.hand)
  BY <1>1, PromotedAndPopped DEF GoodWorld
<1>3. Len(h) = Len(w.hand) - 1
  BY <1>1, MinePlaces DEF Without
<1>4. Dropped(w, i) = [w EXCEPT !.hand = h]
  BY <1>1 DEF Dropped
<1> QED
  BY <1>1, <1>2, <1>3, <1>4 DEF GoodWorld, World, GoodHand

\* What the others hold keeps its order, wherever it is now.
LEMMA DroppedElse ==
  ASSUME NEW w, GoodWorld(w), NEW i \in 1..Len(w.hand),
         NEW o, w.owner[w.hand[i]] # o
  PROVE  HandOf(Dropped(w, i), o) = HandOf(w, o)
<1>1. PICK n, g : ByList(w, o, n, g)
  BY HandBy
<1>2. PICK v : v = Dropped(w, i)
  OBVIOUS
<1>3. /\ GoodWorld(v) /\ v.owner = w.owner /\ v.hand = Without(w.hand, i)
      /\ Len(w.hand) \in Nat /\ DOMAIN w.hand = 1..Len(w.hand)
      /\ DOMAIN v.hand = 1..(Len(w.hand) - 1)
  BY <1>2, DroppedIs, MinePlaces
<1>4. \A j \in 1..(Len(w.hand) - 1) : v.hand[j] = w.hand[IF j < i THEN j ELSE j + 1]
  BY <1>3 DEF Without
<1>5. /\ n \in Nat /\ g \in [1..n -> Mine(w, o)]
      /\ \A j, k \in 1..n : j < k => g[j] < g[k]
      /\ \A j \in Mine(w, o) : \E k \in 1..n : g[k] = j
  BY <1>1 DEF ByList, Listing, Lists
<1>6. \A k \in 1..n : g[k] \in Mine(w, o) /\ g[k] \in 1..Len(w.hand) /\ g[k] # i
  BY <1>3, <1>5 DEF Mine
<1> DEFINE e == [k \in 1..n |-> IF g[k] < i THEN g[k] ELSE g[k] - 1]
<1>7. \A k \in 1..n : /\ e[k] \in 1..(Len(w.hand) - 1)
                      /\ v.hand[e[k]] = w.hand[g[k]]
                      /\ e[k] \in Mine(v, o)
  <2>1. ASSUME NEW k \in 1..n
        PROVE  e[k] \in 1..(Len(w.hand) - 1) /\ v.hand[e[k]] = w.hand[g[k]]
    <3>1. CASE g[k] < i
      <4>1. e[k] = g[k] /\ e[k] \in 1..(Len(w.hand) - 1)
        BY <1>3, <1>6, <3>1
      <4> HIDE DEF e
      <4> QED
        BY <1>4, <3>1, <4>1
    <3>2. CASE ~(g[k] < i)
      <4>1. /\ e[k] = g[k] - 1 /\ e[k] \in 1..(Len(w.hand) - 1)
            /\ ~(e[k] < i) /\ e[k] + 1 = g[k]
        BY SMTT(40), <1>3, <1>6, <3>2
      <4> HIDE DEF e
      <4> QED
        BY <1>4, <4>1
    <3> QED
      BY <3>1, <3>2
  <2> HIDE DEF e
  <2> QED
    BY <1>3, <1>6, <2>1 DEF Mine
<1>8. \A j, k \in 1..n : j < k => e[j] < e[k]
  <2>1. ASSUME NEW j \in 1..n, NEW k \in 1..n, j < k PROVE e[j] < e[k]
    <3>1. g[j] < g[k] /\ g[j] \in Nat /\ g[k] \in Nat /\ g[j] # i /\ g[k] # i
      BY <1>3, <1>5, <1>6, <2>1
    <3> QED
      BY <3>1
  <2> QED
    BY <2>1
<1>9. ASSUME NEW j \in Mine(v, o) PROVE \E k \in 1..n : e[k] = j
  <2>1. j \in 1..(Len(w.hand) - 1) /\ w.owner[v.hand[j]] = o
    BY <1>3 DEF Mine
  <2>2. PICK l : l = IF j < i THEN j ELSE j + 1
    OBVIOUS
  <2>3. l \in 1..Len(w.hand) /\ v.hand[j] = w.hand[l]
    BY <1>3, <1>4, <2>1, <2>2
  <2>4. l \in Mine(w, o)
    BY <1>3, <2>1, <2>3 DEF Mine
  <2>5. PICK k \in 1..n : g[k] = l
    BY <1>5, <2>4
  <2>6. e[k] = j
    BY <1>3, <2>1, <2>2, <2>5
  <2> QED
    BY <2>6
<1>10. Listing(e, n, Mine(v, o))
  <2>1. e \in [1..n -> Mine(v, o)]
    BY <1>7
  <2>2. DOMAIN e = 1..n
    OBVIOUS
  <2> HIDE DEF e
  <2> QED
    BY <1>5, <1>8, <1>9, <2>1, <2>2 DEF Listing, Lists
<1>11. HandOf(v, o) = Along(v.hand, n, e)
  <2> HIDE DEF e
  <2> QED
    BY <1>3, <1>10, HandIs
<1>12. Along(v.hand, n, e) = [k \in 1..n |-> w.hand[g[k]]]
  <2> HIDE DEF e
  <2> QED
    BY <1>7 DEF Along
<1> QED
  BY <1>1, <1>2, <1>11, <1>12 DEF ByList

\* Whoever owned it has lost the last of its hand, if it had nothing above it.
LEMMA DroppedMine ==
  ASSUME NEW w, GoodWorld(w), NEW i \in 1..Len(w.hand),
         NEW o, w.owner[w.hand[i]] = o, \A j \in Mine(w, o) : j <= i
  PROVE  /\ HandOf(w, o) # << >>
         /\ HandOf(Dropped(w, i), o) = SubSeq(HandOf(w, o), 1, Len(HandOf(w, o)) - 1)
<1>1. PICK n, g : ByList(w, o, n, g)
  BY HandBy
<1>2. PICK v : v = Dropped(w, i)
  OBVIOUS
<1>3. /\ GoodWorld(v) /\ v.owner = w.owner /\ v.hand = Without(w.hand, i)
      /\ Len(w.hand) \in Nat /\ DOMAIN w.hand = 1..Len(w.hand)
      /\ DOMAIN v.hand = 1..(Len(w.hand) - 1)
  BY <1>2, DroppedIs, MinePlaces
<1>4. \A j \in 1..(Len(w.hand) - 1) : v.hand[j] = w.hand[IF j < i THEN j ELSE j + 1]
  BY <1>3 DEF Without
<1>5. /\ n \in Nat /\ g \in [1..n -> Mine(w, o)]
      /\ \A j, k \in 1..n : j < k => g[j] < g[k]
      /\ \A j \in Mine(w, o) : \E k \in 1..n : g[k] = j
  BY ZenonT(60), <1>1 DEF ByList, Listing, Lists
<1>6. \A k \in 1..n : g[k] \in Mine(w, o) /\ g[k] \in 1..Len(w.hand) /\ g[k] <= i
  BY <1>3, <1>5 DEF Mine
<1>7. n \in 1..n /\ g[n] = i
  <2>1. i \in Mine(w, o)
    BY <1>3 DEF Mine
  <2>2. PICK k \in 1..n : g[k] = i
    BY <1>5, <2>1
  <2>3. n \in 1..n
    BY <1>5, <2>2
  <2>4. ~(k < n)
    <3>1. SUFFICES ASSUME k < n PROVE FALSE
      OBVIOUS
    <3>2. g[k] < g[n]
      BY <1>5, <2>3, <3>1
    <3> QED
      BY <1>3, <1>6, <2>2, <2>3, <3>2
  <2> QED
    BY <1>5, <2>2, <2>3, <2>4
<1>8. \A k \in 1..(n - 1) : k \in 1..n /\ g[k] < i
  BY <1>5, <1>7
<1> DEFINE e == [k \in 1..(n - 1) |-> g[k]]
<1>9. \A k \in 1..(n - 1) : /\ e[k] = g[k] /\ e[k] \in 1..(Len(w.hand) - 1)
                            /\ v.hand[e[k]] = w.hand[g[k]]
                            /\ e[k] \in Mine(v, o)
  <2>1. ASSUME NEW k \in 1..(n - 1)
        PROVE  e[k] = g[k] /\ e[k] \in 1..(Len(w.hand) - 1) /\ e[k] < i
    BY <1>3, <1>6, <1>8
  <2> HIDE DEF e
  <2>2. \A k \in 1..(n - 1) : v.hand[e[k]] = w.hand[g[k]]
    BY <1>4, <2>1
  <2> QED
    BY <1>3, <1>6, <1>8, <2>1, <2>2 DEF Mine
<1>10. \A j, k \in 1..(n - 1) : j < k => e[j] < e[k]
  BY <1>5, <1>8
<1>11. ASSUME NEW j \in Mine(v, o) PROVE \E k \in 1..(n - 1) : e[k] = j
  <2>1. j \in 1..(Len(w.hand) - 1) /\ w.owner[v.hand[j]] = o
    BY <1>3 DEF Mine
  <2>2. PICK l : l = IF j < i THEN j ELSE j + 1
    OBVIOUS
  <2>3. l \in 1..Len(w.hand) /\ v.hand[j] = w.hand[l]
    BY <1>3, <1>4, <2>1, <2>2
  <2>4. l \in Mine(w, o)
    BY <1>3, <2>1, <2>3 DEF Mine
  <2>5. l <= i
    BY <2>4
  <2>6. l = j /\ j < i
    BY <1>3, <2>1, <2>2, <2>5
  <2>7. PICK k \in 1..n : g[k] = j
    BY <1>5, <2>4, <2>6
  <2>8. k \in 1..(n - 1)
    BY <1>3, <1>5, <1>7, <2>1, <2>6, <2>7
  <2> QED
    BY <1>9, <2>7, <2>8
<1>12. Listing(e, n - 1, Mine(v, o))
  <2>1. e \in [1..(n - 1) -> Mine(v, o)]
    BY <1>9
  <2>2. DOMAIN e = 1..(n - 1) /\ n - 1 \in Nat
    BY <1>5, <1>7
  <2> HIDE DEF e
  <2> QED
    BY <1>10, <1>11, <2>1, <2>2 DEF Listing, Lists
<1>13. HandOf(v, o) = Along(v.hand, n - 1, e)
  <2> HIDE DEF e
  <2> QED
    BY <1>3, <1>12, HandIs
<1>14. Along(v.hand, n - 1, e) = [k \in 1..(n - 1) |-> w.hand[g[k]]]
  <2> HIDE DEF e
  <2> QED
    BY <1>9 DEF Along
<1>15. SubSeq(HandOf(w, o), 1, n - 1) = HandOf(v, o)
  <2>1. PICK a \in Seq(Thing) : a = HandOf(w, o) /\ Len(a) = n
    BY <1>1 DEF ByList
  <2>2. PICK m, f : ByList(v, o, m, f)
    BY <1>3, HandBy
  <2>3. PICK b \in Seq(Thing) : b = HandOf(v, o)
    BY <2>2 DEF ByList
  <2>4. Len(b) = n - 1 /\ \A k \in 1..(n - 1) : b[k] = w.hand[g[k]]
    <3>1. b = [k \in 1..(n - 1) |-> w.hand[g[k]]]
      BY <1>13, <1>14, <2>3
    <3>2. DOMAIN b = 1..(n - 1) /\ \A k \in 1..(n - 1) : b[k] = w.hand[g[k]]
      BY <3>1
    <3>3. n - 1 \in Nat
      BY <1>5, <1>7
    <3>4. Len(b) = n - 1
      BY <3>2, <3>3, LenProperties
    <3> QED
      BY <3>2, <3>4
  <2>5. \A k \in 1..(n - 1) : a[k] = w.hand[g[k]]
    BY <1>1, <1>8, <2>1 DEF ByList
  <2>6. /\ SubSeq(a, 1, n - 1) \in Seq(Thing) /\ Len(SubSeq(a, 1, n - 1)) = n - 1
        /\ \A k \in 1..(n - 1) : SubSeq(a, 1, n - 1)[k] = a[k]
    BY <1>5, <1>7, <2>1, SubSeqProperties, ElementOfSeq
  <2>7. SubSeq(a, 1, n - 1) = b
    <3>1. PICK u : u = SubSeq(a, 1, n - 1)
      OBVIOUS
    <3>2. u \in Seq(Thing) /\ b \in Seq(Thing) /\ Len(u) = Len(b)
      BY <2>4, <2>6, <3>1
    <3>3. \A k \in 1..Len(u) : u[k] = b[k]
      BY <2>4, <2>5, <2>6, <3>1
    <3>4. u = b
      BY <3>2, <3>3, SeqEqual
    <3> QED
      BY <3>1, <3>4
  <2> QED
    BY <2>1, <2>3, <2>7
<1>16. Len(HandOf(w, o)) = n
  BY <1>1 DEF ByList
<1>17. HandOf(w, o) # << >>
  BY <1>5, <1>7, <1>16
<1> QED
  BY <1>2, <1>15, <1>16, <1>17

\* The last thing of one hand is gone: of the hand of whoever is dropping, or of
\* what belongs to nobody.
Laid(w, v, r) ==
  /\ Dropping(w) \in {r, NoOne} \/ r = NoOne
  /\ HandOf(w, r) # << >>
  /\ HandOf(v, r) = SubSeq(HandOf(w, r), 1, Len(HandOf(w, r)) - 1)
  /\ \A o \in Origin \ {r} : HandOf(v, o) = HandOf(w, o)

Handled(w, v) == (Grown(w, v) \/ \E r \in Origin : Laid(w, v, r)) /\ v.saved = w.saved

\* dropIndex finds the last of what its owner holds.
LEMMA DropIndexLast ==
  ASSUME NEW w, GoodWorld(w), NEW o \in Origin, DropIndex(w, o) # 0
  PROVE  LET i == DropIndex(w, o)
             r == w.owner[w.hand[i]]
         IN /\ i \in 1..Len(w.hand)
            /\ r \in Origin
            /\ r \in {NoOne, o} \/ o = NoOne
            /\ \A j \in Mine(w, r) : j <= i
<1>1. PICK i : i = DropIndex(w, o)
  OBVIOUS
<1>2. i \in 1..Len(w.hand) /\ Len(w.hand) \in Nat /\ DOMAIN w.hand = 1..Len(w.hand)
  BY <1>1, DropIndexIs, MinePlaces
<1>3. PICK r : r = w.owner[w.hand[i]]
  OBVIOUS
<1>4. r \in Origin
  BY <1>2, <1>3 DEF GoodWorld, World
<1>5. Mine(w, r) \in SUBSET (1..Len(w.hand))
  BY MinePlaces
<1>6. CASE o = NoOne
  <2>1. i = Len(w.hand)
    BY <1>1, <1>6 DEF DropIndex
  <2>2. \A j \in Mine(w, r) : j <= i
    BY <1>2, <1>5, <2>1
  <2> QED
    BY <1>1, <1>2, <1>3, <1>4, <1>6, <2>2
<1>7. CASE o # NoOne
  <2>1. i = Latest(w, o) /\ i # 0
    BY <1>1, <1>7 DEF DropIndex
  <2>2. Visible(w, o) # {}
    BY <2>1 DEF Latest
  <2>3. Visible(w, o) \in SUBSET (0..Len(w.hand))
    BY <1>2 DEF Visible
  <2>4. \E k \in Visible(w, o) : \A j \in Visible(w, o) : j <= k
    BY <1>2, <2>2, <2>3, GreatestElement
  <2>5. i \in Visible(w, o) /\ \A j \in Visible(w, o) : j <= i
    BY <2>1, <2>2, <2>4 DEF Latest
  <2>6. r \in {NoOne, o}
    BY <1>3, <2>5 DEF Visible
  <2>7. Mine(w, r) \subseteq Visible(w, o)
    BY <2>6 DEF Mine, Visible
  <2> QED
    BY <1>1, <1>2, <1>3, <1>4, <2>5, <2>6, <2>7
<1> QED
  BY <1>6, <1>7

LEMMA DropThingHands ==
  ASSUME NEW w, GoodWorld(w), w.action.kind = "drop"
  PROVE  Handled(w, DropThing(w, w.action.who, w.action.allowed))
<1>1. PICK o, b : o = w.action.who /\ b = w.action.allowed
  OBVIOUS
<1>2. o \in Origin /\ b \in BOOLEAN /\ Dropping(w) = o
  BY <1>1, ActionCases DEF GoodWorld, World, Idle, Dropping
<1>3. PICK i : i = DropIndex(w, o)
  OBVIOUS
<1>4. CASE i = 0 \/ ~ b
  <2>1. DropThing(w, o, b) = w
    BY <1>3, <1>4 DEF DropThing
  <2> QED
    BY <1>1, <2>1, MinePlaces DEF Handled, Grown
<1>5. CASE ~ (i = 0 \/ ~ b)
  <2>1. PICK r : r = w.owner[w.hand[i]]
    OBVIOUS
  <2>2. /\ i \in 1..Len(w.hand) /\ r \in Origin
        /\ r \in {NoOne, o} \/ o = NoOne
        /\ \A j \in Mine(w, r) : j <= i
    BY <1>2, <1>3, <1>5, <2>1, DropIndexLast
  <2>3. DropThing(w, o, b) = Dropped(w, i)
    BY <1>3, <1>5, <2>2, PromotedAndPopped DEF DropThing, Dropped, GoodWorld
  <2>4. \A q \in Origin \ {r} : HandOf(Dropped(w, i), q) = HandOf(w, q)
    BY <2>1, <2>2, DroppedElse
  <2>5. /\ HandOf(w, r) # << >>
        /\ HandOf(Dropped(w, i), r) = SubSeq(HandOf(w, r), 1, Len(HandOf(w, r)) - 1)
    BY <2>1, <2>2, DroppedMine
  <2>6. Laid(w, Dropped(w, i), r)
    BY <1>2, <2>2, <2>4, <2>5 DEF Laid
  <2>7. Dropped(w, i).saved = w.saved
    BY <2>2, DroppedIs
  <2> QED
    BY <1>1, <2>2, <2>3, <2>6, <2>7 DEF Handled
<1> QED
  BY <1>4, <1>5

\* What is under way tells nothing of the hands.
LEMMA HandledSame ==
  ASSUME NEW w, NEW v, Handled(w, v),
         NEW u, u.hand = v.hand, u.owner = v.owner, u.saved = v.saved
  PROVE  Handled(w, u)
<1>1. \A o : HandOf(u, o) = HandOf(v, o)
  BY HandSame
<1> QED
  BY <1>1 DEF Handled, Grown, Laid

LEMMA EndedHands ==
  ASSUME NEW w, GoodWorld(w)
  PROVE  Handled(w, Ended(w))
<1>1. PICK v : v = IF w.action.kind = "take" THEN TakeThing(w, w.action.target, NoOne)
                   ELSE IF w.action.kind = "drop"
                        THEN DropThing(w, w.action.who, w.action.allowed)
                   ELSE w
  OBVIOUS
<1>2. Handled(w, v) /\ GoodWorld(v)
  <2>1. CASE w.action.kind = "take"
    <3>1. w.action.target \in Thing /\ NoOne \in Origin
      BY <2>1, ActionCases DEF GoodWorld, World, Idle, Origin
    <3> QED
      BY <1>1, <2>1, <3>1, TakeThingGood, TakeThingGrows DEF Handled
  <2>2. CASE w.action.kind = "drop"
    <3>1. w.action.who \in Origin /\ w.action.allowed \in BOOLEAN
      BY <2>2, ActionCases DEF GoodWorld, World, Idle
    <3> QED
      BY <1>1, <2>2, <3>1, DropThingGood, DropThingHands
  <2>3. CASE w.action.kind \notin {"take", "drop"}
    BY <1>1, <2>3, MinePlaces DEF Handled, Grown
  <2> QED
    BY <2>1, <2>2, <2>3
<1>3. Ended(w) = [v EXCEPT !.action = Idle]
  BY <1>1 DEF Ended
<1>4. PICK u : u = Ended(w)
  OBVIOUS
<1>5. u.hand = v.hand /\ u.owner = v.owner /\ u.saved = v.saved
  BY <1>2, <1>3, <1>4 DEF GoodWorld, World
<1> QED
  BY <1>2, <1>4, <1>5, HandledSame

LEMMA StartedHands ==
  ASSUME NEW w, GoodWorld(w), NEW a \in Actions, NEW b \in BOOLEAN
  PROVE  Handled(w, Started(w, a, b))
<1>1. PICK v : v = IF b THEN Ended(w) ELSE w
  OBVIOUS
<1>2. GoodWorld(v)
  BY <1>1, EndedGood
<1>3. Handled(w, v)
  BY <1>1, EndedHands, MinePlaces DEF Handled, Grown
<1>4. Started(w, a, b) = [v EXCEPT !.action = a]
  BY <1>1 DEF Started
<1>5. PICK u : u = Started(w, a, b)
  OBVIOUS
<1>6. u.hand = v.hand /\ u.owner = v.owner /\ u.saved = v.saved
  BY <1>2, <1>4, <1>5 DEF GoodWorld, World
<1> QED
  BY <1>3, <1>5, <1>6, HandledSame

LEMMA Unhandled ==
  ASSUME NEW w, GoodWorld(w)
  PROVE  Handled(w, w)
BY MinePlaces DEF Handled, Grown

LEMMA SavedHand ==
  ASSUME NEW w, GoodWorld(w), NEW o
  PROVE  SavedHandOf(Saved(w), o) = HandOf(w, o)
<1>1. Saved(w).hand = w.hand /\ Saved(w).slots = Slots(w)
  BY DEF Saved
<1>2. \A i \in DOMAIN w.hand : Slots(w)[i] = w.owner[w.hand[i]]
  BY DEF Slots
<1>3. {i \in DOMAIN w.hand : Slots(w)[i] = o}
        = {i \in DOMAIN w.hand : w.owner[w.hand[i]] = o}
  BY <1>2
<1> QED
  BY <1>1, <1>3 DEF SavedHandOf, HandOf

\* What a command does to the hands: the save keeps them, the reload brings them
\* back, anything else lets them grow or one of them shrink.
LEMMA AppliedHands ==
  ASSUME NEW w, GoodWorld(w), NEW c \in Command
  PROVE  LET v == Applied(w, c)
         IN IF c.kind = "save" THEN v.saved = Saved(w) /\ v.hand = w.hand /\ v.owner = w.owner
            ELSE IF c.kind = "resync" THEN v.saved = w.saved /\ Saved(v) = w.saved
            ELSE Handled(w, v)
<1>0. Controller \subseteq Origin /\ NoOne \in Origin
  BY DEF Origin
<1>1. CASE c.kind = "pickup"
  <2>1. c.who \in Origin /\ c.first \in Thing /\ c.completes \in BOOLEAN
    BY <1>0, <1>1, CommandCases
  <2>2. Applied(w, c) = Picked(w, c.first, c.who, c.completes)
    BY <1>1 DEF Applied
  <2>3. Take(c.first, c.who) \in Actions
    BY <2>1, ActionTypes
  <2>4. Handled(w, Picked(w, c.first, c.who, c.completes))
    BY <2>1, <2>3, StartedHands, Unhandled DEF Picked
  <2> QED
    BY <1>1, <2>2, <2>4
<1>2. CASE c.kind = "batch"
  <2>1. c.who \in Origin /\ c.first \in Thing /\ c.second \in Thing
    BY <1>0, <1>2, CommandCases
  <2>2. Applied(w, c) = TakeThing(TakeThing(w, c.first, c.who), c.second, c.who)
    BY <1>2 DEF Applied
  <2>3. PICK v : v = TakeThing(w, c.first, c.who)
    OBVIOUS
  <2>4. GoodWorld(v) /\ Grown(w, v) /\ v.saved = w.saved
    BY <2>1, <2>3, TakeThingGood, TakeThingGrows
  <2>5. PICK u : u = TakeThing(v, c.second, c.who)
    OBVIOUS
  <2>6. GoodWorld(u) /\ Grown(v, u) /\ u.saved = v.saved
    BY <2>1, <2>4, <2>5, TakeThingGood, TakeThingGrows
  <2>7. Grown(w, u)
    BY <2>4, <2>6, GrownOn
  <2>8. Handled(w, u)
    BY <2>4, <2>6, <2>7 DEF Handled
  <2> QED
    BY <1>2, <2>2, <2>3, <2>5, <2>8
<1>3. CASE c.kind = "drop"
  <2>1. Drop(c.who, c.allowed) \in Actions /\ c.completes \in BOOLEAN
    BY <1>3, CommandCases, ActionTypes
  <2>2. Applied(w, c) = Started(w, Drop(c.who, c.allowed), c.completes)
    BY <1>3 DEF Applied
  <2> QED
    BY <1>3, <2>1, <2>2, StartedHands
<1>4. CASE c.kind = "script"
  <2>1. c.first \in Thing
    BY <1>4, CommandCases
  <2>2. Applied(w, c) = TakeThing(w, c.first, NoOne)
    BY <1>4 DEF Applied
  <2> QED
    BY <1>0, <1>4, <2>1, <2>2, TakeThingGrows DEF Handled
<1>5. CASE c.kind = "possess"
  <2>1. PICK u : u = Applied(w, c)
    OBVIOUS
  <2>2. u = Possessing(w, c.first)
    BY <1>5, <2>1 DEF Applied
  <2>3. u.hand = w.hand /\ u.owner = w.owner /\ u.saved = w.saved
    BY <2>2 DEF Possessing, GoodWorld, World
  <2> QED
    BY <1>5, <2>1, <2>3, Unhandled, HandledSame
<1>6. CASE c.kind = "end"
  <2>1. Applied(w, c) = Ended(w)
    BY <1>6 DEF Applied
  <2> QED
    BY <1>6, <2>1, EndedHands
<1>7. CASE c.kind = "release"
  <2>1. PICK u : u = Applied(w, c)
    OBVIOUS
  <2>2. u = [w EXCEPT !.possessed = Nothing]
    BY <1>7, <2>1 DEF Applied
  <2>3. u.hand = w.hand /\ u.owner = w.owner /\ u.saved = w.saved
    BY <2>2 DEF GoodWorld, World
  <2> QED
    BY <1>7, <2>1, <2>3, Unhandled, HandledSame
<1>8. CASE c.kind = "save"
  <2>1. PICK s : s = Saved(w)
    OBVIOUS
  <2>2. Applied(w, c) = [w EXCEPT !.saved = s]
    BY <1>8, <2>1 DEF Applied
  <2> QED
    BY <1>8, <2>1, <2>2 DEF GoodWorld, World
<1>9. CASE c.kind = "resync"
  <2>1. Applied(w, c) = Restored(w)
    BY <1>9 DEF Applied
  <2> QED
    BY <1>9, <2>1, RestoredGood
<1> QED
  BY <1>1, <1>2, <1>3, <1>4, <1>5, <1>6, <1>7, <1>8, <1>9, CommandCases

-----------------------------------------------------------------------------
(* The shared stack implements separate hands *)

LEMMA SeparateInit == Init => Separate!Init
<1> SUFFICES ASSUME Init PROVE Separate!Init
  OBVIOUS
<1>1. PICK w : w = Fresh
  OBVIOUS
<1>2. GoodWorld(w) /\ world[Watched] = w
  BY <1>1, FreshGood DEF Init
<1>3. w.hand = << >> /\ w.action = Idle /\ w.saved = Saved(Empty)
  BY <1>1 DEF Fresh
<1>4. Saved(Empty) = Saved(w)
  BY <1>1 DEF Fresh, Empty, Saved, Slots
<1>5. ASSUME NEW o \in Origin
      PROVE  HandOf(w, o) = << >> /\ SavedHandOf(w.saved, o) = << >>
  <2>1. PICK n, g : ByList(w, o, n, g)
    BY <1>2, HandBy
  <2>2. n \in Nat /\ g \in [1..n -> Mine(w, o)]
    BY <2>1 DEF ByList, Listing
  <2>3. Mine(w, o) = {}
    BY <1>3 DEF Mine
  <2>4. n = 0
    <3>1. SUFFICES ASSUME n # 0 PROVE FALSE
      OBVIOUS
    <3>2. 1 \in 1..n
      BY <2>2, <3>1
    <3> QED
      BY <2>2, <2>3, <3>2
  <2>5. HandOf(w, o) \in Seq(Thing) /\ Len(HandOf(w, o)) = 0
    BY <2>1, <2>4 DEF ByList
  <2>6. HandOf(w, o) = << >>
    BY <2>5, EmptySeq
  <2> QED
    BY <1>2, <1>3, <1>4, <2>6, SavedHand
<1>6. [o \in Origin |-> HandOf(world[Watched], o)] = [o \in Origin |-> << >>]
  BY <1>2, <1>5
<1>7. [o \in Origin |-> SavedHandOf(world[Watched].saved, o)] = [o \in Origin |-> << >>]
  BY <1>2, <1>5
<1>8. (IF world[Watched].action.kind = "drop" THEN world[Watched].action.who ELSE NoOne)
        = NoOne
  BY <1>2, <1>3 DEF Idle
<1> QED
  BY <1>6, <1>7, <1>8 DEF Separate!Init

LEMMA HandDomain ==
  ASSUME NEW w, GoodWorld(w), NEW o
  PROVE  DOMAIN HandOf(w, o) = 1..Len(HandOf(w, o))
<1>1. PICK n, g : ByList(w, o, n, g)
  BY HandBy
<1> QED
  BY <1>1, LenProperties DEF ByList

LEMMA SeparateGrow ==
  ASSUME NEW w, GoodWorld(w), w = world[Watched],
         NEW v, GoodWorld(v), v = world'[Watched],
         Grown(w, v), v.saved = w.saved
  PROVE  Separate!PickUp
<1>1. Separate!Held \subseteq Held(w.hand)
  <2>1. ASSUME NEW o \in Origin, NEW k \in DOMAIN HandOf(w, o)
        PROVE  HandOf(w, o)[k] \in Held(w.hand)
    BY HandDomain, HandEntries
  <2> QED
    BY <2>1 DEF Separate!Held, Separate!Holding
<1>2. ASSUME NEW o \in Origin
      PROVE  /\ Len(HandOf(w, o)) <= Len(HandOf(v, o))
             /\ SubSeq(HandOf(v, o), 1, Len(HandOf(w, o))) = HandOf(w, o)
             /\ \A i \in Len(HandOf(w, o)) + 1..Len(HandOf(v, o)) :
                  HandOf(v, o)[i] \in Thing \ Separate!Held
  BY <1>1, GrownExtends
<1>3. ASSUME NEW o \in Origin PROVE Separate!Extends(o)
  BY <1>2 DEF Separate!Extends
<1>4. Cardinality(Separate!Places(Hands(v))) <= Capacity
  BY PlacesFew
<1>5. Hands(v) = [o \in Origin |-> HandOf(world'[Watched], o)]
  BY DEF Hands
<1>6. Separate!Cardinality(Separate!Places(Hands(v))) = Cardinality(Separate!Places(Hands(v)))
  BY DEF Separate!Cardinality, Cardinality
<1> QED
  BY <1>3, <1>4, <1>5, <1>6 DEF Separate!PickUp

LEMMA SeparateLay ==
  ASSUME NEW w, w = world[Watched], NEW v, v = world'[Watched],
         NEW r \in Origin, Laid(w, v, r), v.saved = w.saved
  PROVE  Separate!LayDown(r)
<1>1. Dropping(w) \in {r, NoOne} \/ r = NoOne
  BY DEF Laid
<1>2. [o \in Origin |-> HandOf(v, o)] =
        [[o \in Origin |-> HandOf(w, o)] EXCEPT ![r] = SubSeq(@, 1, Len(@) - 1)]
  BY DEF Laid
<1>3. HandOf(w, r) # << >>
  BY DEF Laid
<1> QED
  BY <1>1, <1>2, <1>3 DEF Separate!LayDown, Dropping

LEMMA SeparateStep ==
  ASSUME Shape, Shape', Watched \notin Diverging, [Next]_vars
  PROVE  [Separate!Next]_(Separate!vars)
<1>1. CASE world'[Watched] = world[Watched]
  BY <1>1 DEF Separate!vars
<1>2. CASE Apply(Watched)
  <2>1. PICK w, v, c : /\ w = world[Watched] /\ v = world'[Watched]
                       /\ c = stream[at[Watched] + 1]
    OBVIOUS
  <2>2. GoodWorld(w) /\ GoodWorld(v) /\ c \in Command
    BY <1>2, <2>1, NextCommand, PeerAssumption DEF Shape
  <2>3. v = Applied(w, c)
    BY <1>2, <2>1, PeerAssumption DEF Apply, Shape
  <2>4. CASE c.kind = "save"
    <3>1. v.saved = Saved(w) /\ v.hand = w.hand /\ v.owner = w.owner
      BY <2>2, <2>3, <2>4, AppliedHands
    <3>2. \A o : HandOf(v, o) = HandOf(w, o) /\ SavedHandOf(v.saved, o) = HandOf(w, o)
      BY <2>2, <3>1, HandSame, SavedHand
    <3>3. Separate!Keep
      BY <2>1, <3>2 DEF Separate!Keep
    <3> QED
      BY <3>3 DEF Separate!Next
  <2>5. CASE c.kind = "resync"
    <3>1. v.saved = w.saved /\ Saved(v) = w.saved
      BY <2>2, <2>3, <2>5, AppliedHands
    <3>2. \A o : HandOf(v, o) = SavedHandOf(w.saved, o)
      BY <2>2, <3>1, SavedHand
    <3>3. Separate!Return
      BY <2>1, <3>1, <3>2 DEF Separate!Return
    <3> QED
      BY <3>3 DEF Separate!Next
  <2>6. CASE c.kind \notin {"save", "resync"}
    <3>1. Handled(w, v)
      BY <2>2, <2>3, <2>6, AppliedHands
    <3>2. CASE Grown(w, v)
      BY <2>1, <2>2, <3>1, <3>2, SeparateGrow DEF Handled, Separate!Next
    <3>3. CASE \E r \in Origin : Laid(w, v, r)
      BY <2>1, <3>1, <3>3, SeparateLay DEF Handled, Separate!Next
    <3> QED
      BY <3>1, <3>2, <3>3 DEF Handled
  <2> QED
    BY <2>4, <2>5, <2>6
<1>3. CASE ~ Apply(Watched) /\ world'[Watched] # world[Watched]
  <2>1. Next
    BY <1>3 DEF vars
  <2>2. PICK p \in Peer \ {Watched} : Apply(p) \/ Diverge(p)
    BY <1>3, <2>1 DEF Next, Order, Diverge
  <2>3. world'[Watched] = world[Watched]
    BY <2>2, PeerAssumption DEF Apply, Diverge, Shape
  <2> QED
    BY <1>3, <2>3
<1> QED
  BY <1>1, <1>2, <1>3

\* Each Controller has a hand of its own within the shared stack, in a peer whose table
\* of owners does not go wrong for a reason from outside: a drop takes from the end of
\* the dropper's hand or of what belongs to nobody, and no other hand feels it.
THEOREM HandsAreSeparate ==
  ASSUME Watched \notin Diverging
  PROVE  Spec => ImplementsSeparateHands
<1>1. Init => Separate!Init
  BY SeparateInit
<1>2. Shape /\ Shape' /\ [Next]_vars => [Separate!Next]_(Separate!vars)
  BY SeparateStep
<1> QED
  BY <1>1, <1>2, ShapeAlways, PTL DEF Spec, ImplementsSeparateHands, Separate!Spec
=============================================================================
