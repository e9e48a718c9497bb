--------------------------- MODULE CoopSession_proofs ---------------------------
(***************************************************************************)
(* Theorems about the two parts of a co-op session that MCCoopSession puts *)
(* together, for any players, Keepers, creatures, tags and waits.          *)
(*                                                                         *)
(* The gem ending: its types, that an ending begins once and never fails   *)
(* to, that the object knows the world it is with, and that peers agree on *)
(* it.  The invariant is about one peer at a time (Sound) but for the last *)
(* theorem, which compares two of them (Twin).                             *)
(*                                                                         *)
(* The shared possession: one Controller at a time presents it, the one    *)
(* whose shot brought it, and no camera is left with a creature that is    *)
(* not possessed.  None of the three is inductive.  A camera that shows a  *)
(* creature, or will when its path is over, has it in its process          *)
(* (ViewIsOwned), and after a tick a process has the possessed creature or *)
(* none (OwnsPossessed); the origin of a shot that flies is its caster,    *)
(* even when tags are used again and after a reload (OriginIsCaster).      *)
(***************************************************************************)
EXTENDS GemEnding, Possession, TLAPS

-----------------------------------------------------------------------------
(* The invariant *)

\* In every world, saved ones among them, the shared Keeper's victory and the ending go
\* together, and the creature with both.
GoodWorld(w) ==
  /\ w.begun \in {0, 1}
  /\ w.status[Shared] = "won" <=> w.begun = 1
  /\ w.orphan => w.begun = 1
  /\ w.phase # "absent" => w.begun = 1 /\ w.kind = "gem"

\* The object is right about the world.
Known(s) ==
  /\ s.ending.creature <=> s.world.begun = 1 /\ s.world.kind = "gem" /\ ~s.world.orphan
  /\ s.ending.alternative
       <=> s.world.begun = 1 /\ s.world.kind = "alternative" /\ ~s.world.orphan
  /\ s.ending.creature \/ s.ending.alternative => s.ending.keeper = Shared
  /\ s.ending.attempted => s.world.begun = 1

\* There was no tick yet, or the world was reloaded since.
Unseen(s) ==
  \/ /\ ~s.ending.hasTick /\ s.ending.lastTick = 0 /\ s.world.begun = 0
     /\ ~s.ending.creature /\ ~s.ending.alternative /\ ~s.ending.attempted
  \/ /\ s.ending.hasTick /\ s.world.tick < s.ending.lastTick
     /\ s.world.begun = 1 => s.world.orphan

Sound(s) ==
  /\ GoodWorld(s.world)
  /\ s.file # NoSave => GoodWorld(s.file)
  /\ (Seen(s) /\ Known(s)) \/ Unseen(s)

AllSound == \A p \in Peer : Sound(session[p])

-----------------------------------------------------------------------------
(* What the parts of a tick do to one peer *)

\* Every change is of a Keeper, or of none.
LEMMA Changes ==
  ASSUME NEW c \in Change
  PROVE  /\ c.outer \in Keepers \cup {NoKeeper} /\ c.inner \in Keepers \cup {NoKeeper}
         /\ c.to \in {"won", "lost"} /\ c.innerTo \in {"won", "lost"}
  <1>1. CASE c = Quiet
    BY <1>1 DEF Quiet
  <1>2. CASE c \in Alone
    BY <1>2 DEF Alone
  <1>3. CASE c \in Nested
    BY <1>3 DEF Nested
  <1> QED BY <1>1, <1>2, <1>3 DEF Change

\* What Observed does to a session, one field at a time.
LEMMA ObservedFields ==
  ASSUME NEW s \in Session
  PROVE  LET o == Observed(s)
             again == s.ending.hasTick /\ s.world.tick < s.ending.lastTick
         IN /\ o \in Session /\ o.world = s.world /\ o.file = s.file
            /\ o.ending.keeper = IF again THEN NoKeeper ELSE s.ending.keeper
            /\ o.ending.creature <=> ~again /\ s.ending.creature
            /\ o.ending.alternative <=> ~again /\ s.ending.alternative
            /\ o.ending.attempted <=> ~again /\ s.ending.attempted
            /\ o.ending.hasTick /\ o.ending.lastTick = s.world.tick
  <1> DEFINE known == IF s.ending.hasTick /\ s.world.tick < s.ending.lastTick
                      THEN NoEnding ELSE s.ending
             e == [known EXCEPT !.lastTick = s.world.tick, !.hasTick = TRUE]
             f == IF e.alternative /\ s.world.fireworks = 0
                  THEN [e EXCEPT !.complete = TRUE] ELSE e
  <1>1. s.world \in World /\ s.ending \in Ending
    BY DEF Session
  <1>2. known \in Ending
    BY <1>1 DEF NoEnding, Ending
  <1>3. e \in Ending /\ e.hasTick /\ e.lastTick = s.world.tick
        /\ e.creature = known.creature /\ e.alternative = known.alternative
        /\ e.keeper = known.keeper /\ e.attempted = known.attempted
    BY <1>1, <1>2 DEF Ending, World
  <1>4. f \in Ending /\ f.hasTick /\ f.lastTick = s.world.tick
        /\ f.creature = known.creature /\ f.alternative = known.alternative
        /\ f.keeper = known.keeper /\ f.attempted = known.attempted
    <2> HIDE DEF e, known
    <2> QED BY <1>3 DEF Ending
  <1>5. Observed(s) = [s EXCEPT !.ending = f]
    BY DEF Observed
  <1>6. known.keeper = (IF s.ending.hasTick /\ s.world.tick < s.ending.lastTick
                        THEN NoKeeper ELSE s.ending.keeper)
        /\ (known.creature <=> ~(s.ending.hasTick /\ s.world.tick < s.ending.lastTick)
                                 /\ s.ending.creature)
        /\ (known.alternative <=> ~(s.ending.hasTick /\ s.world.tick < s.ending.lastTick)
                                    /\ s.ending.alternative)
        /\ (known.attempted <=> ~(s.ending.hasTick /\ s.world.tick < s.ending.lastTick)
                                  /\ s.ending.attempted)
    BY DEF NoEnding
  <1> HIDE DEF f, known
  <1>7. Observed(s) \in Session /\ Observed(s).ending = f /\ Observed(s).world = s.world /\ Observed(s).file = s.file
    BY <1>4, <1>5 DEF Session
  <1> QED BY <1>4, <1>6, <1>7

\* After it the object is right about the world.
LEMMA ObservedKnows ==
  ASSUME NEW s \in Session, Sound(s)
  PROVE  Known(Observed(s))
  <1> DEFINE o == Observed(s)
             again == s.ending.hasTick /\ s.world.tick < s.ending.lastTick
  <1>1. s.world.tick \in Nat /\ s.ending.lastTick \in Nat
    BY DEF Session, World, Ending
  <1>2. /\ o.world = s.world
        /\ o.ending.keeper = IF again THEN NoKeeper ELSE s.ending.keeper
        /\ o.ending.creature <=> ~again /\ s.ending.creature
        /\ o.ending.alternative <=> ~again /\ s.ending.alternative
        /\ o.ending.attempted <=> ~again /\ s.ending.attempted
    BY ObservedFields
  <1> HIDE DEF o
  <1>3. CASE Unseen(s)
    BY <1>1, <1>2, <1>3 DEF Unseen, Known, o
  <1>4. CASE Seen(s) /\ Known(s)
    BY <1>1, <1>2, <1>4 DEF Seen, Known, o
  <1> QED BY <1>3, <1>4 DEF Sound

\* The creature goes on, or not.
LEMMA WalkedKeeps ==
  ASSUME NEW s \in Session, GoodWorld(s.world), NEW cam, NEW out
  PROVE  LET t == Walked(s, cam, out) IN
         /\ t \in Session /\ t.file = s.file
         /\ GoodWorld(t.world) /\ t.world.tick = s.world.tick
         /\ t.ending.hasTick = s.ending.hasTick /\ t.ending.lastTick = s.ending.lastTick
         /\ Known(s) => Known(t)
  <1> DEFINE t == Walked(s, cam, out)
  <1>1. s.world \in World /\ s.ending \in Ending
    BY DEF Session
  <1>2. CASE s.world.phase = "path" /\ ~Pending(s, cam)
    <2>1. t = [s EXCEPT !.world = [[s.world EXCEPT !.phase = "move"] EXCEPT !.left = MoveTicks]]
      BY <1>2, <1>1 DEF Walked, Session, World
    <2> HIDE DEF t
    <2>2. t \in Session /\ t.file = s.file /\ t.ending = s.ending
          /\ t.world.begun = s.world.begun /\ t.world.kind = s.world.kind
          /\ t.world.orphan = s.world.orphan /\ t.world.tick = s.world.tick
          /\ t.world.status = s.world.status /\ t.world.phase = "move"
      BY <2>1, <1>1, TicksAssumption DEF Session, World, Phase
    <2> QED BY <2>2, <1>2 DEF GoodWorld, Known, t
  <1>3. CASE s.world.phase = "move" /\ ~Pending(s, cam)
    <2>1. t = [s EXCEPT !.world = [s.world EXCEPT !.phase = "gems"]]
      BY <1>3, <1>1 DEF Walked, Session, World
    <2> HIDE DEF t
    <2>2. t \in Session /\ t.file = s.file /\ t.ending = s.ending
          /\ t.world.begun = s.world.begun /\ t.world.kind = s.world.kind
          /\ t.world.orphan = s.world.orphan /\ t.world.tick = s.world.tick
          /\ t.world.status = s.world.status /\ t.world.phase = "gems"
      BY <2>1, <1>1 DEF Session, World, Phase
    <2> QED BY <2>2, <1>3 DEF GoodWorld, Known, t
  <1>4. CASE s.world.phase = "gems" /\ out
    <2>1. t = [s EXCEPT !.world = [s.world EXCEPT !.phase = "done"],
                        !.ending = [s.ending EXCEPT !.complete = s.ending.complete \/ Matches(s)]]
      BY <1>4, <1>1 DEF Walked, Session, World
    <2>2. (s.ending.complete \/ Matches(s)) \in BOOLEAN
      OBVIOUS
    <2> HIDE DEF t
    <2>3. t \in Session /\ t.file = s.file
          /\ t.world.begun = s.world.begun /\ t.world.kind = s.world.kind
          /\ t.world.orphan = s.world.orphan /\ t.world.tick = s.world.tick
          /\ t.world.status = s.world.status /\ t.world.phase = "done"
      BY <2>1, <2>2, <1>1 DEF Session, World, Phase, Ending
    <2>4. t.ending.keeper = s.ending.keeper /\ t.ending.creature = s.ending.creature
          /\ t.ending.alternative = s.ending.alternative
          /\ t.ending.attempted = s.ending.attempted
          /\ t.ending.hasTick = s.ending.hasTick /\ t.ending.lastTick = s.ending.lastTick
      BY <2>1, <1>1 DEF Session, Ending
    <2> QED BY <2>3, <2>4, <1>4 DEF GoodWorld, Known, t
  <1>5. CASE ~(s.world.phase = "path" /\ ~Pending(s, cam))
             /\ ~(s.world.phase = "move" /\ ~Pending(s, cam))
             /\ ~(s.world.phase = "gems" /\ out)
    BY <1>5 DEF Walked
  <1> QED BY <1>2, <1>3, <1>4, <1>5

LEMMA DownNat ==
  ASSUME NEW n \in Nat
  PROVE  Down(n) \in Nat
  BY DEF Down

LEMMA PassedKeeps ==
  ASSUME NEW s \in Session, GoodWorld(s.world)
  PROVE  LET t == Passed(s) IN
         /\ t \in Session /\ t.file = s.file /\ t.ending = s.ending
         /\ GoodWorld(t.world) /\ t.world.tick = s.world.tick
         /\ Known(s) => Known(t)
  <1> DEFINE t == Passed(s)
  <1>1. s.world \in World
    BY DEF Session
  <1>2. t = [s EXCEPT !.world = [[s.world EXCEPT !.left = Down(s.world.left)]
                                  EXCEPT !.fireworks = Down(s.world.fireworks)]]
    BY <1>1 DEF Passed, Session, World
  <1>3. Down(s.world.left) \in Nat /\ Down(s.world.fireworks) \in Nat
    BY <1>1, DownNat DEF World
  <1> HIDE DEF t
  <1>4. t \in Session /\ t.file = s.file /\ t.ending = s.ending
        /\ t.world.begun = s.world.begun /\ t.world.kind = s.world.kind
        /\ t.world.orphan = s.world.orphan /\ t.world.tick = s.world.tick
        /\ t.world.status = s.world.status /\ t.world.phase = s.world.phase
    BY <1>2, <1>3, <1>1 DEF Session, World
  <1> QED BY <1>4 DEF GoodWorld, Known, t

\* The native body changes the status of one Keeper who plays, and nothing else.
LEMMA NativeKeeps ==
  ASSUME NEW s \in Session, NEW k \in Keepers, NEW to \in {"won", "lost"}, NEW accepted
  PROVE  LET t == Native(s, k, to, accepted) IN
         /\ t \in Session /\ t.file = s.file /\ t.ending = s.ending
         /\ t.world.tick = s.world.tick /\ t.world.begun = s.world.begun
         /\ t.world.kind = s.world.kind /\ t.world.orphan = s.world.orphan
         /\ t.world.phase = s.world.phase
         /\ t.world.status[Shared] \in {s.world.status[Shared], to}
         /\ ~(k = Shared /\ s.world.status[k] = "playing")
              => t.world.status[Shared] = s.world.status[Shared]
  <1> DEFINE t == Native(s, k, to, accepted)
  <1>1. s.world \in World /\ s.world.status \in [Keepers -> Status]
    BY DEF Session, World
  <1>2. CASE s.world.status[k] = "playing" /\ accepted
    <2>1. t = [s EXCEPT !.world = [s.world EXCEPT !.status = [s.world.status EXCEPT ![k] = to]]]
      BY <1>2, <1>1 DEF Native, Session, World
    <2>2. [s.world.status EXCEPT ![k] = to] \in [Keepers -> Status]
          /\ [s.world.status EXCEPT ![k] = to][Shared]
               = IF k = Shared THEN to ELSE s.world.status[Shared]
      BY <1>1, KeepersAssumption DEF Status
    <2> HIDE DEF t
    <2>3. t \in Session /\ t.file = s.file /\ t.ending = s.ending
          /\ t.world.begun = s.world.begun /\ t.world.kind = s.world.kind
          /\ t.world.orphan = s.world.orphan /\ t.world.tick = s.world.tick
          /\ t.world.phase = s.world.phase
          /\ t.world.status = [s.world.status EXCEPT ![k] = to]
      BY <2>1, <2>2, <1>1 DEF Session, World
    <2> QED BY <2>2, <2>3, <1>2 DEF t
  <1>3. CASE ~(s.world.status[k] = "playing" /\ accepted)
    BY <1>3 DEF Native
  <1> QED BY <1>2, <1>3

\* In the middle of the call that reserved the shared Keeper's victory.
Reserving(s) ==
  /\ s.world.begun = 0 /\ s.world.phase = "absent" /\ ~s.world.orphan
  /\ s.ending.attempted /\ ~s.ending.creature /\ ~s.ending.alternative

LEMMA ReservedHolds ==
  ASSUME NEW s \in Session, NEW k \in Keepers, NEW to \in {"won", "lost"},
         GoodWorld(s.world), Known(s), Candidate(s, k, to)
  PROVE  LET t == Reserved(s, TRUE) IN
         /\ k = Shared /\ t \in Session /\ t.file = s.file /\ t.world = s.world
         /\ t.ending.hasTick = s.ending.hasTick /\ t.ending.lastTick = s.ending.lastTick
         /\ Reserving(t)
  <1> DEFINE t == Reserved(s, TRUE)
  <1>1. s.world \in World /\ s.ending \in Ending
    BY DEF Session
  <1>2. k = Shared /\ s.world.status[Shared] = "playing" /\ s.world.begun = 0
        /\ s.world.phase = "absent" /\ ~s.world.orphan
    BY DEF Candidate, GoodWorld
  <1>3. t = [s EXCEPT !.ending = [s.ending EXCEPT !.attempted = TRUE]]
    BY <1>1 DEF Reserved, Session, Ending
  <1> HIDE DEF t
  <1>4. t \in Session /\ t.file = s.file /\ t.world = s.world
    BY <1>3, <1>1 DEF Session, Ending
  <1>5. t.ending.attempted /\ t.ending.creature = s.ending.creature
        /\ t.ending.alternative = s.ending.alternative
        /\ t.ending.hasTick = s.ending.hasTick /\ t.ending.lastTick = s.ending.lastTick
    BY <1>3, <1>1 DEF Session, Ending
  <1>6. Reserving(t)
    BY <1>2, <1>4, <1>5 DEF Known, Reserving
  <1> QED BY <1>2, <1>4, <1>5, <1>6 DEF t

\* The end of that call.
Concluded(s) == Settled(s, Shared, TRUE)

\* The ending starts, or the reservation is taken back.
LEMMA SettledSound ==
  ASSUME NEW s \in Session, Reserving(s)
  PROVE  LET t == Concluded(s) IN
         /\ t \in Session /\ t.file = s.file /\ t.world.tick = s.world.tick
         /\ t.world.status = s.world.status
         /\ t.ending.hasTick = s.ending.hasTick /\ t.ending.lastTick = s.ending.lastTick
         /\ GoodWorld(t.world) /\ Known(t)
  <1> DEFINE t == Concluded(s)
  <1>1. s.world \in World /\ s.ending \in Ending
    BY DEF Session
  <1>2. CASE s.world.status[Shared] = "won"
    <2> DEFINE w == [s.world EXCEPT !.begun = s.world.begun + 1,
                       !.phase = IF s.world.kind = "gem" THEN "path" ELSE s.world.phase,
                       !.left = IF s.world.kind = "gem" THEN PathTicks ELSE s.world.left,
                       !.fireworks = IF s.world.kind = "alternative" THEN Fireworks
                                     ELSE s.world.fireworks]
               e == [s.ending EXCEPT !.keeper = Shared,
                       !.creature = (s.world.kind = "gem"),
                       !.alternative = (s.world.kind = "alternative")]
    <2>1. w \in World /\ w.begun = 1 /\ w.status = s.world.status
          /\ w.tick = s.world.tick /\ w.kind = s.world.kind /\ w.orphan = s.world.orphan
          /\ w.phase = IF s.world.kind = "gem" THEN "path" ELSE "absent"
      <3>1. (IF s.world.kind = "gem" THEN "path" ELSE s.world.phase) \in Phase
        BY <1>1 DEF World, Phase
      <3>2. (IF s.world.kind = "gem" THEN PathTicks ELSE s.world.left) \in Nat
        BY <1>1, TicksAssumption DEF World
      <3>3. (IF s.world.kind = "alternative" THEN Fireworks ELSE s.world.fireworks) \in Nat
        BY <1>1, TicksAssumption DEF World
      <3>4. s.world.begun + 1 = 1 /\ s.world.phase = "absent"
        BY DEF Reserving
      <3>5. w.begun = 1 /\ w.status = s.world.status /\ w.tick = s.world.tick
            /\ w.kind = s.world.kind /\ w.orphan = s.world.orphan
            /\ w.phase = IF s.world.kind = "gem" THEN "path" ELSE "absent"
        BY <1>1, <3>4 DEF World
      <3>6. w = [[[[s.world EXCEPT !.begun = 1]
                     EXCEPT !.phase = IF s.world.kind = "gem" THEN "path" ELSE s.world.phase]
                     EXCEPT !.left = IF s.world.kind = "gem" THEN PathTicks ELSE s.world.left]
                     EXCEPT !.fireworks = IF s.world.kind = "alternative" THEN Fireworks
                                          ELSE s.world.fireworks]
        BY <1>1, <3>4 DEF World
      <3>7. w \in World
        <4> HIDE DEF w
        <4> QED BY <1>1, <3>1, <3>2, <3>3, <3>6 DEF World
      <3> QED BY <3>5, <3>7
    <2>2. e \in Ending /\ e.keeper = Shared /\ (e.creature <=> s.world.kind = "gem")
          /\ (e.alternative <=> s.world.kind = "alternative")
          /\ e.hasTick = s.ending.hasTick /\ e.lastTick = s.ending.lastTick
      BY <1>1, KeepersAssumption DEF Ending
    <2>3. Cinematic(s.world) = w
      BY <1>1 DEF Cinematic, World
    <2>4. t = [s EXCEPT !.world = w, !.ending = e]
      BY <1>1, <1>2, <2>3 DEF Concluded, Settled, Started, Session, Ending
    <2> HIDE DEF t, w, e
    <2>5. t \in Session /\ t.world = w /\ t.ending = e /\ t.file = s.file
      BY <2>1, <2>2, <2>4 DEF Session
    <2>6. GoodWorld(t.world) /\ Known(t)
      BY <2>1, <2>2, <2>5, <1>1, <1>2 DEF GoodWorld, Known, Reserving
    <2> QED BY <2>1, <2>2, <2>5, <2>6 DEF t
  <1>3. CASE s.world.status[Shared] # "won"
    <2>1. t = [s EXCEPT !.ending = [s.ending EXCEPT !.attempted = FALSE]]
      BY <1>1, <1>3 DEF Concluded, Settled, Session, Ending
    <2> HIDE DEF t
    <2>2. t \in Session /\ t.file = s.file /\ t.world = s.world
      BY <2>1, <1>1 DEF Session, Ending
    <2>3. ~t.ending.attempted /\ t.ending.creature = s.ending.creature
          /\ t.ending.alternative = s.ending.alternative
          /\ t.ending.hasTick = s.ending.hasTick /\ t.ending.lastTick = s.ending.lastTick
      BY <2>1, <1>1 DEF Session, Ending
    <2>4. GoodWorld(t.world) /\ Known(t)
      BY <2>2, <2>3, <1>3 DEF GoodWorld, Known, Reserving
    <2> QED BY <2>2, <2>3, <2>4 DEF t
  <1> QED BY <1>2, <1>3

\* A call for a Keeper whose victory is not reserved by it.
LEMMA NativeSound ==
  ASSUME NEW s \in Session, NEW k \in Keepers, NEW to \in {"won", "lost"}, NEW accepted,
         GoodWorld(s.world), Known(s),
         k = Shared /\ s.world.status[k] = "playing" => to = "lost"
  PROVE  LET t == Native(s, k, to, accepted) IN GoodWorld(t.world) /\ Known(t)
  <1> DEFINE t == Native(s, k, to, accepted)
  <1>1. /\ t.ending = s.ending
        /\ t.world.begun = s.world.begun
        /\ t.world.kind = s.world.kind /\ t.world.orphan = s.world.orphan
        /\ t.world.phase = s.world.phase
        /\ t.world.status[Shared] \in {s.world.status[Shared], to}
        /\ ~(k = Shared /\ s.world.status[k] = "playing")
             => t.world.status[Shared] = s.world.status[Shared]
    BY NativeKeeps
  <1> HIDE DEF t
  <1>2. GoodWorld(t.world)
    BY <1>1 DEF GoodWorld
  <1>3. Known(t)
    BY <1>1 DEF Known
  <1> QED BY <1>2, <1>3 DEF t

LEMMA ChangedSound ==
  ASSUME NEW s \in Session, NEW k \in Keepers, NEW to \in {"won", "lost"}, NEW accepted,
         GoodWorld(s.world), Known(s)
  PROVE  LET t == Changed(s, k, to, accepted) IN
         /\ t \in Session /\ t.file = s.file /\ t.world.tick = s.world.tick
         /\ t.ending.hasTick = s.ending.hasTick /\ t.ending.lastTick = s.ending.lastTick
         /\ GoodWorld(t.world) /\ Known(t)
         /\ s.world.status[Shared] # "playing"
              => t.world.status[Shared] = s.world.status[Shared]
  <1>1. CASE Candidate(s, k, to)
    <2> DEFINE r == Reserved(s, TRUE)
               n == Native(r, k, to, accepted)
    <2>1. /\ k = Shared /\ r \in Session /\ r.file = s.file /\ r.world = s.world
          /\ r.ending.hasTick = s.ending.hasTick /\ r.ending.lastTick = s.ending.lastTick
          /\ Reserving(r)
      BY <1>1, ReservedHolds
    <2> HIDE DEF r
    <2>2. /\ n \in Session /\ n.file = r.file /\ n.ending = r.ending
          /\ n.world.tick = r.world.tick /\ n.world.begun = r.world.begun
          /\ n.world.orphan = r.world.orphan /\ n.world.phase = r.world.phase
      BY <2>1, NativeKeeps
    <2>3. Changed(s, k, to, accepted) = Concluded(n)
      BY <1>1, <2>1 DEF Concluded, Changed, r
    <2> HIDE DEF n
    <2>4. Reserving(n)
      BY <2>1, <2>2 DEF Reserving
    <2>5. s.world.status[Shared] = "playing"
      BY <1>1 DEF Candidate
    <2> QED BY <2>1, <2>2, <2>3, <2>4, <2>5, SettledSound
  <1>2. CASE ~Candidate(s, k, to)
    <2>1. Changed(s, k, to, accepted) = Native(s, k, to, accepted)
      BY <1>2 DEF Changed, Reserved, Settled
    <2>2. k = Shared /\ s.world.status[k] = "playing" => to = "lost"
      BY <1>2 DEF Candidate, GoodWorld, Known
    <2> QED BY <2>1, <2>2, NativeSound, NativeKeeps
  <1> QED BY <1>1, <1>2

\* A change, with or without another one within it.
LEMMA TransitionSound ==
  ASSUME NEW s \in Session, NEW c \in Change, GoodWorld(s.world), Known(s)
  PROVE  LET t == Transition(s, c) IN
         /\ t \in Session /\ t.file = s.file /\ t.world.tick = s.world.tick
         /\ t.ending.hasTick = s.ending.hasTick /\ t.ending.lastTick = s.ending.lastTick
         /\ GoodWorld(t.world) /\ Known(t)
  <1>1. CASE c.outer = NoKeeper
    BY <1>1 DEF Transition
  <1>2. CASE c.outer # NoKeeper /\ c.inner = NoKeeper
    <2>1. Transition(s, c) = Changed(s, c.outer, c.to, c.accepted)
      BY <1>2 DEF Transition, Changed
    <2> QED BY <1>2, <2>1, Changes, ChangedSound
  <1>3. CASE c.outer # NoKeeper /\ c.inner # NoKeeper /\ Candidate(s, c.outer, c.to)
    <2> DEFINE r == Reserved(s, TRUE)
               i == Native(r, c.inner, c.innerTo, c.innerAccepted)
               n == Native(i, c.outer, c.to, c.accepted)
    <2>1. /\ c.outer = Shared /\ r \in Session /\ r.file = s.file /\ r.world = s.world
          /\ r.ending.hasTick = s.ending.hasTick /\ r.ending.lastTick = s.ending.lastTick
          /\ Reserving(r)
      BY <1>3, Changes, ReservedHolds
    <2>2. ~Candidate(r, c.inner, c.innerTo)
      BY <2>1 DEF Reserving, Candidate
    <2>3. Transition(s, c) = Concluded(n)
      BY <1>3, <2>1, <2>2 DEF Concluded, Transition, Changed, Reserved, Settled
    <2> HIDE DEF r
    <2>4. /\ i \in Session /\ i.file = r.file /\ i.ending = r.ending
          /\ i.world.tick = r.world.tick /\ i.world.begun = r.world.begun
          /\ i.world.orphan = r.world.orphan /\ i.world.phase = r.world.phase
      BY <1>3, <2>1, Changes, NativeKeeps
    <2> HIDE DEF i
    <2>5. /\ n \in Session /\ n.file = r.file /\ n.ending = r.ending
          /\ n.world.tick = r.world.tick /\ n.world.begun = r.world.begun
          /\ n.world.orphan = r.world.orphan /\ n.world.phase = r.world.phase
      BY <1>3, <2>4, Changes, NativeKeeps
    <2> HIDE DEF n
    <2>6. Reserving(n)
      BY <2>1, <2>5 DEF Reserving
    <2> QED BY <2>1, <2>3, <2>5, <2>6, SettledSound
  <1>4. CASE c.outer # NoKeeper /\ c.inner # NoKeeper /\ ~Candidate(s, c.outer, c.to)
    <2> DEFINE i == Changed(s, c.inner, c.innerTo, c.innerAccepted)
               n == Native(i, c.outer, c.to, c.accepted)
    <2>1. Transition(s, c) = n
      BY <1>4 DEF Transition, Reserved, Settled
    <2>2. /\ i \in Session /\ i.file = s.file /\ i.world.tick = s.world.tick
          /\ i.ending.hasTick = s.ending.hasTick /\ i.ending.lastTick = s.ending.lastTick
          /\ GoodWorld(i.world) /\ Known(i)
          /\ s.world.status[Shared] # "playing"
               => i.world.status[Shared] = s.world.status[Shared]
      BY <1>4, Changes, ChangedSound
    <2> HIDE DEF i
    <2>3. c.outer = Shared /\ s.world.status[Shared] = "playing" => c.to = "lost"
      BY <1>4, Changes DEF Candidate, GoodWorld, Known
    <2>4. c.outer = Shared /\ i.world.status[Shared] = "playing" => c.to = "lost"
      BY <2>2, <2>3
    <2>5. GoodWorld(n.world) /\ Known(n)
      BY <1>4, <2>2, <2>4, Changes, NativeSound
    <2>6. /\ n \in Session /\ n.file = i.file /\ n.ending = i.ending
          /\ n.world.tick = i.world.tick
      BY <1>4, <2>2, Changes, NativeKeeps
    <2> QED BY <2>1, <2>2, <2>5, <2>6
  <1> QED BY <1>1, <1>2, <1>3, <1>4

-----------------------------------------------------------------------------
(* A tick and a reload *)

LEMMA TickedSound ==
  ASSUME NEW s \in Session, Sound(s), NEW c \in Change, NEW save, NEW cam, NEW out
  PROVE  Ticked(s, c, save, cam, out) \in Session /\ Sound(Ticked(s, c, save, cam, out))
  <1> DEFINE kept == IF save THEN [s EXCEPT !.file = s.world] ELSE s
             o == Observed(kept)
             w == Walked(o, cam, out)
             g == Passed(w)
             d == Transition(g, c)
             t == Ticked(s, c, save, cam, out)
  <1>1. kept \in Session /\ Sound(kept)
    <2>1. s.world \in World
      BY DEF Session
    <2>2. CASE save
      <3>1. kept \in Session /\ kept.world = s.world /\ kept.file = s.world
            /\ kept.ending = s.ending
        BY <2>1, <2>2 DEF Session
      <3> HIDE DEF kept
      <3> QED BY <3>1 DEF Sound, Seen, Known, Unseen
    <2>3. CASE ~save
      BY <2>3
    <2> QED BY <2>2, <2>3
  <1>2. t = [d EXCEPT !.world = [d.world EXCEPT !.tick = d.world.tick + 1]]
    <2>1. t = [d EXCEPT !.world.tick = d.world.tick + 1]
      BY DEF Ticked
    <2> HIDE DEF d, t
    <2> QED BY <2>1
  <1> HIDE DEF kept, t
  <1>3. /\ o \in Session /\ o.world = kept.world /\ o.file = kept.file
        /\ o.ending.hasTick /\ o.ending.lastTick = kept.world.tick /\ Known(o)
        /\ GoodWorld(o.world)
    BY <1>1, ObservedFields, ObservedKnows DEF Sound
  <1> HIDE DEF o
  <1>4. /\ w \in Session /\ w.file = o.file /\ GoodWorld(w.world) /\ Known(w)
        /\ w.world.tick = o.world.tick
        /\ w.ending.hasTick = o.ending.hasTick /\ w.ending.lastTick = o.ending.lastTick
    BY <1>3, WalkedKeeps
  <1> HIDE DEF w
  <1>5. /\ g \in Session /\ g.file = w.file /\ GoodWorld(g.world) /\ Known(g)
        /\ g.world.tick = w.world.tick /\ g.ending = w.ending
    BY <1>4, PassedKeeps
  <1> HIDE DEF g
  <1>6. /\ d \in Session /\ d.file = g.file /\ GoodWorld(d.world) /\ Known(d)
        /\ d.world.tick = g.world.tick
        /\ d.ending.hasTick = g.ending.hasTick /\ d.ending.lastTick = g.ending.lastTick
    BY <1>5, TransitionSound
  <1> HIDE DEF d
  <1>7. /\ t \in Session /\ t.file = d.file /\ t.ending = d.ending
        /\ t.world.tick = d.world.tick + 1 /\ t.world.begun = d.world.begun
        /\ t.world.kind = d.world.kind /\ t.world.orphan = d.world.orphan
        /\ t.world.status = d.world.status /\ t.world.phase = d.world.phase
    BY <1>2, <1>6 DEF Session, World
  <1>8. GoodWorld(t.world) /\ Known(t)
    BY <1>6, <1>7 DEF GoodWorld, Known
  <1>9. t.file # NoSave => GoodWorld(t.file)
    BY <1>1, <1>3, <1>4, <1>5, <1>6, <1>7 DEF Sound
  <1>10. t.ending.hasTick /\ t.ending.lastTick + 1 = t.world.tick
    BY ZenonT(60), <1>3, <1>4, <1>5, <1>6, <1>7
  <1> QED BY <1>7, <1>8, <1>9, <1>10 DEF Sound, Seen, t

LEMMA ReloadedSound ==
  ASSUME NEW s \in Session, Sound(s), s.file # NoSave, s.file.tick < s.ending.lastTick
  PROVE  Reloaded(s) \in Session /\ Sound(Reloaded(s))
  <1> DEFINE t == Reloaded(s)
             w == [s.file EXCEPT !.orphan = s.file.orphan \/ s.file.begun > 0]
  <1>1. s.file \in World /\ s.ending \in Ending /\ s.world \in World
    BY DEF Session
  <1>2. (s.file.orphan \/ s.file.begun > 0) \in BOOLEAN
    OBVIOUS
  <1>3. w \in World /\ w.tick = s.file.tick /\ w.begun = s.file.begun
        /\ w.kind = s.file.kind /\ w.status = s.file.status /\ w.phase = s.file.phase
        /\ (w.orphan <=> s.file.orphan \/ s.file.begun > 0)
    BY <1>1, <1>2 DEF World
  <1>4. t = [s EXCEPT !.world = w]
    BY DEF Reloaded
  <1> HIDE DEF w, t
  <1>5. t \in Session /\ t.world = w /\ t.file = s.file /\ t.ending = s.ending
    BY <1>3, <1>4 DEF Session
  <1>6. GoodWorld(s.file)
    BY DEF Sound
  <1>7. GoodWorld(w)
    BY <1>3, <1>6 DEF GoodWorld
  <1>8. s.ending.hasTick
    <2>1. s.file.tick \in Nat
      BY <1>1 DEF World
    <2> QED BY <2>1 DEF Sound, Seen, Unseen
  <1>9. Unseen(t)
    BY <1>3, <1>5, <1>8, <1>6 DEF Unseen, GoodWorld
  <1> QED BY <1>5, <1>6, <1>7, <1>9 DEF Sound, t

LEMMA ActionTypes ==
  ASSUME TypeOK, AllSound, [Next]_vars
  PROVE  TypeOK' /\ AllSound'
  <1>1. CASE Tick
    <2>1. PICK c \in Change, save \in BOOLEAN, cam \in [Peer -> BOOLEAN], out \in BOOLEAN :
            session' = [p \in Peer |-> Ticked(session[p], c, save, cam[p], out)]
      <3>1. Quiet \in Change
        BY DEF Change
      <3>2. PICK c \in IF Before(LastWin) THEN Change ELSE {Quiet},
                 save \in IF Before(LastWin) THEN BOOLEAN ELSE {FALSE},
                 cam \in IF InPhase({"path", "move"}) THEN [Peer -> BOOLEAN]
                                                    ELSE {[p \in Peer |-> FALSE]},
                 out \in IF Before(MaxTick - 1) /\ InPhase({"gems"}) THEN BOOLEAN ELSE {TRUE} :
              session' = [p \in Peer |-> Ticked(session[p], c, save, cam[p], out)]
        BY <1>1 DEF Tick
      <3>3. c \in Change /\ save \in BOOLEAN /\ out \in BOOLEAN
        BY <3>1
      <3>4. cam \in [Peer -> BOOLEAN]
        OBVIOUS
      <3> QED BY <3>2, <3>3, <3>4
    <2>2. ASSUME NEW p \in Peer
          PROVE  session'[p] \in Session /\ Sound(session'[p])
      <3>1. session[p] \in Session /\ Sound(session[p])
        BY DEF TypeOK, AllSound
      <3>2. session'[p] = Ticked(session[p], c, save, cam[p], out)
        BY <2>1
      <3> QED BY <3>1, <3>2, TickedSound
    <2> QED BY <2>1, <2>2 DEF TypeOK, AllSound
  <1>2. CASE Reload
    <2>1. ASSUME NEW p \in Peer
          PROVE  Reloaded(session[p]) \in Session /\ Sound(Reloaded(session[p]))
      BY <1>2, ReloadedSound DEF Reload, TypeOK, AllSound
    <2> QED BY <1>2, <2>1 DEF Reload, TypeOK, AllSound
  <1>3. ASSUME NEW p \in Peer, Animate(p)
        PROVE  TypeOK' /\ AllSound'
    <2>1. PICK ui \in Animation : session' = [session EXCEPT ![p] = [session[p] EXCEPT !.ui = ui]]
      BY <1>3 DEF Animate, Animation, TypeOK
    <2>2. session[p] \in Session /\ Sound(session[p])
      BY DEF TypeOK, AllSound
    <2> DEFINE t == [session[p] EXCEPT !.ui = ui]
    <2>3. t \in Session /\ t.world = session[p].world /\ t.file = session[p].file
          /\ t.ending = session[p].ending
      BY <2>2 DEF Session
    <2> HIDE DEF t
    <2>4. Sound(t)
      BY <2>2, <2>3 DEF Sound, Seen, Known, Unseen
    <2>5. session' = [session EXCEPT ![p] = t]
      BY <2>1 DEF t
    <2> QED BY <2>3, <2>4, <2>5 DEF TypeOK, AllSound
  <1>4. CASE UNCHANGED vars
    BY <1>4 DEF vars, TypeOK, AllSound
  <1> QED BY <1>1, <1>2, <1>3, <1>4 DEF Next

LEMMA InitSound ==
  ASSUME Init
  PROVE  TypeOK /\ AllSound
  <1>1. PICK kind \in Authored :
          session = [p \in Peer |-> [world |-> NewWorld(kind), file |-> NoSave,
                                     ending |-> NoEnding, ui |-> "idle"]]
    BY DEF Init
  <1>2. kind \in Kinds
    BY AuthoredAssumption
  <1>3. NewWorld(kind) \in World
    BY <1>2 DEF NewWorld, World, Status, Phase
  <1>4. NoEnding \in Ending
    BY DEF NoEnding, Ending
  <1>5. TypeOK
    BY <1>1, <1>3, <1>4 DEF TypeOK, Session, Animation
  <1>6. GoodWorld(NewWorld(kind))
    BY KeepersAssumption DEF GoodWorld, NewWorld
  <1>7. AllSound
    BY <1>1, <1>6 DEF AllSound, Sound, Unseen, NoEnding, NewWorld
  <1> QED BY <1>5, <1>7

LEMMA Invariant == Spec => [](TypeOK /\ AllSound)
  <1>1. Init => TypeOK /\ AllSound
    BY InitSound
  <1>2. TypeOK /\ AllSound /\ [Next]_vars => (TypeOK /\ AllSound)'
    BY ActionTypes
  <1> QED BY <1>1, <1>2, PTL DEF Spec

-----------------------------------------------------------------------------
(* What follows *)

\* The sessions of all peers keep their types: no wait runs below zero.
THEOREM Types == Spec => []TypeOK
  BY Invariant, PTL

\* No ending begins twice in the same world.
THEOREM OneEnding == Spec => []BeginsOnce
  <1>1. AllSound => BeginsOnce
    <2> SUFFICES ASSUME AllSound, NEW p \in Peer
                 PROVE  session[p].world.begun <= 1
      BY DEF BeginsOnce
    <2>1. session[p].world.begun = 0 \/ session[p].world.begun = 1
      BY DEF AllSound, Sound, GoodWorld
    <2> QED BY <2>1
  <1> QED BY <1>1, Invariant, PTL

\* The shared Keeper who won has had his ending.
THEOREM NoWinnerWithout == Spec => []WinnerHasEnding
  <1>1. AllSound => WinnerHasEnding
    BY DEF AllSound, Sound, GoodWorld, WinnerHasEnding
  <1> QED BY <1>1, Invariant, PTL

\* The object knows the ending of the world it is with, and no other.
THEOREM Knows == Spec => []KnowsItsWorld
  <1>1. TypeOK /\ AllSound => KnowsItsWorld
    <2> SUFFICES ASSUME TypeOK, AllSound, NEW p \in Peer, Seen(session[p])
                 PROVE  ActiveFor(session[p].ending, Shared)
                          <=> session[p].world.begun > 0 /\ session[p].world.kind # "none"
                                /\ ~session[p].world.orphan
      BY DEF KnowsItsWorld
    <2>1. session[p].world \in World /\ session[p].ending \in Ending
      BY DEF TypeOK, Session
    <2>2. session[p].world.kind \in {"gem", "none", "alternative"}
      BY <2>1 DEF World, Kinds
    <2>3. GoodWorld(session[p].world)
      BY DEF AllSound, Sound
    <2>4. Known(session[p])
      BY <2>1 DEF AllSound, Sound, Seen, Unseen, World, Ending
    <2> QED BY <2>2, <2>3, <2>4 DEF Known, GoodWorld, ActiveFor
  <1> QED BY <1>1, Invariant, PTL

-----------------------------------------------------------------------------
(* Two peers *)

\* The same world, but for the creature of an ending that nobody tracks any more.
Alike(v, w) ==
  /\ v.tick = w.tick /\ v.status = w.status /\ v.kind = w.kind
  /\ v.begun = w.begun /\ v.orphan = w.orphan /\ v.fireworks = w.fireworks
  /\ v.orphan \/ (v.phase = w.phase /\ v.left = w.left)

\* The same object, but for its knowing of the end.
SameObject(e, f) ==
  /\ e.keeper = f.keeper /\ e.creature = f.creature /\ e.alternative = f.alternative
  /\ e.attempted = f.attempted /\ e.hasTick = f.hasTick /\ e.lastTick = f.lastTick

\* Two peers that have taken the same steps.
Twin(s, t) ==
  /\ Alike(s.world, t.world) /\ SameObject(s.ending, t.ending)
  /\ s.file = NoSave <=> t.file = NoSave
  /\ s.file # NoSave => Alike(s.file, t.file)

AllTwins == \A p, q \in Peer : Twin(session[p], session[q])

LEMMA ObservedTwin ==
  ASSUME NEW s \in Session, NEW t \in Session, Twin(s, t)
  PROVE  Twin(Observed(s), Observed(t))
  <1> DEFINE o == Observed(s)
             u == Observed(t)
  <1>1. s.ending \in Ending /\ t.ending \in Ending /\ o.world = s.world /\ u.world = t.world
        /\ o.file = s.file /\ u.file = t.file
    BY ObservedFields DEF Session
  <1>2. s.world.tick = t.world.tick /\ SameObject(s.ending, t.ending)
    BY DEF Twin, Alike
  <1>3. SameObject(o.ending, u.ending)
    <2> HIDE DEF o, u
    <2> USE <1>2 DEF SameObject
    <2>1. o.ending.keeper = u.ending.keeper
      BY ObservedFields DEF o, u
    <2>2. o.ending.hasTick /\ u.ending.hasTick /\ o.ending.lastTick = u.ending.lastTick
      BY ObservedFields DEF o, u
    <2>3. o.ending.creature <=> u.ending.creature
      BY ObservedFields DEF o, u
    <2>4. o.ending.alternative <=> u.ending.alternative
      BY ObservedFields DEF o, u
    <2>5. o.ending.attempted <=> u.ending.attempted
      BY ObservedFields DEF o, u
    <2>6. o.ending \in Ending /\ u.ending \in Ending
      BY ObservedFields DEF Session, o, u
    <2> QED BY <2>1, <2>2, <2>3, <2>4, <2>5, <2>6 DEF Ending
  <1> QED BY <1>1, <1>3 DEF Twin

\* A creature that the object knows goes on by the shared waits alone.
LEMMA WalkedFields ==
  ASSUME NEW s \in Session, NEW cam, NEW out
  PROVE  LET w == Walked(s, cam, out) IN
         /\ w.file = s.file /\ SameObject(w.ending, s.ending)
         /\ w.world.tick = s.world.tick /\ w.world.status = s.world.status
         /\ w.world.kind = s.world.kind /\ w.world.begun = s.world.begun
         /\ w.world.orphan = s.world.orphan /\ w.world.fireworks = s.world.fireworks
         /\ Matches(s) =>
              /\ w.world.phase
                   = IF s.world.phase = "path" /\ s.world.left = 0 THEN "move"
                     ELSE IF s.world.phase = "move" /\ s.world.left = 0 THEN "gems"
                     ELSE IF s.world.phase = "gems" /\ out THEN "done"
                     ELSE s.world.phase
              /\ w.world.left = IF s.world.phase = "path" /\ s.world.left = 0 THEN MoveTicks
                                ELSE s.world.left
         /\ s.world.phase = "absent" => w.world = s.world
  <1> DEFINE w == Walked(s, cam, out)
  <1>1. s.world \in World /\ s.ending \in Ending
    BY DEF Session
  <1>2. Matches(s) => (Pending(s, cam) <=> s.world.left # 0)
    BY <1>1 DEF Pending, World
  <1>3. CASE s.world.phase = "path" /\ ~Pending(s, cam)
    <2>1. w = [s EXCEPT !.world = [[s.world EXCEPT !.phase = "move"] EXCEPT !.left = MoveTicks]]
      BY <1>3, <1>1 DEF Walked, Session, World
    <2> HIDE DEF w
    <2>2. w.file = s.file /\ w.ending = s.ending
          /\ w.world.tick = s.world.tick /\ w.world.status = s.world.status
          /\ w.world.kind = s.world.kind /\ w.world.begun = s.world.begun
          /\ w.world.orphan = s.world.orphan /\ w.world.fireworks = s.world.fireworks
          /\ w.world.phase = "move" /\ w.world.left = MoveTicks
      BY <2>1, <1>1 DEF Session, World
    <2> QED BY <2>2, <1>2, <1>3 DEF SameObject, w
  <1>4. CASE s.world.phase = "move" /\ ~Pending(s, cam)
    <2>1. w = [s EXCEPT !.world = [s.world EXCEPT !.phase = "gems"]]
      BY <1>4, <1>1 DEF Walked, Session, World
    <2> HIDE DEF w
    <2>2. w.file = s.file /\ w.ending = s.ending
          /\ w.world.tick = s.world.tick /\ w.world.status = s.world.status
          /\ w.world.kind = s.world.kind /\ w.world.begun = s.world.begun
          /\ w.world.orphan = s.world.orphan /\ w.world.fireworks = s.world.fireworks
          /\ w.world.phase = "gems" /\ w.world.left = s.world.left
      BY <2>1, <1>1 DEF Session, World
    <2> QED BY <2>2, <1>2, <1>4 DEF SameObject, w
  <1>5. CASE s.world.phase = "gems" /\ out
    <2>1. w = [s EXCEPT !.world = [s.world EXCEPT !.phase = "done"],
                        !.ending = [s.ending EXCEPT !.complete = s.ending.complete \/ Matches(s)]]
      BY <1>5, <1>1 DEF Walked, Session, World
    <2> HIDE DEF w
    <2>2. w.file = s.file
          /\ w.world.tick = s.world.tick /\ w.world.status = s.world.status
          /\ w.world.kind = s.world.kind /\ w.world.begun = s.world.begun
          /\ w.world.orphan = s.world.orphan /\ w.world.fireworks = s.world.fireworks
          /\ w.world.phase = "done" /\ w.world.left = s.world.left
      BY <2>1, <1>1 DEF Session, World
    <2>3. SameObject(w.ending, s.ending)
      BY <2>1, <1>1 DEF Session, Ending, SameObject
    <2> QED BY <2>2, <2>3, <1>5 DEF w
  <1>6. CASE ~(s.world.phase = "path" /\ ~Pending(s, cam))
             /\ ~(s.world.phase = "move" /\ ~Pending(s, cam))
             /\ ~(s.world.phase = "gems" /\ out)
    <2>1. w = s
      BY <1>6 DEF Walked
    <2> HIDE DEF w
    <2> QED BY <2>1, <1>2, <1>6 DEF SameObject, w
  <1> QED BY <1>3, <1>4, <1>5, <1>6

LEMMA WalkedTwin ==
  ASSUME NEW s \in Session, NEW t \in Session, Twin(s, t), NEW camS, NEW camT, NEW out,
         GoodWorld(s.world), GoodWorld(t.world), Known(s), Known(t)
  PROVE  Twin(Walked(s, camS, out), Walked(t, camT, out))
  <1> DEFINE v == Walked(s, camS, out)
             w == Walked(t, camT, out)
  <1>1. /\ v.file = s.file /\ SameObject(v.ending, s.ending)
        /\ v.world.tick = s.world.tick /\ v.world.status = s.world.status
        /\ v.world.kind = s.world.kind /\ v.world.begun = s.world.begun
        /\ v.world.orphan = s.world.orphan /\ v.world.fireworks = s.world.fireworks
    BY WalkedFields
  <1>2. /\ w.file = t.file /\ SameObject(w.ending, t.ending)
        /\ w.world.tick = t.world.tick /\ w.world.status = t.world.status
        /\ w.world.kind = t.world.kind /\ w.world.begun = t.world.begun
        /\ w.world.orphan = t.world.orphan /\ w.world.fireworks = t.world.fireworks
    BY WalkedFields
  <1>3. SameObject(v.ending, w.ending)
    BY <1>1, <1>2 DEF Twin, SameObject
  <1>4. v.world.orphan \/ (v.world.phase = w.world.phase /\ v.world.left = w.world.left)
    <2>1. CASE s.world.orphan
      BY <2>1, <1>1
    <2>2. CASE ~s.world.orphan /\ s.world.phase = "absent"
      <3>1. t.world.phase = "absent" /\ s.world.left = t.world.left
        BY <2>2 DEF Twin, Alike
      <3> QED BY <2>2, <3>1, WalkedFields
    <2>3. CASE ~s.world.orphan /\ s.world.phase # "absent"
      <3>1. t.world.phase = s.world.phase /\ s.world.left = t.world.left /\ ~t.world.orphan
        BY <2>3 DEF Twin, Alike
      <3>2. Matches(s) /\ Matches(t)
        BY <2>3, <3>1 DEF GoodWorld, Known, Matches, ActiveFor
      <3>3. v.world.phase = w.world.phase
        BY <3>1, <3>2, WalkedFields
      <3>4. v.world.left = w.world.left
        BY <3>1, <3>2, WalkedFields
      <3> QED BY <3>3, <3>4
    <2> QED BY <2>1, <2>2, <2>3
  <1> HIDE DEF v, w
  <1>5. Twin(v, w)
    BY <1>1, <1>2, <1>3, <1>4 DEF Twin, Alike
  <1> QED BY <1>5 DEF v, w

LEMMA PassedTwin ==
  ASSUME NEW s \in Session, NEW t \in Session, Twin(s, t)
  PROVE  Twin(Passed(s), Passed(t))
  <1>1. ASSUME NEW r \in Session
        PROVE  LET w == Passed(r) IN
               /\ w.file = r.file /\ w.ending = r.ending
               /\ w.world.tick = r.world.tick /\ w.world.status = r.world.status
               /\ w.world.kind = r.world.kind /\ w.world.begun = r.world.begun
               /\ w.world.orphan = r.world.orphan /\ w.world.phase = r.world.phase
               /\ w.world.fireworks = Down(r.world.fireworks)
               /\ w.world.left = Down(r.world.left)
    <2>1. r.world \in World
      BY DEF Session
    <2>2. Passed(r) = [r EXCEPT !.world = [[r.world EXCEPT !.left = Down(r.world.left)]
                                  EXCEPT !.fireworks = Down(r.world.fireworks)]]
      BY <2>1 DEF Passed, Session, World
    <2> QED BY ZenonT(60), <2>1, <2>2 DEF Session, World
  <1> DEFINE v == Passed(s)
             w == Passed(t)
  <1>2. /\ v.file = s.file /\ v.ending = s.ending
        /\ v.world.tick = s.world.tick /\ v.world.status = s.world.status
        /\ v.world.kind = s.world.kind /\ v.world.begun = s.world.begun
        /\ v.world.orphan = s.world.orphan /\ v.world.phase = s.world.phase
        /\ v.world.fireworks = Down(s.world.fireworks) /\ v.world.left = Down(s.world.left)
    BY <1>1
  <1>3. /\ w.file = t.file /\ w.ending = t.ending
        /\ w.world.tick = t.world.tick /\ w.world.status = t.world.status
        /\ w.world.kind = t.world.kind /\ w.world.begun = t.world.begun
        /\ w.world.orphan = t.world.orphan /\ w.world.phase = t.world.phase
        /\ w.world.fireworks = Down(t.world.fireworks) /\ w.world.left = Down(t.world.left)
    BY <1>1
  <1> HIDE DEF v, w
  <1>4. Twin(v, w)
    BY <1>2, <1>3 DEF Twin, Alike
  <1> QED BY <1>4 DEF v, w

LEMMA NativeTwin ==
  ASSUME NEW s \in Session, NEW t \in Session, Twin(s, t),
         NEW k \in Keepers, NEW to \in {"won", "lost"}, NEW accepted
  PROVE  Twin(Native(s, k, to, accepted), Native(t, k, to, accepted))
  <1>1. s.world.status[k] = t.world.status[k] /\ s.world.status = t.world.status
    BY DEF Twin, Alike
  <1>2. CASE s.world.status[k] = "playing" /\ accepted
    <2>1. ASSUME NEW r \in Session, r.world.status[k] = "playing"
          PROVE  LET w == Native(r, k, to, accepted) IN
                 /\ w.file = r.file /\ w.ending = r.ending
                 /\ w.world.tick = r.world.tick /\ w.world.fireworks = r.world.fireworks
                 /\ w.world.kind = r.world.kind /\ w.world.begun = r.world.begun
                 /\ w.world.orphan = r.world.orphan /\ w.world.phase = r.world.phase
                 /\ w.world.left = r.world.left
                 /\ w.world.status = [r.world.status EXCEPT ![k] = to]
      <3>1. r.world \in World
        BY DEF Session
      <3>2. Native(r, k, to, accepted)
              = [r EXCEPT !.world = [r.world EXCEPT !.status = [r.world.status EXCEPT ![k] = to]]]
        BY <1>2, <2>1, <3>1 DEF Native, Session, World
      <3> QED BY <3>1, <3>2 DEF Session, World
    <2> DEFINE v == Native(s, k, to, accepted)
               w == Native(t, k, to, accepted)
    <2>2. /\ v.file = s.file /\ v.ending = s.ending
          /\ v.world.tick = s.world.tick /\ v.world.fireworks = s.world.fireworks
          /\ v.world.kind = s.world.kind /\ v.world.begun = s.world.begun
          /\ v.world.orphan = s.world.orphan /\ v.world.phase = s.world.phase
          /\ v.world.left = s.world.left
          /\ v.world.status = [s.world.status EXCEPT ![k] = to]
      BY <1>2, <2>1
    <2>3. /\ w.file = t.file /\ w.ending = t.ending
          /\ w.world.tick = t.world.tick /\ w.world.fireworks = t.world.fireworks
          /\ w.world.kind = t.world.kind /\ w.world.begun = t.world.begun
          /\ w.world.orphan = t.world.orphan /\ w.world.phase = t.world.phase
          /\ w.world.left = t.world.left
          /\ w.world.status = [t.world.status EXCEPT ![k] = to]
      BY <1>1, <1>2, <2>1
    <2> HIDE DEF v, w
    <2>4. Twin(v, w)
      BY <1>1, <2>2, <2>3 DEF Twin, Alike
    <2> QED BY <2>4 DEF v, w
  <1>3. CASE ~(s.world.status[k] = "playing" /\ accepted)
    BY <1>1, <1>3 DEF Native
  <1> QED BY <1>2, <1>3

LEMMA ReservedTwin ==
  ASSUME NEW s \in Session, NEW t \in Session, Twin(s, t)
  PROVE  Twin(Reserved(s, TRUE), Reserved(t, TRUE))
  <1>1. s.ending \in Ending /\ t.ending \in Ending
    BY DEF Session
  <1>2. Reserved(s, TRUE) = [s EXCEPT !.ending = [s.ending EXCEPT !.attempted = TRUE]]
        /\ Reserved(t, TRUE) = [t EXCEPT !.ending = [t.ending EXCEPT !.attempted = TRUE]]
    BY <1>1 DEF Reserved, Session, Ending
  <1> DEFINE v == [s EXCEPT !.ending = [s.ending EXCEPT !.attempted = TRUE]]
             w == [t EXCEPT !.ending = [t.ending EXCEPT !.attempted = TRUE]]
  <1>3. v.world = s.world /\ v.file = s.file /\ w.world = t.world /\ w.file = t.file
        /\ v.ending = [s.ending EXCEPT !.attempted = TRUE]
        /\ w.ending = [t.ending EXCEPT !.attempted = TRUE]
    BY DEF Session
  <1> HIDE DEF v, w
  <1>4. SameObject(v.ending, w.ending)
    BY <1>1, <1>3 DEF Ending, Twin, SameObject
  <1>5. Twin(v, w)
    BY <1>3, <1>4 DEF Twin
  <1> QED BY <1>2, <1>5 DEF v, w

LEMMA ConcludedTwin ==
  ASSUME NEW s \in Session, NEW t \in Session, Twin(s, t)
  PROVE  Twin(Concluded(s), Concluded(t))
  <1>1. s.ending \in Ending /\ t.ending \in Ending /\ s.world \in World /\ t.world \in World
    BY DEF Session
  <1>2. CASE s.world.status[Shared] = "won"
    <2>1. ASSUME NEW r \in Session, r.world.status[Shared] = "won"
          PROVE  LET w == Concluded(r) IN
                 /\ w.file = r.file
                 /\ w.world.tick = r.world.tick /\ w.world.status = r.world.status
                 /\ w.world.kind = r.world.kind /\ w.world.begun = r.world.begun + 1
                 /\ w.world.orphan = r.world.orphan
                 /\ w.world.fireworks = IF r.world.kind = "alternative" THEN Fireworks
                                        ELSE r.world.fireworks
                 /\ w.world.phase = IF r.world.kind = "gem" THEN "path" ELSE r.world.phase
                 /\ w.world.left = IF r.world.kind = "gem" THEN PathTicks ELSE r.world.left
                 /\ w.ending.keeper = Shared
                 /\ w.ending.creature = (r.world.kind = "gem")
                 /\ w.ending.alternative = (r.world.kind = "alternative")
                 /\ w.ending.attempted = r.ending.attempted
                 /\ w.ending.hasTick = r.ending.hasTick /\ w.ending.lastTick = r.ending.lastTick
      <3> DEFINE c == Cinematic(r.world)
                 e == [r.ending EXCEPT !.keeper = Shared,
                         !.creature = (r.world.kind = "gem"),
                         !.alternative = (r.world.kind = "alternative")]
      <3>1. r.world \in World /\ r.ending \in Ending
        BY DEF Session
      <3>2. Concluded(r) = [r EXCEPT !.world = c, !.ending = e]
        BY <2>1, <3>1 DEF Concluded, Settled, Started, Session, Ending
      <3>3. /\ c.tick = r.world.tick /\ c.status = r.world.status
            /\ c.kind = r.world.kind /\ c.begun = r.world.begun + 1
            /\ c.orphan = r.world.orphan
            /\ c.fireworks = IF r.world.kind = "alternative" THEN Fireworks ELSE r.world.fireworks
            /\ c.phase = IF r.world.kind = "gem" THEN "path" ELSE r.world.phase
            /\ c.left = IF r.world.kind = "gem" THEN PathTicks ELSE r.world.left
        BY <3>1 DEF Cinematic, World
      <3>4. /\ e.keeper = Shared
            /\ e.creature = (r.world.kind = "gem")
            /\ e.alternative = (r.world.kind = "alternative")
            /\ e.attempted = r.ending.attempted
            /\ e.hasTick = r.ending.hasTick /\ e.lastTick = r.ending.lastTick
        BY <3>1 DEF Ending
      <3> HIDE DEF c, e
      <3>5. Concluded(r).world = c /\ Concluded(r).ending = e /\ Concluded(r).file = r.file
        BY <3>2 DEF Session
      <3> QED BY <3>3, <3>4, <3>5
    <2>2. t.world.status[Shared] = "won" /\ s.world.kind = t.world.kind
      BY <1>2 DEF Twin, Alike
    <2>3. SameObject(Concluded(s).ending, Concluded(t).ending)
      BY <1>2, <2>1, <2>2 DEF Twin, SameObject
    <2>4. Alike(Concluded(s).world, Concluded(t).world)
      BY <1>2, <2>1, <2>2 DEF Twin, Alike
    <2>5. Concluded(s).file = s.file /\ Concluded(t).file = t.file
      BY <1>2, <2>1, <2>2
    <2> QED BY <2>3, <2>4, <2>5 DEF Twin
  <1>3. CASE s.world.status[Shared] # "won"
    <2> DEFINE v == [s EXCEPT !.ending = [s.ending EXCEPT !.attempted = FALSE]]
               w == [t EXCEPT !.ending = [t.ending EXCEPT !.attempted = FALSE]]
    <2>1. t.world.status[Shared] # "won"
      BY <1>3 DEF Twin, Alike
    <2>2. Concluded(s) = v /\ Concluded(t) = w
      BY <1>1, <1>3, <2>1 DEF Concluded, Settled, Session, Ending
    <2>3. v.world = s.world /\ v.file = s.file /\ w.world = t.world /\ w.file = t.file
          /\ v.ending = [s.ending EXCEPT !.attempted = FALSE]
          /\ w.ending = [t.ending EXCEPT !.attempted = FALSE]
      BY DEF Session
    <2> HIDE DEF v, w
    <2>4. SameObject(v.ending, w.ending)
      BY <1>1, <2>3 DEF Ending, Twin, SameObject
    <2>5. Twin(v, w)
      BY <2>3, <2>4 DEF Twin
    <2> QED BY <2>2, <2>5
  <1> QED BY <1>2, <1>3

LEMMA CandidateTwin ==
  ASSUME NEW s \in Session, NEW t \in Session, Twin(s, t), NEW k, NEW to
  PROVE  Candidate(s, k, to) <=> Candidate(t, k, to)
  BY DEF Candidate, Twin, Alike, SameObject

LEMMA ReservedSession ==
  ASSUME NEW s \in Session
  PROVE  Reserved(s, TRUE) \in Session
  <1>1. s.ending \in Ending
    BY DEF Session
  <1>2. Reserved(s, TRUE) = [s EXCEPT !.ending = [s.ending EXCEPT !.attempted = TRUE]]
    BY <1>1 DEF Reserved, Session, Ending
  <1>3. [s.ending EXCEPT !.attempted = TRUE] \in Ending
    BY <1>1 DEF Ending
  <1> QED BY <1>2, <1>3 DEF Session

LEMMA ChangedTwin ==
  ASSUME NEW s \in Session, NEW t \in Session, Twin(s, t),
         NEW k \in Keepers, NEW to \in {"won", "lost"}, NEW accepted
  PROVE  Twin(Changed(s, k, to, accepted), Changed(t, k, to, accepted))
  <1>1. CASE Candidate(s, k, to)
    <2> DEFINE v == Native(Reserved(s, TRUE), k, to, accepted)
               w == Native(Reserved(t, TRUE), k, to, accepted)
    <2>1. k = Shared /\ Candidate(t, k, to)
      BY <1>1, CandidateTwin DEF Candidate
    <2>2. Changed(s, k, to, accepted) = Concluded(v)
      BY <1>1, <2>1 DEF Concluded, Changed
    <2>3. Changed(t, k, to, accepted) = Concluded(w)
      BY <2>1 DEF Concluded, Changed
    <2>4. Twin(v, w)
      BY ReservedTwin, ReservedSession, NativeTwin
    <2>5. v \in Session /\ w \in Session
      BY ReservedSession, NativeKeeps
    <2> QED BY <2>2, <2>3, <2>4, <2>5, ConcludedTwin
  <1>2. CASE ~Candidate(s, k, to)
    <2>1. ~Candidate(t, k, to)
      BY <1>2, CandidateTwin
    <2>2. Changed(s, k, to, accepted) = Native(s, k, to, accepted)
          /\ Changed(t, k, to, accepted) = Native(t, k, to, accepted)
      BY <1>2, <2>1 DEF Changed, Reserved, Settled
    <2> QED BY <2>2, NativeTwin
  <1> QED BY <1>1, <1>2

LEMMA TransitionTwin ==
  ASSUME NEW s \in Session, NEW t \in Session, Twin(s, t), NEW c \in Change,
         GoodWorld(s.world), GoodWorld(t.world), Known(s), Known(t)
  PROVE  Twin(Transition(s, c), Transition(t, c))
  <1>1. CASE c.outer = NoKeeper
    BY <1>1 DEF Transition
  <1>2. CASE c.outer # NoKeeper /\ c.inner = NoKeeper
    <2>1. Transition(s, c) = Changed(s, c.outer, c.to, c.accepted)
          /\ Transition(t, c) = Changed(t, c.outer, c.to, c.accepted)
      BY <1>2 DEF Transition, Changed
    <2> QED BY <1>2, <2>1, Changes, ChangedTwin
  <1>3. CASE c.outer # NoKeeper /\ c.inner # NoKeeper /\ Candidate(s, c.outer, c.to)
    <2> DEFINE i(r) == Native(Reserved(r, TRUE), c.inner, c.innerTo, c.innerAccepted)
               n(r) == Native(i(r), c.outer, c.to, c.accepted)
    <2>1. c.outer = Shared /\ Candidate(t, c.outer, c.to)
      BY <1>3, CandidateTwin DEF Candidate
    <2>2. ~Candidate(Reserved(s, TRUE), c.inner, c.innerTo)
      BY <1>3, Changes, ReservedHolds DEF Reserving, Candidate
    <2>3. ~Candidate(Reserved(t, TRUE), c.inner, c.innerTo)
      BY <1>3, <2>1, Changes, ReservedHolds DEF Reserving, Candidate
    <2>4. Transition(s, c) = Concluded(n(s))
      BY <1>3, <2>1, <2>2 DEF Concluded, Transition, Changed, Reserved, Settled
    <2>5. Transition(t, c) = Concluded(n(t))
      BY <1>3, <2>1, <2>3 DEF Concluded, Transition, Changed, Reserved, Settled
    <2>6. Twin(i(s), i(t)) /\ i(s) \in Session /\ i(t) \in Session
      BY <1>3, Changes, ReservedTwin, ReservedSession, NativeTwin, NativeKeeps
    <2> HIDE DEF i
    <2>7. Twin(n(s), n(t)) /\ n(s) \in Session /\ n(t) \in Session
      BY <1>3, <2>6, Changes, NativeTwin, NativeKeeps
    <2> HIDE DEF n
    <2> QED BY <2>4, <2>5, <2>7, ConcludedTwin
  <1>4. CASE c.outer # NoKeeper /\ c.inner # NoKeeper /\ ~Candidate(s, c.outer, c.to)
    <2> DEFINE i(r) == Changed(r, c.inner, c.innerTo, c.innerAccepted)
               n(r) == Native(i(r), c.outer, c.to, c.accepted)
    <2>1. ~Candidate(t, c.outer, c.to)
      BY <1>4, CandidateTwin
    <2>2. Transition(s, c) = n(s) /\ Transition(t, c) = n(t)
      BY <1>4, <2>1 DEF Transition, Reserved, Settled
    <2>3. i(s) \in Session /\ i(t) \in Session
      BY <1>4, Changes, ChangedSound
    <2>4. Twin(i(s), i(t))
      BY <1>4, Changes, ChangedTwin
    <2> HIDE DEF i
    <2>5. Twin(n(s), n(t))
      BY <1>4, <2>3, <2>4, Changes, NativeTwin
    <2> QED BY <2>2, <2>5
  <1> QED BY <1>1, <1>2, <1>3, <1>4

LEMMA TickedTwin ==
  ASSUME NEW s \in Session, NEW t \in Session, Twin(s, t), Sound(s), Sound(t),
         NEW c \in Change, NEW save, NEW camS, NEW camT, NEW out
  PROVE  Twin(Ticked(s, c, save, camS, out), Ticked(t, c, save, camT, out))
  <1> DEFINE k(r) == IF save THEN [r EXCEPT !.file = r.world] ELSE r
             w(r, cam) == Walked(Observed(k(r)), cam, out)
             d(r, cam) == Transition(Passed(w(r, cam)), c)
             e(r) == [r EXCEPT !.world = [r.world EXCEPT !.tick = r.world.tick + 1]]
  <1>1. Ticked(s, c, save, camS, out) = e(d(s, camS))
        /\ Ticked(t, c, save, camT, out) = e(d(t, camT))
    <2>1. ASSUME NEW r, NEW cam
          PROVE  Ticked(r, c, save, cam, out) = e(d(r, cam))
      <3>1. Ticked(r, c, save, cam, out) = [d(r, cam) EXCEPT !.world.tick = d(r, cam).world.tick + 1]
        BY DEF Ticked
      <3> HIDE DEF d
      <3> QED BY <3>1
    <2> QED BY <2>1
  <1>2. ASSUME NEW r \in Session, Sound(r)
        PROVE  /\ k(r) \in Session /\ Sound(k(r)) /\ k(r).world = r.world
               /\ k(r).file = (IF save THEN r.world ELSE r.file) /\ k(r).ending = r.ending
    <2>1. CASE save
      <3>1. r.world \in World
        BY DEF Session
      <3>2. k(r) \in Session /\ k(r).world = r.world /\ k(r).file = r.world
            /\ k(r).ending = r.ending
        BY <2>1, <3>1 DEF Session
      <3> HIDE DEF k
      <3> QED BY <2>1, <3>2, <1>2 DEF Sound, Seen, Known, Unseen
    <2>2. CASE ~save
      BY <2>2, <1>2
    <2> QED BY <2>1, <2>2
  <1>3. Twin(k(s), k(t))
    <2>1. s.world \in World /\ t.world \in World
      BY DEF Session
    <2>2. s.world # NoSave /\ t.world # NoSave
      BY <2>1, NoSaveAssumption
    <2> HIDE DEF k
    <2> QED BY <1>2, <2>2 DEF Twin
  <1> HIDE DEF k
  <1>4. ASSUME NEW r \in Session, Sound(r)
        PROVE  /\ Observed(k(r)) \in Session /\ Known(Observed(k(r)))
               /\ GoodWorld(Observed(k(r)).world)
    BY <1>2, <1>4, ObservedFields, ObservedKnows DEF Sound
  <1>5. Twin(Observed(k(s)), Observed(k(t)))
    BY <1>2, <1>3, ObservedTwin
  <1>6. Twin(w(s, camS), w(t, camT))
    BY <1>4, <1>5, WalkedTwin
  <1>7. ASSUME NEW r \in Session, Sound(r), NEW cam
        PROVE  /\ w(r, cam) \in Session /\ GoodWorld(w(r, cam).world) /\ Known(w(r, cam))
    BY <1>4, <1>7, WalkedKeeps
  <1> HIDE DEF w
  <1>8. Twin(d(s, camS), d(t, camT))
    BY <1>6, <1>7, PassedTwin, PassedKeeps, TransitionTwin
  <1>9. d(s, camS) \in Session /\ d(t, camT) \in Session
    BY <1>7, PassedKeeps, TransitionSound
  <1> HIDE DEF d
  <1>10. ASSUME NEW u \in Session, NEW v \in Session, Twin(u, v)
         PROVE  Twin(e(u), e(v))
    <2>1. ASSUME NEW r \in Session
          PROVE  /\ e(r).file = r.file /\ e(r).ending = r.ending
                 /\ e(r).world.tick = r.world.tick + 1 /\ e(r).world.begun = r.world.begun
                 /\ e(r).world.kind = r.world.kind /\ e(r).world.orphan = r.world.orphan
                 /\ e(r).world.status = r.world.status /\ e(r).world.phase = r.world.phase
                 /\ e(r).world.fireworks = r.world.fireworks /\ e(r).world.left = r.world.left
      BY DEF Session, World
    <2> HIDE DEF e
    <2> QED BY <1>10, <2>1 DEF Twin, Alike
  <1> HIDE DEF e
  <1> QED BY <1>1, <1>8, <1>9, <1>10

LEMMA ReloadedTwin ==
  ASSUME NEW s \in Session, NEW t \in Session, Twin(s, t), s.file # NoSave
  PROVE  Twin(Reloaded(s), Reloaded(t))
  <1>1. s.file \in World /\ t.file \in World /\ Alike(s.file, t.file)
    BY DEF Session, Twin
  <1>2. ASSUME NEW r \in Session, r.file \in World
        PROVE  LET w == Reloaded(r) IN
               /\ w.file = r.file /\ w.ending = r.ending
               /\ w.world.tick = r.file.tick /\ w.world.status = r.file.status
               /\ w.world.kind = r.file.kind /\ w.world.begun = r.file.begun
               /\ w.world.fireworks = r.file.fireworks /\ w.world.phase = r.file.phase
               /\ w.world.left = r.file.left
               /\ w.world.orphan = (r.file.orphan \/ r.file.begun > 0)
    BY <1>2 DEF Reloaded, Session, World
  <1> QED BY ZenonT(60), <1>1, <1>2 DEF Twin, Alike

LEMMA StepTwin ==
  ASSUME TypeOK, AllSound, AllTwins, [Next]_vars
  PROVE  AllTwins'
  <1>1. CASE Tick
    <2>1. PICK c \in Change, save \in BOOLEAN, cam \in [Peer -> BOOLEAN], out \in BOOLEAN :
            session' = [p \in Peer |-> Ticked(session[p], c, save, cam[p], out)]
      <3>1. Quiet \in Change
        BY DEF Change
      <3>2. PICK c \in IF Before(LastWin) THEN Change ELSE {Quiet},
                 save \in IF Before(LastWin) THEN BOOLEAN ELSE {FALSE},
                 cam \in IF InPhase({"path", "move"}) THEN [Peer -> BOOLEAN]
                                                    ELSE {[p \in Peer |-> FALSE]},
                 out \in IF Before(MaxTick - 1) /\ InPhase({"gems"}) THEN BOOLEAN ELSE {TRUE} :
              session' = [p \in Peer |-> Ticked(session[p], c, save, cam[p], out)]
        BY <1>1 DEF Tick
      <3>3. c \in Change /\ save \in BOOLEAN /\ out \in BOOLEAN
        BY <3>1
      <3>4. cam \in [Peer -> BOOLEAN]
        OBVIOUS
      <3> QED BY <3>2, <3>3, <3>4
    <2>2. ASSUME NEW p \in Peer, NEW q \in Peer
          PROVE  Twin(session'[p], session'[q])
      BY <2>1, TickedTwin DEF TypeOK, AllSound, AllTwins
    <2> QED BY <2>2 DEF AllTwins
  <1>2. CASE Reload
    BY <1>2, ReloadedTwin DEF Reload, TypeOK, AllTwins
  <1>3. ASSUME NEW r \in Peer, Animate(r)
        PROVE  AllTwins'
    <2>1. PICK ui : session' = [session EXCEPT ![r] = [session[r] EXCEPT !.ui = ui]]
      BY <1>3 DEF Animate, TypeOK
    <2>2. ASSUME NEW p \in Peer
          PROVE  session'[p].world = session[p].world /\ session'[p].file = session[p].file
                 /\ session'[p].ending = session[p].ending
      BY <2>1 DEF TypeOK, Session
    <2> QED BY <2>2 DEF AllTwins, Twin
  <1>4. CASE UNCHANGED vars
    BY <1>4 DEF vars, AllTwins
  <1> QED BY <1>1, <1>2, <1>3, <1>4 DEF Next

\* Peers agree on the world through the ending, whatever their own cameras do.
THEOREM Agree == Spec => []EndingsAgree
  <1>1. Init => AllTwins
    BY DEF Init, AllTwins, Twin, Alike, SameObject
  <1>2. TypeOK /\ AllSound /\ AllTwins /\ [Next]_vars => AllTwins'
    BY StepTwin
  <1>3. TypeOK /\ AllTwins => EndingsAgree
    <2> SUFFICES ASSUME TypeOK, AllTwins, NEW p \in Peer, NEW q \in Peer,
                        ~session[p].world.orphan, ~session[q].world.orphan
                 PROVE  session[p].world = session[q].world
      BY DEF EndingsAgree
    <2>1. session[p].world \in World /\ session[q].world \in World
      BY DEF TypeOK, Session
    <2>2. Alike(session[p].world, session[q].world)
      BY DEF AllTwins, Twin
    <2> QED BY <2>1, <2>2 DEF World, Alike
  <1> QED BY <1>1, <1>2, <1>3, Invariant, PTL DEF Spec

-----------------------------------------------------------------------------
(* The shared possession. *)

ViewIsOwned ==
  \A p \in Controller : ReturnView(camera[p]) \in Creature => owned[p] = ReturnView(camera[p])

OwnsPossessed ==
  phase = "between" => \A p \in Controller : owned[p] \in {None, world.possessed}

OriginIsCaster == \A t \in Tag : ~Free(t) => origin[t] = caster[t]

Inv ==
  /\ PTypeOK
  /\ ViewIsOwned
  /\ OwnsPossessed
  /\ OriginIsCaster
  /\ OneAtATime
  /\ CasterPresents

-----------------------------------------------------------------------------
(* The camera *)

\* What the assumption says of the marks and the views.
LEMMA Marks ==
  /\ Keeper \in View /\ Creature \subseteq View
  /\ Path \notin View /\ None \notin View /\ None # Path
  /\ Keeper \notin Creature /\ None \notin Creature
  /\ None \notin Controller /\ Anyone \notin Controller /\ None # Anyone
BY DistinctAssumption DEF View, Keeper, Path, Anyone

\* The part of PTypeOK about one camera.
CameraSettled(c) == c \in Camera /\ (c.saved = None <=> c.mode # Path /\ c.deferred = None)

\* A camera always has a view to return to.
LEMMA ReturnViewType ==
  ASSUME NEW c, CameraSettled(c)
  PROVE  ReturnView(c) \in View
BY Marks DEF CameraSettled, Camera, ReturnView

\* A camera that is asked for a view shows it now or when its path is over.
LEMMA ShownView ==
  ASSUME NEW c, CameraSettled(c), NEW v \in View
  PROVE  CameraSettled(Shown(c, v)) /\ ReturnView(Shown(c, v)) = v
<1>1. v # None /\ v # Path
  BY Marks
<1>2. CASE c.mode = Path
  <2>1. Shown(c, v) = [c EXCEPT !.deferred = v]
    BY <1>2 DEF Shown
  <2>2. c.saved # None
    BY <1>2 DEF CameraSettled
  <2> QED
    BY <1>1, <1>2, <2>1, <2>2 DEF CameraSettled, Camera, ReturnView
<1>3. CASE c.mode # Path
  <2>1. Shown(c, v) = [c EXCEPT !.mode = v]
    BY <1>3 DEF Shown
  <2> QED
    BY <1>1, <1>3, <2>1 DEF CameraSettled, Camera, ReturnView
<1> QED
  BY <1>2, <1>3

\* The start and the end of a path leave what a camera returns to as it is.
LEMMA ReturnedView ==
  ASSUME NEW c, CameraSettled(c)
  PROVE  CameraSettled(Returned(c)) /\ ReturnView(Returned(c)) = ReturnView(c)
<1> DEFINE v == ReturnView(c)
           d == [mode |-> v, saved |-> None, deferred |-> None]
<1>1. v \in View /\ v # Path
  BY ReturnViewType, Marks
<1>2. Returned(c) = d
  BY DEF Returned
<1> HIDE DEF v
<1>3. CameraSettled(d) /\ ReturnView(d) = v
  BY <1>1 DEF CameraSettled, Camera, ReturnView
<1> QED
  BY <1>2, <1>3 DEF v

LEMMA PathView ==
  ASSUME NEW c, CameraSettled(c), c.mode # Path
  PROVE  LET d == [mode |-> Path, saved |-> c.mode, deferred |-> None]
         IN CameraSettled(d) /\ ReturnView(d) = ReturnView(c)
<1>1. c.mode \in View /\ c.mode # None
  BY Marks DEF CameraSettled, Camera
<1> QED
  BY <1>1 DEF CameraSettled, Camera, ReturnView

-----------------------------------------------------------------------------
(* PossessionTypes *)

LEMMA TypeInit ==
  ASSUME PInit
  PROVE  PTypeOK
<1>1. Nobody \in [Tag -> Controller \cup {None}] /\ Nobody \in [Tag -> Creature \cup {None}]
  BY DEF Nobody
<1>2. world \in PossessionWorld /\ file \in PossessionWorld
  BY <1>1 DEF PInit, PossessionWorld
<1>3. \A p \in Controller : CameraSettled(camera[p])
  BY Marks DEF PInit, CameraSettled, Camera
<1>4. camera \in [Controller -> Camera]
  BY Marks DEF PInit, Camera
<1>5. /\ origin \in [Tag -> Controller \cup {None}] /\ caster \in [Tag -> Controller \cup {None}]
      /\ owned \in [Controller -> Creature \cup {None}]
      /\ phase \in {"tick", "between", "reloaded"}
      /\ by \in Controller \cup {None, Anyone} /\ rushed \in BOOLEAN
  BY <1>1 DEF PInit
<1>6. casts \in 0 .. MaxCasts
  BY DistinctAssumption DEF PInit
<1> QED
  BY <1>2, <1>3, <1>4, <1>5, <1>6 DEF PTypeOK, CameraSettled

\* Writing one part of a world leaves the other.
LEMMA WorldType ==
  ASSUME NEW w \in PossessionWorld, NEW t \in Tag, NEW c \in Creature \cup {None}
  PROVE  /\ [w EXCEPT !.shots[t] = c] \in PossessionWorld
         /\ [w EXCEPT !.shots[t] = c].possessed = w.possessed
         /\ [w EXCEPT !.shots[t] = c].shots = [w.shots EXCEPT ![t] = c]
BY DEF PossessionWorld

LEMMA PossessedType ==
  ASSUME NEW w \in PossessionWorld, NEW c \in Creature \cup {None}
  PROVE  /\ [w EXCEPT !.possessed = c] \in PossessionWorld
         /\ [w EXCEPT !.possessed = c].possessed = c
         /\ [w EXCEPT !.possessed = c].shots = w.shots
BY DEF PossessionWorld

\* Cameras
Cameras(cs) == cs \in [Controller -> Camera] /\ \A p \in Controller : CameraSettled(cs[p])

LEMMA CameraTypes == PTypeOK => Cameras(camera)
BY DEF PTypeOK, Cameras, CameraSettled

LEMMA TypeStep ==
  ASSUME PTypeOK, [PNext]_pvars
  PROVE  PTypeOK'
<1> USE DEF InTick, history
<1>0. Cameras(camera)
  BY CameraTypes
<1>a. ASSUME Cameras(camera')
      PROVE  /\ camera' \in [Controller -> Camera]
             /\ \A p \in Controller : LET c == camera'[p]
                                IN c.saved = None <=> c.mode # Path /\ c.deferred = None
  BY <1>a DEF Cameras, CameraSettled
<1>1. ASSUME NEW t \in Tag, NEW o \in Controller \cup {None}, NEW c \in Creature, Cast(o, c, t)
      PROVE  PTypeOK'
  <2>1. world' \in PossessionWorld
    BY <1>1, WorldType DEF Cast, PTypeOK
  <2>2. casts' \in 0 .. MaxCasts
    BY <1>1, DistinctAssumption DEF Cast, PTypeOK
  <2> QED
    BY <1>1, <2>1, <2>2 DEF Cast, Allocated, PTypeOK
<1>2. ASSUME NEW t \in Tag, CastOther(t) PROVE PTypeOK'
  BY <1>2 DEF CastOther, Allocated, PTypeOK
<1>3. ASSUME NEW t \in Tag, Lose(t) PROVE PTypeOK'
  <2>1. world' \in PossessionWorld
    BY <1>3, WorldType DEF Lose, PTypeOK
  <2> QED
    BY <1>3, <2>1 DEF Lose, PTypeOK
<1>4. ASSUME NEW t \in Tag, NEW accepted \in BOOLEAN, Arrive(t, accepted) PROVE PTypeOK'
  <2> DEFINE c == world.shots[t]
  <2>1. c \in Creature
    BY <1>4 DEF Arrive, Free, PTypeOK, PossessionWorld
  <2>2. c \in View
    BY <2>1, Marks
  <2>3. world' \in PossessionWorld
    BY <1>4, <2>1 DEF Arrive, PTypeOK, PossessionWorld
  <2>4. Cameras(camera')
    <3>1. \A p \in Controller : camera'[p] = camera[p] \/ camera'[p] = Shown(camera[p], c)
      BY <1>4 DEF Arrive
    <3>2. \A p \in Controller : CameraSettled(camera'[p])
      BY <1>0, <2>2, <3>1, ShownView DEF Cameras
    <3>3. camera' = [p \in Controller |-> camera'[p]]
      BY <1>4 DEF Arrive
    <3> QED
      BY <3>2, <3>3 DEF Cameras, CameraSettled
  <2>5. owned' \in [Controller -> Creature \cup {None}]
    BY <1>4, <2>1 DEF Arrive, PTypeOK
  <2>6. /\ origin' \in [Tag -> Controller \cup {None}] /\ caster' \in [Tag -> Controller \cup {None}]
        /\ by' \in Controller \cup {None, Anyone}
    BY <1>4 DEF Arrive, PTypeOK
  <2>7. rushed' \in BOOLEAN
    BY <1>4 DEF Arrive, PTypeOK
  <2>8. /\ file' \in PossessionWorld /\ casts' \in 0 .. MaxCasts
        /\ phase' \in {"tick", "between", "reloaded"}
    BY <1>4 DEF Arrive, PTypeOK
  <2> QED
    BY <1>a, <2>3, <2>4, <2>5, <2>6, <2>7, <2>8 DEF PTypeOK
<1>5. ASSUME NEW locally \in BOOLEAN, Leave(locally) PROVE PTypeOK'
  <2>1. world' \in PossessionWorld
    BY <1>5, PossessedType DEF Leave, PTypeOK
  <2>2. Cameras(camera')
    <3>1. \A p \in Controller : camera'[p] = camera[p] \/ camera'[p] = Shown(camera[p], Keeper)
      BY <1>5 DEF Leave
    <3>2. \A p \in Controller : CameraSettled(camera'[p])
      BY <1>0, <3>1, Marks, ShownView DEF Cameras
    <3>3. camera' = [p \in Controller |-> camera'[p]]
      BY <1>5 DEF Leave
    <3> QED
      BY <3>2, <3>3 DEF Cameras, CameraSettled
  <2>3. /\ file' \in PossessionWorld
        /\ origin' \in [Tag -> Controller \cup {None}] /\ caster' \in [Tag -> Controller \cup {None}]
        /\ owned' \in [Controller -> Creature \cup {None}]
    BY <1>5 DEF Leave, PTypeOK
  <2>4. /\ phase' \in {"tick", "between", "reloaded"}
        /\ by' \in Controller \cup {None, Anyone} /\ rushed' \in BOOLEAN /\ casts' \in 0 .. MaxCasts
    BY <1>5 DEF Leave, PTypeOK
  <2> QED
    BY <1>a, <2>1, <2>2, <2>3, <2>4 DEF PTypeOK
<1>6. CASE PlayPath
  <2>1. \A p \in Controller : camera'[p] = [mode |-> Path, saved |-> camera[p].mode, deferred |-> None]
    BY <1>6 DEF PlayPath
  <2>2. \A p \in Controller : CameraSettled(camera'[p])
    BY <1>0, <1>6, <2>1, PathView DEF Cameras, PlayPath
  <2>3. camera' = [p \in Controller |-> camera'[p]]
    BY <1>6 DEF PlayPath
  <2>4. Cameras(camera')
    BY <2>2, <2>3 DEF Cameras, CameraSettled
  <2> QED
    BY <1>6, <1>a, <2>4 DEF PlayPath, PTypeOK
<1>7. CASE EndTick
  <2>1. Cameras(camera')
    <3>1. \A p \in Controller : camera'[p] = camera[p] \/ camera'[p] = Shown(camera[p], Keeper)
      BY <1>7 DEF EndTick
    <3>2. \A p \in Controller : CameraSettled(camera'[p])
      BY <1>0, <3>1, Marks, ShownView DEF Cameras
    <3>3. camera' = [p \in Controller |-> camera'[p]]
      BY <1>7 DEF EndTick
    <3> QED
      BY <3>2, <3>3 DEF Cameras, CameraSettled
  <2>2. owned' \in [Controller -> Creature \cup {None}]
    BY <1>7 DEF EndTick, PTypeOK
  <2> QED
    BY <1>7, <1>a, <2>1, <2>2 DEF EndTick, PTypeOK
<1>8. ASSUME NEW p \in Controller, FinishPath(p) PROVE PTypeOK'
  <2>1. CameraSettled(Returned(camera[p]))
    BY <1>0, ReturnedView DEF Cameras
  <2>2. camera' = [camera EXCEPT ![p] = Returned(camera[p])]
    BY <1>8 DEF FinishPath
  <2>3. Cameras(camera')
    BY <1>0, <2>1, <2>2 DEF Cameras, CameraSettled
  <2> QED
    BY <1>8, <1>a, <2>3 DEF FinishPath, PTypeOK
<1>9. CASE Save
  BY <1>9 DEF Save, PTypeOK
<1>10. CASE AfterWorldReload
  <2>1. Nobody \in [Tag -> Controller \cup {None}]
    BY DEF Nobody
  <2> QED
    BY <1>10, <2>1 DEF AfterWorldReload, Forgotten, PTypeOK
<1>11. CASE UNCHANGED pvars
  BY <1>11 DEF pvars, PTypeOK
<1> QED
  BY <1>1, <1>2, <1>3, <1>4, <1>5, <1>6, <1>7, <1>8, <1>9, <1>10, <1>11 DEF PNext

\* The state keeps its types: no step leaves a camera without a view to return to.
THEOREM PossessionTypes == PSpec => []PTypeOK
<1>1. PInit => PTypeOK
  BY TypeInit
<1>2. PTypeOK /\ [PNext]_pvars => PTypeOK'
  BY TypeStep
<1> QED
  BY <1>1, <1>2, PTL DEF PSpec

-----------------------------------------------------------------------------
(* Steps that change nothing of what processes present *)

SameViews ==
  /\ world'.possessed = world.possessed /\ owned' = owned
  /\ \A p \in Controller : ReturnView(camera'[p]) = ReturnView(camera[p])
  /\ by' = by /\ rushed' = rushed
  /\ phase' = "between" => phase = "between"

LEMMA SameViewsKeeps ==
  ASSUME Inv, SameViews
  PROVE  ViewIsOwned' /\ OwnsPossessed' /\ OneAtATime' /\ CasterPresents'
<1>1. \A p \in Controller : Presents(p)' <=> Presents(p)
  BY DEF SameViews, Presents
<1>2. ViewIsOwned'
  BY DEF Inv, ViewIsOwned, SameViews
<1>3. OwnsPossessed'
  BY DEF Inv, OwnsPossessed, SameViews
<1>4. OneAtATime'
  BY <1>1 DEF Inv, OneAtATime, SameViews
<1>5. CasterPresents'
  BY <1>1 DEF Inv, CasterPresents, SameViews
<1> QED
  BY <1>2, <1>3, <1>4, <1>5

\* A cast, a shot that is lost, a path that starts or ends and a save are such steps.
LEMMA QuietSteps ==
  ASSUME PTypeOK,
         \/ \E t \in Tag : \/ \E o \in Controller \cup {None}, c \in Creature : Cast(o, c, t)
                           \/ CastOther(t)
                           \/ Lose(t)
         \/ PlayPath
         \/ \E p \in Controller : FinishPath(p)
         \/ Save
         \/ UNCHANGED pvars
  PROVE  SameViews
<1> USE DEF InTick, history
<1>0. Cameras(camera)
  BY CameraTypes
<1>1. ASSUME NEW t \in Tag, NEW o \in Controller \cup {None}, NEW c \in Creature, Cast(o, c, t)
      PROVE  SameViews
  BY <1>1, WorldType DEF Cast, SameViews, PTypeOK
<1>2. ASSUME NEW t \in Tag, CastOther(t) PROVE SameViews
  BY <1>2 DEF CastOther, SameViews
<1>3. ASSUME NEW t \in Tag, Lose(t) PROVE SameViews
  BY <1>3, WorldType DEF Lose, SameViews, PTypeOK
<1>4. CASE PlayPath
  <2>1. \A p \in Controller : ReturnView(camera'[p]) = ReturnView(camera[p])
    BY <1>0, <1>4, PathView DEF PlayPath, Cameras
  <2> QED
    BY <1>4, <2>1 DEF PlayPath, SameViews
<1>5. ASSUME NEW p \in Controller, FinishPath(p) PROVE SameViews
  <2>1. /\ ReturnView(Returned(camera[p])) = ReturnView(camera[p])
        /\ camera' = [camera EXCEPT ![p] = Returned(camera[p])]
        /\ camera \in [Controller -> Camera]
    BY <1>0, <1>5, ReturnedView DEF FinishPath, Cameras
  <2>2. \A q \in Controller : ReturnView(camera'[q]) = ReturnView(camera[q])
    BY <2>1
  <2> QED
    BY <1>5, <2>2 DEF FinishPath, SameViews
<1>6. CASE Save
  BY <1>6 DEF Save, SameViews
<1>7. CASE UNCHANGED pvars
  BY <1>7 DEF pvars, SameViews
<1> QED
  BY <1>1, <1>2, <1>3, <1>4, <1>5, <1>6, <1>7

-----------------------------------------------------------------------------
(* Steps that do *)

\* The arrival of a shot, accepted or not.
LEMMA ArriveKeeps ==
  ASSUME Inv, NEW t \in Tag, NEW accepted \in BOOLEAN, Arrive(t, accepted)
  PROVE  ViewIsOwned' /\ OwnsPossessed' /\ OneAtATime' /\ CasterPresents'
<1>0. Cameras(camera)
  BY CameraTypes DEF Inv
<1>o. PICK o : o = origin[t]
  OBVIOUS
<1>c. PICK c : c = world.shots[t]
  OBVIOUS
<1>1. c \in Creature /\ c \in View /\ c # None /\ o \in Controller \cup {None}
  BY <1>o, <1>c, Marks DEF Inv, Arrive, Free, PTypeOK, PossessionWorld
<1>2. o = caster[t]
  BY <1>o DEF Inv, OriginIsCaster, Arrive
<1>3. phase' = "tick"
  BY DEF Arrive, InTick
<1>4. OwnsPossessed'
  BY <1>3 DEF OwnsPossessed
<1>5. CASE ~accepted
  <2>1. SameViews
    BY <1>3, <1>5 DEF Arrive, SameViews, Inv, PTypeOK
  <2> QED
    BY <2>1, SameViewsKeeps
<1>6. CASE accepted
  <2>1. /\ world'.possessed = c /\ world.possessed = None
        /\ by' = o
        /\ rushed' = \E p \in Controller \ {o} : owned[p] = c /\ ReturnView(camera[p]) = c
    BY <1>o, <1>c, <1>2, <1>6 DEF Arrive
  <2>2. \A p \in Controller \ {o} : owned'[p] = owned[p] /\ camera'[p] = camera[p]
    BY <1>o, <1>6 DEF Arrive, Enters
  <2>3. o \in Controller => owned'[o] = c /\ ReturnView(camera'[o]) = c
    <3>1. o \in Controller => owned'[o] = c /\ camera'[o] = Shown(camera[o], c)
      BY <1>o, <1>c, <1>6 DEF Arrive, Enters, Inv, PTypeOK
    <3> QED
      BY <1>0, <1>1, <3>1, ShownView DEF Cameras
  <2>4. ViewIsOwned'
    <3>1. \A p \in Controller \ {o} : ReturnView(camera'[p]) \in Creature => owned'[p] = ReturnView(camera'[p])
      BY <2>2 DEF Inv, ViewIsOwned
    <3> QED
      BY <2>3, <3>1 DEF ViewIsOwned
  <2>5. \A p \in Controller \ {o} : Presents(p)' => rushed'
    BY <2>1, <2>2 DEF Presents
  <2>6. o \in Controller => Presents(o)'
    BY <1>1, <2>1, <2>3 DEF Presents
  <2>7. OneAtATime'
    BY <2>5 DEF OneAtATime
  <2>8. CasterPresents'
    BY <2>1, <2>5, <2>6 DEF CasterPresents
  <2> QED
    BY <1>4, <2>4, <2>7, <2>8
<1> QED
  BY <1>5, <1>6

\* The end of a possession.
LEMMA LeaveKeeps ==
  ASSUME Inv, NEW locally \in BOOLEAN, Leave(locally)
  PROVE  ViewIsOwned' /\ OwnsPossessed' /\ OneAtATime' /\ CasterPresents'
<1>0. Cameras(camera)
  BY CameraTypes DEF Inv
<1>1. world'.possessed = None /\ phase' = "tick" /\ by' = None /\ owned' = owned
  BY PossessedType DEF Leave, InTick, Inv, PTypeOK
<1>2. \A p \in Controller : camera'[p] = camera[p] \/ camera'[p] = Shown(camera[p], Keeper)
  BY DEF Leave
<1>3. \A p \in Controller : ReturnView(camera'[p]) \in {ReturnView(camera[p]), Keeper}
  BY <1>0, <1>2, Marks, ShownView DEF Cameras
<1>4. \A p \in Controller : ~Presents(p)'
  BY <1>1 DEF Presents
<1>5. ViewIsOwned'
  BY <1>1, <1>3, Marks DEF Inv, ViewIsOwned
<1>6. OwnsPossessed' /\ OneAtATime'
  BY <1>1, <1>4 DEF OwnsPossessed, OneAtATime
<1>7. CasterPresents'
  BY <1>1, <1>4, Marks DEF CasterPresents
<1> QED
  BY <1>5, <1>6, <1>7

\* Processes observe what the tick left.
LEMMA EndTickKeeps ==
  ASSUME Inv, EndTick
  PROVE  ViewIsOwned' /\ OwnsPossessed' /\ OneAtATime' /\ CasterPresents'
<1>0. Cameras(camera)
  BY CameraTypes DEF Inv
<1>1. /\ world' = world /\ by' = by /\ rushed' = rushed
  BY DEF EndTick, history
<1>2. ASSUME NEW p \in Controller, Ended(p)
      PROVE  owned'[p] = None /\ ReturnView(camera'[p]) \notin Creature
  <2>1. owned'[p] = None
    BY <1>2 DEF EndTick
  <2>2. camera'[p] = IF Leaves(camera[p]) THEN Shown(camera[p], Keeper) ELSE camera[p]
    BY <1>2 DEF EndTick
  <2>3. ReturnView(Shown(camera[p], Keeper)) = Keeper
    BY <1>0, Marks, ShownView DEF Cameras
  <2> QED
    BY <2>1, <2>2, <2>3, Marks DEF Leaves
<1>3. ASSUME NEW p \in Controller, ~Ended(p)
      PROVE  owned'[p] = owned[p] /\ camera'[p] = camera[p]
  BY <1>3 DEF EndTick
<1>4. \A p \in Controller : Presents(p)' <=> Presents(p)
  <2>1. ASSUME NEW p \in Controller, Ended(p) PROVE Presents(p)' <=> Presents(p)
    BY <1>2, <2>1 DEF Presents, Ended
  <2>2. ASSUME NEW p \in Controller, ~Ended(p) PROVE Presents(p)' <=> Presents(p)
    BY <1>1, <1>3, <2>2 DEF Presents
  <2> QED
    BY <2>1, <2>2
<1>5. ViewIsOwned'
  BY <1>2, <1>3 DEF Inv, ViewIsOwned
<1>6. OwnsPossessed'
  BY <1>1, <1>2, <1>3 DEF OwnsPossessed, Ended
<1>7. OneAtATime' /\ CasterPresents'
  BY <1>1, <1>4 DEF Inv, OneAtATime, CasterPresents
<1> QED
  BY <1>5, <1>6, <1>7

\* The reloaded world: whoever has its creature had it, and presented it, before.
LEMMA ReloadKeeps ==
  ASSUME Inv, AfterWorldReload
  PROVE  ViewIsOwned' /\ OwnsPossessed' /\ OneAtATime' /\ CasterPresents'
<1>1. /\ owned' = owned /\ camera' = camera /\ world' = file /\ rushed' = rushed
      /\ phase = "between" /\ phase' = "reloaded"
      /\ by' = IF file.possessed = None THEN None ELSE Anyone
  BY DEF AfterWorldReload
<1>2. \A p \in Controller : Presents(p)' => Presents(p)
  BY <1>1 DEF Presents, Inv, OwnsPossessed
<1>3. ViewIsOwned' /\ OwnsPossessed'
  BY <1>1 DEF Inv, ViewIsOwned, OwnsPossessed
<1>4. OneAtATime'
  BY <1>1, <1>2 DEF Inv, OneAtATime
<1>5. CasterPresents'
  <2>1. file.possessed = None => \A p \in Controller : ~Presents(p)'
    BY <1>1 DEF Presents
  <2> QED
    BY <1>1, <2>1, Marks DEF CasterPresents
<1> QED
  BY <1>3, <1>4, <1>5

\* A shot that flies has the origin it was cast with: an allocation takes only a tag that
\* no such shot has, and a reload forgets all.
LEMMA OriginStep ==
  ASSUME Inv, [PNext]_pvars
  PROVE  OriginIsCaster'
<1> USE DEF InTick, history, Free
<1>0. /\ origin \in [Tag -> Controller \cup {None}] /\ caster \in [Tag -> Controller \cup {None}]
      /\ world \in PossessionWorld /\ OriginIsCaster
  BY DEF Inv, PTypeOK
<1>1. ASSUME NEW t \in Tag, NEW o \in Controller \cup {None}, NEW c \in Creature, Cast(o, c, t)
      PROVE  OriginIsCaster'
  <2>1. world'.shots = [world.shots EXCEPT ![t] = c] /\ world.shots \in [Tag -> Creature \cup {None}]
    BY <1>0, <1>1, WorldType DEF Cast, PossessionWorld
  <2> QED
    BY <1>0, <1>1, <2>1 DEF Cast, Allocated, OriginIsCaster
<1>2. ASSUME NEW t \in Tag, CastOther(t) PROVE OriginIsCaster'
  BY <1>0, <1>2 DEF CastOther, Allocated, OriginIsCaster
<1>3. ASSUME NEW t \in Tag, Lose(t) PROVE OriginIsCaster'
  <2>1. world'.shots = [world.shots EXCEPT ![t] = None] /\ world.shots \in [Tag -> Creature \cup {None}]
    BY <1>0, <1>3, WorldType DEF Lose, PossessionWorld
  <2> QED
    BY <1>0, <1>3, <2>1 DEF Lose, OriginIsCaster
<1>4. ASSUME NEW t \in Tag, NEW accepted \in BOOLEAN, Arrive(t, accepted) PROVE OriginIsCaster'
  <2>1. world'.shots = [world.shots EXCEPT ![t] = None] /\ world.shots \in [Tag -> Creature \cup {None}]
    BY <1>0, <1>4 DEF Arrive, PossessionWorld
  <2> QED
    BY <1>0, <1>4, <2>1 DEF Arrive, OriginIsCaster
<1>5. ASSUME NEW locally \in BOOLEAN, Leave(locally) PROVE OriginIsCaster'
  BY <1>0, <1>5, PossessedType DEF Leave, OriginIsCaster
<1>6. CASE PlayPath \/ EndTick \/ Save \/ UNCHANGED pvars
  BY <1>0, <1>6 DEF PlayPath, EndTick, Save, pvars, OriginIsCaster
<1>7. ASSUME NEW p \in Controller, FinishPath(p) PROVE OriginIsCaster'
  BY <1>0, <1>7 DEF FinishPath, OriginIsCaster
<1>8. CASE AfterWorldReload
  BY <1>8 DEF AfterWorldReload, Forgotten, OriginIsCaster
<1> QED
  BY <1>1, <1>2, <1>3, <1>4, <1>5, <1>6, <1>7, <1>8 DEF PNext

-----------------------------------------------------------------------------
(* The invariant, and what it says *)

LEMMA InvInit ==
  ASSUME PInit
  PROVE  Inv
<1>1. PTypeOK
  BY TypeInit
<1>2. \A p \in Controller : owned[p] = None /\ ReturnView(camera[p]) = Keeper
  BY Marks DEF PInit, ReturnView
<1>3. \A p \in Controller : ~Presents(p)
  BY <1>2 DEF Presents
<1>4. ViewIsOwned /\ OwnsPossessed
  BY <1>2, Marks DEF ViewIsOwned, OwnsPossessed
<1>5. OneAtATime /\ CasterPresents
  BY <1>3, Marks DEF PInit, OneAtATime, CasterPresents
<1>6. OriginIsCaster
  BY DEF PInit, OriginIsCaster
<1> QED
  BY <1>1, <1>4, <1>5, <1>6 DEF Inv

LEMMA InvStep ==
  ASSUME Inv, [PNext]_pvars
  PROVE  Inv'
<1>1. PTypeOK'
  BY TypeStep DEF Inv
<1>2. OriginIsCaster'
  BY OriginStep
<1>3. ViewIsOwned' /\ OwnsPossessed' /\ OneAtATime' /\ CasterPresents'
  <2>1. ASSUME SameViews PROVE ViewIsOwned' /\ OwnsPossessed' /\ OneAtATime' /\ CasterPresents'
    BY <2>1, SameViewsKeeps
  <2>2. PTypeOK
    BY DEF Inv
  <2> QED
    BY <2>1, <2>2, QuietSteps, ArriveKeeps, LeaveKeeps, EndTickKeeps, ReloadKeeps DEF PNext
<1> QED
  BY <1>1, <1>2, <1>3 DEF Inv

\* "Only one Controller can possess a creature at a time": however many Controllers cast
\* shots, whatever tags these share with other shots, and whatever is reloaded.
THEOREM One == PSpec => []OneAtATime
<1>1. PInit => Inv
  BY InvInit
<1>2. Inv /\ [PNext]_pvars => Inv'
  BY InvStep
<1>3. Inv => OneAtATime
  BY DEF Inv
<1> QED
  BY <1>1, <1>2, <1>3, PTL DEF PSpec

\* After a tick no camera shows, or will return to, a creature but the possessed one, and
\* that only in the process that has it.
THEOREM Returns == PSpec => []ReturnsToPossessed
<1>1. PInit => Inv
  BY InvInit
<1>2. Inv /\ [PNext]_pvars => Inv'
  BY InvStep
<1>3. Inv => ReturnsToPossessed
  BY Marks DEF Inv, ViewIsOwned, OwnsPossessed, ReturnsToPossessed
<1> QED
  BY <1>1, <1>2, <1>3, PTL DEF PSpec

\* The one who presents the possession is the one whose shot brought it.
THEOREM ByCaster == PSpec => []CasterPresents
<1>1. PInit => Inv
  BY InvInit
<1>2. Inv /\ [PNext]_pvars => Inv'
  BY InvStep
<1>3. Inv => CasterPresents
  BY DEF Inv
<1> QED
  BY <1>1, <1>2, <1>3, PTL DEF PSpec
=============================================================================
