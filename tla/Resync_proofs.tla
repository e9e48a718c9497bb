----------------------------- MODULE Resync_proofs -----------------------------
(***************************************************************************)
(* Every file that can be reloaded has the checkpoint of its moment, on    *)
(* every peer and whatever saves fail, so a reload never aborts and puts   *)
(* the waits of scripted cameras back as they were.                        *)
(*                                                                         *)
(* The invariant is Good, of one peer and what history says of its files:  *)
(* besides the property it says that the waits, now and in each file, are  *)
(* Held, without which a reload could abort.  Each part of a tick and of a *)
(* resync keeps it.                                                        *)
(*                                                                         *)
(* Peers agree, and reload worlds from before the fault, since each that   *)
(* lost no save is where the packets alone put it.  The invariant there is *)
(* CourseInv: for every place of the stream there is a Course, each from   *)
(* the last by the packet between (Runs), that the peers follow (Follows)  *)
(* and that the reports of the stream are about (Told).                    *)
(***************************************************************************)
EXTENDS Resync, TLAPS

-----------------------------------------------------------------------------
(* The waits of scripted cameras: durations are rounded up to whole ticks and never to *)
(* more, and every operator keeps the waits what they are. *)

\* Milliseconds are "quantized to the first eligible simulation tick": DurationTicks is
\* the least number of ticks that lasts as long.
THEOREM DurationIsLeast ==
  ASSUME NEW ms \in Nat
  PROVE  /\ DurationTicks(ms) \in Nat
         /\ DurationTicks(ms) * 1000 >= ms * TicksPerSecond
         /\ \A n \in Nat : n * 1000 >= ms * TicksPerSecond => n >= DurationTicks(ms)
<1> DEFINE q == ms * TicksPerSecond
<1>1. q \in Nat BY TicksAssumption
<1>2. DurationTicks(ms) = (q + 999) \div 1000 BY DEF DurationTicks
<1> HIDE DEF q
<1>3. /\ (q + 999) \div 1000 \in Nat
      /\ ((q + 999) \div 1000) * 1000 >= q
      /\ \A n \in Nat : n * 1000 >= q => n >= (q + 999) \div 1000
  BY <1>1
<1> QED BY <1>2, <1>3 DEF q

\* A path takes at least one tick, so it never ends in the tick in which it starts, and
\* the least number of ticks that lasts for its samples, 30 of them a second from the
\* middle of the first.
THEOREM PathIsLeast ==
  ASSUME NEW points \in Nat \ {0, 1}
  PROVE  /\ PathTicks(points) \in Nat \ {0}
         /\ PathTicks(points) * 60 >= HalfSamples(points) * TicksPerSecond
         /\ \A n \in Nat : n * 60 >= HalfSamples(points) * TicksPerSecond => n >= PathTicks(points)
<1> DEFINE q == HalfSamples(points) * TicksPerSecond
<1>1. HalfSamples(points) \in Nat \ {0} BY DEF HalfSamples
<1>2. q \in Nat \ {0} BY <1>1, TicksAssumption
<1>3. PathTicks(points) = (q + 59) \div 60 BY DEF PathTicks
<1> HIDE DEF q
<1>4. /\ (q + 59) \div 60 \in Nat \ {0}
      /\ ((q + 59) \div 60) * 60 >= q
      /\ \A n \in Nat : n * 60 >= q => n >= (q + 59) \div 60
  BY <1>2
<1> QED BY <1>3, <1>4 DEF q

-----------------------------------------------------------------------------
\* What the waits of a peer always are: a path under way has a camera it belongs to.
Held(w) == w \in Waits /\ (w.path.active => w.path.tracked)

LEMMA NoWaitsHeld == Held(NoWaits)
BY DEF Held, NoWaits, Waits, NoMotion, NoPath, Motion, Path

LEMMA AdvancedType ==
  ASSUME NEW m \in Motion, NEW tick \in Nat, NEW pending \in BOOLEAN
  PROVE  Advanced(m, tick, pending) \in Motion
<1> DEFINE n == IF m.seen /\ tick < m.last THEN NoMotion ELSE m
           k == IF n.seen /\ ~n.paused THEN tick - n.last ELSE 0
<1>1. n \in Motion BY DEF NoMotion, Motion
<1>2. n.seen => n.last <= tick BY DEF NoMotion, Motion
<1>3. k \in Nat BY <1>1, <1>2 DEF Motion
<1>4. Less(n.move, k) \in Nat /\ Less(n.turn, k) \in Nat
  BY <1>1, <1>3 DEF Less, Motion
<1>5. Advanced(m, tick, pending) =
        [move |-> Less(n.move, k), turn |-> Less(n.turn, k), last |-> tick,
         seen |-> TRUE, paused |-> pending]
  BY DEF Advanced
<1> QED BY <1>4, <1>5 DEF Motion

LEMMA MovedHeld ==
  ASSUME NEW w, Held(w), NEW tick \in Nat, NEW ms \in Nat
  PROVE  Held(Moved(w, tick, ms))
<1> DEFINE m == Advanced(w.motion, tick, w.path.active)
           d == DurationTicks(500)
           e == IF ms = 0 THEN m.turn ELSE DurationTicks(ms)
           n == [m EXCEPT !.move = d, !.turn = e]
<1>1. w \in Waits /\ (w.path.active => w.path.tracked) BY DEF Held
<1>2. m \in Motion BY <1>1, AdvancedType DEF Waits, Path
<1>3. d \in Nat /\ e \in Nat BY <1>2, DurationIsLeast DEF Motion
<1>4. Moved(w, tick, ms) = [w EXCEPT !.motion = n] BY DEF Moved
<1> HIDE DEF m, d, e
<1>5. n \in Motion BY <1>2, <1>3 DEF Motion
<1> HIDE DEF n
<1>6. [w EXCEPT !.motion = n] \in Waits /\ [w EXCEPT !.motion = n].path = w.path
  BY <1>1, <1>5 DEF Waits
<1> QED BY <1>1, <1>4, <1>6 DEF Held

\* A path and the motion that is counted before and after it changes.
LEMMA AroundHeld ==
  ASSUME NEW w, Held(w), NEW tick \in Nat, NEW path \in Path, path.active => path.tracked
  PROVE  Held([path |-> path,
               motion |-> Advanced(Advanced(w.motion, tick, w.path.active), tick, path.active)])
<1> DEFINE m == Advanced(w.motion, tick, w.path.active)
           n == Advanced(m, tick, path.active)
<1>1. w.motion \in Motion /\ w.path.active \in BOOLEAN /\ path.active \in BOOLEAN
  BY DEF Held, Waits, Path
<1>2. m \in Motion BY <1>1, AdvancedType
<1> HIDE DEF m
<1>3. n \in Motion BY <1>1, <1>2, AdvancedType
<1> HIDE DEF n
<1>4. Held([path |-> path, motion |-> n]) BY <1>3 DEF Held, Waits
<1> QED BY <1>4 DEF m, n

LEMMA LoadedHeld ==
  ASSUME NEW w, Held(w), NEW mode, NEW after, NEW tick \in Nat, NEW points \in Nat \ {0, 1}
  PROVE  Held(Loaded(w, mode, after, tick, points))
<1> DEFINE path == Started(w, mode, after, tick, points)
<1>1. w.path \in Path /\ (w.path.active => w.path.tracked) BY DEF Held, Waits
<1>2. tick + PathTicks(points) \in Nat BY PathIsLeast
<1>3. path \in Path /\ (path.active => path.tracked)
  BY <1>1, <1>2 DEF Started, Path
<1>4. Loaded(w, mode, after, tick, points) =
        [path |-> path,
         motion |-> Advanced(Advanced(w.motion, tick, w.path.active), tick, path.active)]
  BY DEF Loaded
<1> HIDE DEF path
<1> QED BY <1>3, <1>4, AroundHeld

LEMMA BeforeTickHeld ==
  ASSUME NEW w, Held(w), NEW tick \in Nat
  PROVE  Held(BeforeTick(w, tick))
<1> DEFINE path == PathAdvanced(w.path, tick)
<1>1. w.path \in Path /\ (w.path.active => w.path.tracked) BY DEF Held, Waits
<1>2. path \in Path /\ (path.active => path.tracked)
  BY <1>1 DEF PathAdvanced, Path
<1>3. BeforeTick(w, tick) =
        [path |-> path,
         motion |-> Advanced(Advanced(w.motion, tick, w.path.active), tick, path.active)]
  BY DEF BeforeTick
<1> HIDE DEF path
<1> QED BY <1>2, <1>3, AroundHeld

-----------------------------------------------------------------------------
(* The invariant *)

Matches(s, t) ==
  \A f \in Slot : s.files[f] # NoSave =>
    s.points[f] = [tick |-> s.files[f].tick, waits |-> t[f]]

Good(s, t) ==
  /\ s \in Session
  /\ t \in [Slot -> Waits]
  /\ s.state # "aborted"
  /\ Held(s.waits)
  /\ \A f \in Slot : Held(t[f])
  /\ Matches(s, t)

Inv == TypeOK /\ \A p \in Peer : Good(session[p], truth[p])

-----------------------------------------------------------------------------
(* A tick *)

LEMMA CheckedGood ==
  ASSUME NEW s, NEW t, Good(s, t), NEW c
  PROVE  /\ Good(Checked(s, c), t)
         /\ Checked(s, c).waits = s.waits /\ Checked(s, c).slot = s.slot
         /\ SaveDue(Checked(s, c)) <=> SaveDue(s)
<1>1. CASE Checked(s, c) = s BY <1>1
<1>2. CASE Checked(s, c) # s
  <2> DEFINE u == [s EXCEPT !.out = TRUE, !.since = s.world.tick]
  <2>1. Checked(s, c) = u BY <1>2 DEF Checked
  <2>2. s \in Session /\ s.world.tick \in Nat BY DEF Good, Session, World
  <2>3. /\ u \in Session
        /\ u.waits = s.waits /\ u.slot = s.slot /\ u.world = s.world /\ u.due = s.due
        /\ u.files = s.files /\ u.points = s.points /\ u.state = s.state
    BY <2>2 DEF Session
  <2> HIDE DEF u
  <2>4. Good(u, t) BY <2>3 DEF Good, Matches
  <2> QED BY <2>1, <2>3, <2>4 DEF SaveDue
<1> QED BY <1>1, <1>2

\* What history says of the files of a peer after a save.
Remembered(s, t, outcome) ==
  IF SaveDue(s) /\ outcome = "ok" THEN [t EXCEPT ![1 - s.slot] = s.waits] ELSE t

LEMMA SavedGood ==
  ASSUME NEW s, NEW t, Good(s, t), NEW outcome
  PROVE  Good(Saved(s, outcome), Remembered(s, t, outcome))
<1> DEFINE f == 1 - s.slot
           r == [s EXCEPT !.saved = s.world.tick, !.slot = f, !.flip = FALSE, !.final = FALSE,
                          !.due = s.due + SavePeriod]
           point == [tick |-> s.world.tick, waits |-> s.waits]
<1>1. /\ s \in Session /\ f \in Slot /\ s.world \in World /\ s.world.tick \in Nat
      /\ s.waits \in Waits /\ s.due + SavePeriod \in Nat
      /\ point \in Checkpoint
  BY NumbersAssumption DEF Good, Session, World, Slot, Checkpoint
<1> HIDE DEF f, point
<1>2. /\ r \in Session /\ r.files = s.files /\ r.points = s.points
      /\ r.waits = s.waits /\ r.state = s.state
  BY <1>1 DEF Session
<1> HIDE DEF r
<1>3. CASE ~SaveDue(s) BY <1>3 DEF Saved, Remembered
<1>4. CASE SaveDue(s) /\ outcome = "ok"
  <2> DEFINE u == [r EXCEPT !.files[f] = s.world, !.points[f] = point]
             v == [t EXCEPT ![f] = s.waits]
  <2>1. Saved(s, outcome) = u /\ Remembered(s, t, outcome) = v
    BY <1>4 DEF Saved, Remembered, r, f, point
  <2>2. /\ u \in Session /\ u.waits = s.waits /\ u.state = s.state
        /\ u.files = [s.files EXCEPT ![f] = s.world]
        /\ u.points = [s.points EXCEPT ![f] = point]
    BY <1>1, <1>2 DEF Session
  <2> HIDE DEF u
  <2>3. v \in [Slot -> Waits] /\ \A g \in Slot : Held(v[g])
    BY <1>1 DEF Good
  <2>4. Matches(u, v)
    BY <1>1, <2>2 DEF Good, Session, Matches, point
  <2> HIDE DEF v
  <2> QED BY <2>1, <2>2, <2>3, <2>4 DEF Good
<1>5. CASE SaveDue(s) /\ outcome = "kept"
  <2>1. Saved(s, outcome) = r /\ Remembered(s, t, outcome) = t
    BY <1>5 DEF Saved, Remembered, r, f
  <2>2. Good(r, t) BY <1>2 DEF Good, Matches
  <2> QED BY <2>1, <2>2
<1>6. CASE SaveDue(s) /\ outcome \notin {"ok", "kept"}
  <2> DEFINE u == [r EXCEPT !.files[f] = NoSave]
  <2>1. Saved(s, outcome) = u /\ Remembered(s, t, outcome) = t
    BY <1>6 DEF Saved, Remembered, r, f
  <2>2. /\ u \in Session /\ u.waits = s.waits /\ u.state = s.state
        /\ u.files = [s.files EXCEPT ![f] = NoSave] /\ u.points = s.points
    BY <1>1, <1>2 DEF Session
  <2> HIDE DEF u
  <2>3. Matches(u, t) BY <1>1, <2>2 DEF Good, Session, Matches
  <2> QED BY <2>1, <2>2, <2>3 DEF Good
<1> QED BY <1>3, <1>4, <1>5, <1>6

\* A change of the waits and of the world alone.
LEMMA ChangedGood ==
  ASSUME NEW s, NEW t, Good(s, t), NEW waits, Held(waits), NEW world \in World
  PROVE  Good([s EXCEPT !.waits = waits, !.world = world], t)
<1> DEFINE u == [s EXCEPT !.waits = waits, !.world = world]
<1>1. s \in Session /\ waits \in Waits BY DEF Good, Held
<1>2. /\ u \in Session /\ u.waits = waits /\ u.state = s.state
      /\ u.files = s.files /\ u.points = s.points
  BY <1>1 DEF Session
<1> HIDE DEF u
<1>3. Good(u, t) BY <1>2 DEF Good, Matches
<1> QED BY <1>3 DEF u

LEMMA PreparedGood ==
  ASSUME NEW s, NEW t, Good(s, t)
  PROVE  Good(Prepared(s), t)
<1> DEFINE waits == BeforeTick(s.waits, s.world.tick)
           mode == ModeBeforeTick(s.waits, s.world.mode, s.world.tick)
           world == [s.world EXCEPT !.mode = mode]
<1>1. /\ s \in Session /\ s.world \in World /\ s.world.tick \in Nat /\ Held(s.waits)
      /\ s.world.mode \in Modes
  BY DEF Good, Session, World
<1>2. Held(waits) BY <1>1, BeforeTickHeld
<1>3. mode \in Modes BY <1>1 DEF ModeBeforeTick, Modes
<1> HIDE DEF waits, mode
<1>4. world \in World BY <1>1, <1>3 DEF World
<1>5. Prepared(s) = [s EXCEPT !.waits = waits, !.world = world]
  BY <1>1 DEF Prepared, Session, waits, mode
<1> HIDE DEF world
<1>6. Good([s EXCEPT !.waits = waits, !.world = world], t)
  BY <1>2, <1>4, ChangedGood
<1> QED BY <1>5, <1>6

LEMMA ScriptedGood ==
  ASSUME NEW s, NEW t, Good(s, t), NEW script \in Script, NEW veto
  PROVE  Good(Scripted(s, script, veto), t)
<1>1. /\ s \in Session /\ s.world \in World /\ s.world.tick \in Nat /\ Held(s.waits)
      /\ s.world.mode \in Modes
  BY DEF Good, Session, World
<1>2. CASE script.kind = "none" BY <1>2 DEF Scripted
<1>3. CASE script.kind = "move"
  <2> DEFINE waits == Moved(s.waits, s.world.tick, script.ms)
  <2>1. script.ms \in Nat BY <1>3 DEF Script, NoScript
  <2>2. Held(waits) BY <1>1, <2>1, MovedHeld
  <2>3. Scripted(s, script, veto) = [s EXCEPT !.waits = waits] BY <1>3 DEF Scripted
  <2> HIDE DEF waits
  <2>4. [s EXCEPT !.waits = waits] = [s EXCEPT !.waits = waits, !.world = s.world]
    BY <1>1 DEF Session
  <2>5. Good([s EXCEPT !.waits = waits, !.world = s.world], t)
    BY <1>1, <2>2, ChangedGood
  <2> QED BY <2>3, <2>4, <2>5
<1>4. CASE script.kind = "path"
  <2> DEFINE mode == LoadedMode(s.waits, s.world.mode, veto)
             waits == Loaded(s.waits, s.world.mode, mode, s.world.tick, script.points)
             world == [s.world EXCEPT !.mode = mode]
  <2>1. script.points \in Nat \ {0, 1} BY <1>4 DEF Script, NoScript
  <2>2. Held(waits) BY <1>1, <2>1, LoadedHeld
  <2>3. mode \in Modes BY <1>1 DEF LoadedMode, Modes
  <2>4. Scripted(s, script, veto) = [s EXCEPT !.waits = waits, !.world.mode = mode]
    BY <1>4 DEF Scripted
  <2> HIDE DEF waits, mode
  <2>5. world \in World BY <1>1, <2>3 DEF World
  <2>6. [s EXCEPT !.waits = waits, !.world.mode = mode] = [s EXCEPT !.waits = waits, !.world = world]
    BY <1>1 DEF Session
  <2> HIDE DEF world
  <2>7. Good([s EXCEPT !.waits = waits, !.world = world], t)
    BY <2>2, <2>5, ChangedGood
  <2> QED BY <2>4, <2>6, <2>7
<1> QED BY <1>2, <1>3, <1>4 DEF Script, NoScript

LEMMA TickedGood ==
  ASSUME NEW s, NEW t, Good(s, t), NEW c, NEW outcome, NEW script \in Script, NEW veto
  PROVE  Good(Ticked(s, c, outcome, script, veto), Remembered(s, t, outcome))
<1> DEFINE u == Checked(s, c)
           v == Saved(u, outcome)
           w == Prepared(v)
           x == Scripted(w, script, veto)
           r == Remembered(s, t, outcome)
           world == [x.world EXCEPT !.tick = x.world.tick + 1]
<1>1. Good(u, t) /\ Remembered(u, t, outcome) = r
  BY CheckedGood DEF Remembered
<1> HIDE DEF u, r
<1>2. Good(v, r) BY <1>1, SavedGood
<1> HIDE DEF v
<1>3. Good(w, r) BY <1>2, PreparedGood
<1> HIDE DEF w
<1>4. Good(x, r) BY <1>3, ScriptedGood
<1>5. Ticked(s, c, outcome, script, veto) = [x EXCEPT !.world.tick = x.world.tick + 1]
  BY DEF Ticked, u, v, w
<1> HIDE DEF x
<1>6. x \in Session /\ x.world \in World /\ Held(x.waits)
  BY <1>4 DEF Good, Session
<1>7. world \in World BY <1>6 DEF World
<1>8. [x EXCEPT !.world.tick = x.world.tick + 1] = [x EXCEPT !.waits = x.waits, !.world = world]
  BY <1>6 DEF Session
<1> HIDE DEF world
<1>9. Good([x EXCEPT !.waits = x.waits, !.world = world], r)
  BY <1>4, <1>6, <1>7, ChangedGood
<1> QED BY <1>5, <1>8, <1>9 DEF r

-----------------------------------------------------------------------------
(* A resync *)

\* A change of the flags and of what they decide, and of nothing else.
LEMMA FlagsGood ==
  ASSUME NEW s, NEW t, Good(s, t), NEW u \in Session,
         u.waits = s.waits, u.files = s.files, u.points = s.points, u.state # "aborted"
  PROVE  Good(u, t)
BY DEF Good, Matches

\* The tick that a reload goes by is a tick.
LEMMA SinceType ==
  ASSUME NEW s, NEW t, Good(s, t), NEW c \in Packet, c.kind = "resync"
  PROVE  Since(s, c) \in Nat
<1>1. s.world.tick \in Nat BY DEF Good, Session, World
<1>2. c.since \in Nat \cup {NoReport} BY DEF Packet
<1> QED BY <1>1, <1>2 DEF Since

LEMMA ChosenGood ==
  ASSUME NEW s, NEW t, Good(s, t), NEW c, Since(s, c) \in Nat
  PROVE  Good(Chosen(s, c), t)
<1> DEFINE flip == s.flip \/ s.saved >= Since(s, c)
           final == s.final \/ flip
           slot == IF flip THEN 1 - s.slot ELSE s.slot
           since == Since(s, c)
           u == [s EXCEPT !.since = since, !.flip = flip, !.final = final, !.slot = slot]
<1>1. s \in Session /\ s.state # "aborted" BY DEF Good
<1>2. flip \in BOOLEAN /\ final \in BOOLEAN /\ slot \in Slot /\ since \in Nat
  BY <1>1 DEF Session, Slot
<1>3. Chosen(s, c) = u BY DEF Chosen
<1> HIDE DEF flip, final, slot, since
<1>4. /\ u \in Session /\ u.waits = s.waits /\ u.files = s.files /\ u.points = s.points
      /\ u.state = s.state
  BY <1>1, <1>2 DEF Session
<1> HIDE DEF u
<1>5. Good(u, t) BY <1>1, <1>4, FlagsGood
<1> QED BY <1>3, <1>5

\* A reload ends the session, or takes the world and the waits from the same moment.
LEMMA RestoredGood ==
  ASSUME NEW s, NEW t, Good(s, t)
  PROVE  LET u == Restored(s)
         IN /\ Good(u, t)
            /\ u.state # "over" =>
                 \/ s.state = "over"
                 \/ u.world = u.files[u.slot] /\ u.waits = t[u.slot]
<1> DEFINE w == s.files[s.slot]
           k == s.points[s.slot]
<1>1. /\ s \in Session /\ s.slot \in Slot /\ w \in World \cup {NoSave}
      /\ t[s.slot] \in Waits /\ Held(t[s.slot]) /\ s.state # "aborted"
  BY DEF Good, Session
<1>2. CASE w = NoSave
  <2> DEFINE u == [s EXCEPT !.state = "over"]
  <2>1. Restored(s) = u BY <1>2 DEF Restored
  <2>2. /\ u \in Session /\ u.waits = s.waits /\ u.files = s.files /\ u.points = s.points
        /\ u.state = "over"
    BY <1>1 DEF Session
  <2> HIDE DEF u
  <2>3. Good(u, t) BY <2>2, FlagsGood
  <2> QED BY <2>1, <2>2, <2>3
<1>3. CASE w # NoSave
  <2> DEFINE due == w.tick + SavePeriod
             u == [s EXCEPT !.world = w, !.waits = k.waits, !.out = FALSE, !.since = 0,
                            !.saved = w.tick, !.flip = TRUE, !.due = due]
  <2>1. w \in World /\ w.tick \in Nat /\ due \in Nat
    BY <1>1, <1>3, NumbersAssumption DEF World
  <2>2. k = [tick |-> w.tick, waits |-> t[s.slot]]
    BY <1>1, <1>3 DEF Good, Matches
  <2>3. k \in Checkpoint BY <1>1, <2>1, <2>2 DEF Checkpoint
  <2>4. k # NoSave BY <2>3, NoSaveAssumption
  <2>5. k.tick = w.tick /\ k.waits = t[s.slot] BY <2>2
  <2>6. ~(k.waits.path.active /\ ~k.waits.path.tracked) BY <1>1, <2>5 DEF Held
  <2>7. Restored(s) = u BY <1>3, <2>4, <2>5, <2>6 DEF Restored
  <2> HIDE DEF w, k, due
  <2>8. /\ u \in Session /\ u.waits = k.waits /\ u.files = s.files /\ u.points = s.points
        /\ u.state = s.state /\ u.slot = s.slot /\ u.world = w
    BY <1>1, <2>1, <2>5 DEF Session
  <2> HIDE DEF u
  <2>9. Good(u, t) BY <1>1, <2>5, <2>8 DEF Good, Matches
  <2>10. u.world = u.files[u.slot] /\ u.waits = t[u.slot] BY <2>5, <2>8 DEF w
  <2> QED BY <2>7, <2>9, <2>10
<1> QED BY <1>2, <1>3

LEMMA ResyncedGood ==
  ASSUME NEW s, NEW t, Good(s, t), s.state = "play", NEW c, Since(s, c) \in Nat
  PROVE  LET u == Resynced(s, c)
         IN /\ Good(u, t)
            /\ u.state # "over" => u.world = u.files[u.slot] /\ u.waits = t[u.slot]
<1>1. CASE s.final
  <2> DEFINE flip == s.flip \/ s.saved >= Since(s, c)
             since == Since(s, c)
             u == [s EXCEPT !.since = since, !.flip = flip, !.state = "over"]
  <2>1. Resynced(s, c) = u BY <1>1 DEF Resynced
  <2>2. s \in Session /\ flip \in BOOLEAN /\ since \in Nat BY DEF Good, Session
  <2> HIDE DEF flip, since
  <2>3. /\ u \in Session /\ u.waits = s.waits /\ u.files = s.files /\ u.points = s.points
        /\ u.state = "over"
    BY <2>2 DEF Session
  <2> HIDE DEF u
  <2>4. Good(u, t) BY <2>3, FlagsGood
  <2> QED BY <2>1, <2>3, <2>4
<1>2. CASE ~s.final
  <2> DEFINE v == Chosen(s, c)
  <2>1. Resynced(s, c) = Restored(v) BY <1>2 DEF Resynced
  <2>2. Good(v, t) BY ChosenGood
  <2>3. v.state # "over"
    <3>1. s \in Session BY DEF Good
    <3>2. v.state = s.state BY <3>1 DEF Chosen, Session
    <3> QED BY <3>2
  <2> HIDE DEF v
  <2> QED BY <2>1, <2>2, <2>3, RestoredGood
<1> QED BY <1>1, <1>2

-----------------------------------------------------------------------------
(* Steps *)

LEMMA InitInv == Init => Inv
<1> SUFFICES ASSUME Init PROVE Inv OBVIOUS
<1>1. PICK due \in FirstDue : session = [p \in Peer |-> NewSession(due)] BY DEF Init
<1> DEFINE s == NewSession(due)
           t == [f \in Slot |-> NoWaits]
<1>2. due \in Nat BY NumbersAssumption
<1>3. NoWaits \in Waits BY NoWaitsHeld DEF Held
<1>4. /\ s \in Session /\ s.state # "aborted" /\ s.waits = NoWaits
      /\ s.files = [f \in Slot |-> NoSave]
  BY <1>2, <1>3 DEF NewSession, Session, World, Modes, Slot
<1>5. t \in [Slot -> Waits] BY <1>3
<1> HIDE DEF s
<1>6. Matches(s, t) BY <1>4 DEF Matches
<1>7. Good(s, t) BY <1>4, <1>5, <1>6, NoWaitsHeld DEF Good
<1> HIDE DEF t
<1>8. /\ session = [p \in Peer |-> s] /\ truth = [p \in Peer |-> t]
  BY <1>1 DEF Init, s, t
<1>9. stream \in Seq(Packet) BY DEF Init
<1>10. TypeOK BY <1>4, <1>5, <1>8, <1>9 DEF TypeOK, Init
<1> QED BY <1>7, <1>8, <1>10 DEF Inv

LEMMA HostSendsInv ==
  ASSUME Inv, HostSends
  PROVE  Inv'
<1>1. /\ stream \in Seq(Packet) /\ reported \subseteq Nat /\ waited \in Nat
      /\ session[Host].world.tick \in Nat
  BY HostAssumption DEF Inv, TypeOK, Session, World
<1>2. CASE \E c \in TickPackets : OrderTick(c)
  <2>1. PICK c \in TickPackets : OrderTick(c) BY <1>2
  <2>2. c \in Packet BY <1>1, BoundsAssumption DEF TickPackets, Packet
  <2>3. stream' \in Seq(Packet) BY <1>1, <2>1, <2>2 DEF OrderTick, Send
  <2>4. waited' \in Nat BY <1>1, <2>1 DEF OrderTick
  <2>5. UNCHANGED <<at, session, reported, truth, odd>> BY <2>1 DEF OrderTick
  <2> QED BY <2>3, <2>4, <2>5 DEF Inv, TypeOK
<1>3. CASE \E c \in ResyncPackets : OrderResync(c)
  <2>1. PICK c \in ResyncPackets : OrderResync(c) BY <1>3
  <2>2. c \in Packet BY <1>1 DEF ResyncPackets, Packet
  <2>3. stream' \in Seq(Packet) BY <1>1, <2>1, <2>2 DEF OrderResync, Send
  <2>4. waited' \in Nat /\ reported' \subseteq Nat BY <2>1 DEF OrderResync
  <2>5. UNCHANGED <<at, session, truth, odd>> BY <2>1 DEF OrderResync
  <2> QED BY <2>3, <2>4, <2>5 DEF Inv, TypeOK
<1> QED BY <1>2, <1>3 DEF HostSends

\* One peer changes, with what history says of it.
LEMMA OneGood ==
  ASSUME Inv, NEW p \in Peer, NEW u, NEW v, Good(u, v),
         session' = [session EXCEPT ![p] = u], truth' = [truth EXCEPT ![p] = v]
  PROVE  /\ session' \in [Peer -> Session] /\ truth' \in [Peer -> [Slot -> Waits]]
         /\ \A q \in Peer : Good(session'[q], truth'[q])
<1>1. session \in [Peer -> Session] /\ truth \in [Peer -> [Slot -> Waits]]
  BY DEF Inv, TypeOK
<1>2. u \in Session /\ v \in [Slot -> Waits] BY DEF Good
<1>3. ASSUME NEW q \in Peer PROVE Good(session'[q], truth'[q])
  <2>1. CASE q = p
    <3>1. session'[q] = u /\ truth'[q] = v BY <1>1, <2>1
    <3> QED BY <3>1
  <2>2. CASE q # p
    <3>1. session'[q] = session[q] /\ truth'[q] = truth[q] BY <1>1, <2>2
    <3> QED BY <3>1 DEF Inv
  <2> QED BY <2>1, <2>2
<1> QED BY <1>1, <1>2, <1>3

LEMMA ProceedType ==
  ASSUME Inv, NEW p \in Peer, at[p] < Len(stream), Proceed(p)
  PROVE  at' \in [Peer -> Nat] /\ stream' \in Seq(Packet)
<1> DEFINE on == [at EXCEPT ![p] = at[p] + 1]
           all == \A q \in Peer : on[q] > 0
<1>1. at \in [Peer -> Nat] /\ stream \in Seq(Packet) BY DEF Inv, TypeOK
<1>2. on \in [Peer -> Nat] BY <1>1
<1>3. /\ at' = IF all THEN [q \in Peer |-> on[q] - 1] ELSE on
      /\ stream' = IF all THEN Tail(stream) ELSE stream
  BY DEF Proceed
<1>4. stream # << >> BY <1>1
<1>5. Tail(stream) \in Seq(Packet) BY <1>1, <1>4
<1>6. CASE all
  <2>1. [q \in Peer |-> on[q] - 1] \in [Peer -> Nat] BY <1>2, <1>6
  <2> QED BY <1>3, <1>5, <1>6, <2>1
<1>7. CASE ~all BY <1>1, <1>2, <1>3, <1>7
<1> QED BY <1>6, <1>7

LEMMA ProcessTickInv ==
  ASSUME Inv, NEW p \in Peer, NEW c \in Packet, ProcessTick(p, c)
  PROVE  /\ session' \in [Peer -> Session] /\ truth' \in [Peer -> [Slot -> Waits]]
         /\ \A q \in Peer : Good(session'[q], truth'[q])
         /\ reported' \subseteq Nat /\ waited' \in Nat /\ odd' \subseteq Peer
<1> DEFINE s == session[p]
           t == truth[p]
<1>1. PICK outcome \in IF p \in Failing THEN {"ok", "kept", "lost"} ELSE {"ok"},
           script \in IF s.world.wrong THEN Scripts ELSE {c.script},
           veto \in IF c.script.kind = "path" THEN BOOLEAN ELSE {FALSE} :
        /\ session' = [session EXCEPT ![p] = Ticked(s, c, outcome, script, veto)]
        /\ truth' = IF SaveDue(s) /\ outcome = "ok"
                    THEN [truth EXCEPT ![p][1 - s.slot] = s.waits] ELSE truth
        /\ odd' = IF SaveDue(s) /\ outcome # "ok" THEN odd \cup {p} ELSE odd
  BY DEF ProcessTick
<1>2. session \in [Peer -> Session] /\ truth \in [Peer -> [Slot -> Waits]]
  BY DEF Inv, TypeOK
<1>3. Good(s, t) BY DEF Inv
<1>4. c.kind = "tick" BY DEF ProcessTick
<1>5. script \in Script BY <1>1, <1>4, BoundsAssumption DEF Packet
<1> DEFINE u == Ticked(s, c, outcome, script, veto)
           v == Remembered(s, t, outcome)
<1>6. Good(u, v) BY <1>3, <1>5, TickedGood
<1>7. truth' = [truth EXCEPT ![p] = v]
  <2>1. CASE SaveDue(s) /\ outcome = "ok"
    <3>1. truth' = [truth EXCEPT ![p][1 - s.slot] = s.waits] BY <1>1, <2>1
    <3>2. v = [truth[p] EXCEPT ![1 - s.slot] = s.waits] BY <2>1 DEF Remembered
    <3> QED BY <1>2, <3>1, <3>2
  <2>2. CASE ~(SaveDue(s) /\ outcome = "ok")
    <3>1. truth' = truth /\ v = truth[p] BY <1>1, <2>2 DEF Remembered
    <3> QED BY <1>2, <3>1
  <2> QED BY <2>1, <2>2
<1>8. session' = [session EXCEPT ![p] = u] BY <1>1
<1> HIDE DEF u, v
<1>9. /\ session' \in [Peer -> Session] /\ truth' \in [Peer -> [Slot -> Waits]]
      /\ \A q \in Peer : Good(session'[q], truth'[q])
  BY <1>6, <1>7, <1>8, OneGood
<1>10. reported' \subseteq Nat
  <2>1. session[p].since \in Nat /\ reported \subseteq Nat
    BY <1>2 DEF Session, Inv, TypeOK
  <2> QED BY <2>1 DEF ProcessTick, Reports
<1>11. waited' \in Nat BY DEF ProcessTick, Inv, TypeOK
<1>12. odd' \subseteq Peer
  <2>1. odd \subseteq Peer BY DEF Inv, TypeOK
  <2> QED BY <1>1, <2>1
<1> QED BY <1>9, <1>10, <1>11, <1>12

LEMMA ProcessResyncInv ==
  ASSUME Inv, NEW p \in Peer, NEW c \in Packet, ProcessResync(p, c), session[p].state = "play"
  PROVE  /\ session' \in [Peer -> Session] /\ truth' \in [Peer -> [Slot -> Waits]]
         /\ \A q \in Peer : Good(session'[q], truth'[q])
         /\ reported' \subseteq Nat /\ waited' \in Nat /\ odd' \subseteq Peer
<1> DEFINE s == session[p]
           u == Resynced(s, c)
<1>2. Good(s, truth[p]) BY DEF Inv
<1>1. Since(s, c) \in Nat BY <1>2, SinceType DEF ProcessResync
<1>3. Good(u, truth[p]) BY <1>1, <1>2, ResyncedGood
<1>4. session' = [session EXCEPT ![p] = u] BY DEF ProcessResync
<1>5. truth' = [truth EXCEPT ![p] = truth[p]] BY DEF ProcessResync, Inv, TypeOK
<1> HIDE DEF u
<1>6. /\ session' \in [Peer -> Session] /\ truth' \in [Peer -> [Slot -> Waits]]
      /\ \A q \in Peer : Good(session'[q], truth'[q])
  BY <1>3, <1>4, <1>5, OneGood
<1> QED BY <1>6 DEF ProcessResync, Inv, TypeOK

LEMMA ProcessInv ==
  ASSUME Inv, NEW p \in Peer, Process(p)
  PROVE  Inv'
<1> DEFINE c == stream[at[p] + 1]
<1>1. c \in Packet BY DEF Inv, TypeOK, Process
<1>2. at' \in [Peer -> Nat] /\ stream' \in Seq(Packet) BY ProceedType DEF Process
<1> HIDE DEF c
<1>3. /\ session' \in [Peer -> Session] /\ truth' \in [Peer -> [Slot -> Waits]]
      /\ \A q \in Peer : Good(session'[q], truth'[q])
      /\ reported' \subseteq Nat /\ waited' \in Nat /\ odd' \subseteq Peer
  <2>1. session[p].state = "play" /\ (ProcessTick(p, c) \/ ProcessResync(p, c))
    BY DEF Process, c
  <2> QED BY <1>1, <2>1, ProcessTickInv, ProcessResyncInv
<1> QED BY <1>2, <1>3 DEF Inv, TypeOK

\* A world that changes by itself, the waits and the files staying as they are.
LEMMA WorldInv ==
  ASSUME Inv, NEW p \in Peer, NEW world \in World,
         session' = [session EXCEPT ![p] = [session[p] EXCEPT !.world = world]],
         UNCHANGED <<stream, at, reported, waited, truth, odd>>
  PROVE  Inv'
<1> DEFINE s == session[p]
           u == [s EXCEPT !.waits = s.waits, !.world = world]
<1>1. Good(s, truth[p]) BY DEF Inv
<1>2. s \in Session /\ Held(s.waits) BY <1>1 DEF Good
<1>3. [s EXCEPT !.world = world] = u BY <1>2 DEF Session
<1>4. Good(u, truth[p]) BY <1>1, <1>2, ChangedGood
<1>5. session' = [session EXCEPT ![p] = u] BY <1>3
<1>6. truth' = [truth EXCEPT ![p] = truth[p]] BY DEF Inv, TypeOK
<1> HIDE DEF u
<1>7. /\ session' \in [Peer -> Session] /\ truth' \in [Peer -> [Slot -> Waits]]
      /\ \A q \in Peer : Good(session'[q], truth'[q])
  BY <1>4, <1>5, <1>6, OneGood
<1> QED BY <1>7 DEF Inv, TypeOK

LEMMA DivergeInv ==
  ASSUME Inv, NEW p \in Peer, Diverge(p)
  PROVE  Inv'
<1> DEFINE world == [session[p].world EXCEPT !.wrong = TRUE]
<1>1. session[p] \in Session /\ session[p].world \in World BY DEF Inv, TypeOK, Session
<1>2. world \in World BY <1>1 DEF World
<1>3. session' = [session EXCEPT ![p] = [session[p] EXCEPT !.world = world]]
  BY DEF Diverge, Inv, TypeOK, Session
<1> HIDE DEF world
<1> QED BY <1>2, <1>3, WorldInv DEF Diverge

LEMMA LeavePathInv ==
  ASSUME Inv, NEW p \in Peer, LeavePath(p)
  PROVE  Inv'
<1>1. PICK mode \in {Completed(session[p].waits, "path"), "own"} :
        session' = [session EXCEPT ![p].world.mode = mode]
  BY DEF LeavePath
<1> DEFINE world == [session[p].world EXCEPT !.mode = mode]
<1>2. session[p] \in Session /\ session[p].world \in World BY DEF Inv, TypeOK, Session
<1>3. mode \in Modes BY <1>1 DEF Completed, Modes
<1>4. world \in World BY <1>2, <1>3 DEF World
<1>5. session' = [session EXCEPT ![p] = [session[p] EXCEPT !.world = world]]
  BY <1>1 DEF Inv, TypeOK, Session
<1> HIDE DEF world
<1> QED BY <1>4, <1>5, WorldInv DEF LeavePath

LEMMA NextInv == Inv /\ [Next]_vars => Inv'
<1> SUFFICES ASSUME Inv, [Next]_vars PROVE Inv' OBVIOUS
<1>1. CASE HostSends BY <1>1, HostSendsInv
<1>2. CASE \E p \in Peer : Process(p) BY <1>2, ProcessInv
<1>3. CASE \E p \in Peer : Diverge(p) BY <1>3, DivergeInv
<1>4. CASE \E p \in Peer : LeavePath(p) BY <1>4, LeavePathInv
<1>5. CASE UNCHANGED vars BY <1>5 DEF vars, Inv, TypeOK
<1> QED BY <1>1, <1>2, <1>3, <1>4, <1>5 DEF Next

-----------------------------------------------------------------------------
(* What the camera of one peer is, now and in its files *)

\* A path under way is the shared one and keeps motion paused, and was last looked at no
\* later than now; the camera is on a path only while there is one.
Framed(w, mode, tick) ==
  /\ w.path.tracked <=> w.path.active
  /\ w.motion.paused <=> w.path.active
  /\ mode = "path" => w.path.active
  /\ w.path.active => w.path.last <= tick

Filmed(s) ==
  /\ Framed(s.waits, s.world.mode, s.world.tick)
  /\ \A f \in Slot : s.files[f] # NoSave =>
       Framed(s.points[f].waits, s.files[f].mode, s.files[f].tick)

\* What a peer that is out of step reports is past, and so is its last save.
Timed(s) ==
  /\ s.saved <= s.world.tick
  /\ (s.state = "play" /\ s.out) => s.since < s.world.tick /\ s.saved < s.world.tick

\* The waits after a path is loaded, whatever the player's own camera answers.
SharedLoaded(w, tick, points) ==
  LET path == IF w.path.active THEN w.path
              ELSE [active |-> TRUE, deadline |-> tick + PathTicks(points), last |-> tick,
                    tracked |-> TRUE]
  IN [path |-> path,
      motion |-> Advanced(Advanced(w.motion, tick, w.path.active), tick, path.active)]

\* The waits after a tick, from those before it and the script alone.
SharedTicked(w, tick, script) ==
  LET b == BeforeTick(w, tick)
  IN CASE script.kind = "none" -> b
       [] script.kind = "move" -> Moved(b, tick, script.ms)
       [] script.kind = "path" -> SharedLoaded(b, tick, script.points)

LEMMA AdvancedPaused ==
  ASSUME NEW m, NEW tick, NEW pending
  PROVE  Advanced(m, tick, pending).paused = pending
BY DEF Advanced

LEMMA BeforeTickFramed ==
  ASSUME NEW w, Held(w), NEW mode \in Modes, NEW tick \in Nat, Framed(w, mode, tick)
  PROVE  Framed(BeforeTick(w, tick), ModeBeforeTick(w, mode, tick), tick)
<1> DEFINE path == PathAdvanced(w.path, tick)
           motion == Advanced(Advanced(w.motion, tick, w.path.active), tick, path.active)
           after == ModeBeforeTick(w, mode, tick)
<1>1. w.path \in Path BY DEF Held, Waits
<1>2. /\ path.tracked <=> path.active
      /\ after = "path" => path.active
      /\ path.active => path.last <= tick
  <2>1. CASE ~w.path.active
    <3>1. ~w.path.tracked /\ mode # "path" BY <2>1 DEF Framed
    <3>2. path = [w.path EXCEPT !.active = FALSE] BY <3>1 DEF PathAdvanced
    <3>3. after # "path" BY <3>1 DEF ModeBeforeTick
    <3>4. ~path.active /\ ~path.tracked BY <1>1, <3>1, <3>2 DEF Path
    <3> QED BY <3>3, <3>4
  <2>2. CASE w.path.active /\ tick < w.path.deadline
    <3>1. w.path.tracked /\ w.path.last <= tick BY <2>2 DEF Framed
    <3>2. ~(tick < w.path.last) BY <1>1, <3>1 DEF Path
    <3>3. path = [w.path EXCEPT !.last = tick] BY <2>2, <3>1, <3>2 DEF PathAdvanced
    <3>4. path.active /\ path.tracked /\ path.last = tick BY <1>1, <2>2, <3>1, <3>3 DEF Path
    <3> QED BY <3>4
  <2>3. CASE w.path.active /\ ~(tick < w.path.deadline)
    <3>1. w.path.tracked /\ w.path.last <= tick BY <2>3 DEF Framed
    <3>2. ~(tick < w.path.last) BY <1>1, <3>1 DEF Path
    <3>3. path = [w.path EXCEPT !.last = tick, !.active = FALSE, !.tracked = FALSE]
      BY <2>3, <3>1, <3>2 DEF PathAdvanced
    <3>4. ~path.active /\ ~path.tracked BY <1>1, <3>3 DEF Path
    <3>5. Ends(w.path, tick) BY <1>1, <2>3, <3>1 DEF Ends, Pending, Path
    <3>6. after = "own" BY <3>5 DEF ModeBeforeTick
    <3> QED BY <3>4, <3>6
  <2> QED BY <2>1, <2>2, <2>3
<1> HIDE DEF path, after
<1>3. motion.paused <=> path.active BY AdvancedPaused
<1> HIDE DEF motion
<1>4. BeforeTick(w, tick) = [path |-> path, motion |-> motion] BY DEF BeforeTick, path, motion
<1>5. Framed([path |-> path, motion |-> motion], after, tick) BY <1>2, <1>3 DEF Framed
<1> QED BY <1>4, <1>5 DEF after

LEMMA MovedFramed ==
  ASSUME NEW w, Held(w), NEW mode, NEW tick \in Nat, NEW ms \in Nat, Framed(w, mode, tick)
  PROVE  Framed(Moved(w, tick, ms), mode, tick)
<1> DEFINE m == Advanced(w.motion, tick, w.path.active)
           d == DurationTicks(500)
           e == IF ms = 0 THEN m.turn ELSE DurationTicks(ms)
           n == [m EXCEPT !.move = d, !.turn = e]
<1>1. w \in Waits BY DEF Held
<1>2. m \in Motion BY <1>1, AdvancedType DEF Waits, Path
<1>3. m.paused <=> w.path.active BY AdvancedPaused
<1>4. Moved(w, tick, ms) = [w EXCEPT !.motion = n] BY DEF Moved
<1> HIDE DEF m, d, e
<1>5. n.paused <=> w.path.active BY <1>2, <1>3 DEF Motion
<1> HIDE DEF n
<1>6. [w EXCEPT !.motion = n].motion = n /\ [w EXCEPT !.motion = n].path = w.path
  BY <1>1 DEF Waits
<1> QED BY <1>4, <1>5, <1>6 DEF Framed

\* The camera is on a path only if there is one, so that the veto can keep it off only a
\* path that is not taken anyway.
LEMMA LoadedShared ==
  ASSUME NEW w, Held(w), NEW mode \in Modes, NEW tick \in Nat, NEW points, NEW veto,
         Framed(w, mode, tick)
  PROVE  LET after == LoadedMode(w, mode, veto)
             u == Loaded(w, mode, after, tick, points)
         IN u = SharedLoaded(w, tick, points) /\ Framed(u, after, tick)
<1> DEFINE after == LoadedMode(w, mode, veto)
           path == Started(w, mode, after, tick, points)
           fresh == [active |-> TRUE, deadline |-> tick + PathTicks(points), last |-> tick,
                     tracked |-> TRUE]
           motion == Advanced(Advanced(w.motion, tick, w.path.active), tick, path.active)
<1>1. w.path \in Path BY DEF Held, Waits
<1>2. path = IF w.path.active THEN w.path ELSE fresh
  <2>1. CASE w.path.active BY <1>1, <2>1 DEF Started, Framed, Pending, Path
  <2>2. CASE ~w.path.active
    <3>1. mode # "path" /\ ~w.path.tracked BY <1>1, <2>2 DEF Framed, Path
    <3>2. after = "path" BY <2>2, <3>1 DEF LoadedMode, Pending
    <3> HIDE DEF after
    <3> QED BY <2>2, <3>1, <3>2 DEF Started, Pending
  <2> QED BY <2>1, <2>2
<1>3. /\ path.tracked /\ path.active
      /\ path.last <= tick
  <2>1. CASE w.path.active
    <3>1. path = w.path BY <1>2, <2>1
    <3> HIDE DEF path
    <3> QED BY <2>1, <3>1 DEF Framed
  <2>2. CASE ~w.path.active
    <3>1. path = fresh BY <1>2, <2>2
    <3> HIDE DEF path
    <3> QED BY <3>1
  <2> QED BY <2>1, <2>2
<1>4. Loaded(w, mode, after, tick, points) = [path |-> path, motion |-> motion]
  BY DEF Loaded
<1>5. SharedLoaded(w, tick, points) = [path |-> path, motion |-> motion]
  BY <1>2 DEF SharedLoaded
<1>6. motion.paused <=> path.active BY AdvancedPaused
<1> HIDE DEF path, motion, after
<1>7. Framed([path |-> path, motion |-> motion], after, tick) BY <1>3, <1>6 DEF Framed
<1> QED BY <1>4, <1>5, <1>7 DEF after

\* Everything but the world, the waits and the report.
SameFiles(u, s) ==
  /\ u.slot = s.slot /\ (u.flip <=> s.flip) /\ (u.final <=> s.final) /\ u.saved = s.saved
  /\ u.due = s.due /\ u.files = s.files /\ u.points = s.points /\ u.state = s.state

SameReport(u, s) == (u.out <=> s.out) /\ u.since = s.since

LEMMA CheckedFields ==
  ASSUME NEW s \in Session, NEW c
  PROVE  LET u == Checked(s, c)
         IN /\ SameFiles(u, s) /\ u.world = s.world /\ u.waits = s.waits
            /\ SameReport(u, s) \/ u.since = s.world.tick
<1>1. CASE Checked(s, c) = s BY <1>1 DEF SameFiles, SameReport
<1>2. CASE Checked(s, c) # s
  <2> DEFINE tick == s.world.tick
             u == [s EXCEPT !.out = TRUE, !.since = tick]
  <2>1. Checked(s, c) = u BY <1>2 DEF Checked
  <2> HIDE DEF tick
  <2>2. SameFiles(u, s) /\ u.world = s.world /\ u.waits = s.waits /\ u.since = tick
    BY DEF Session, SameFiles
  <2> QED BY <2>1, <2>2 DEF tick
<1> QED BY <1>1, <1>2

\* What a save leaves of slots and files.
AfterSave(u, s, outcome) ==
  LET f == 1 - s.slot
      point == [tick |-> s.world.tick, waits |-> s.waits]
  IN /\ u.state = s.state
     /\ ~SaveDue(s) => SameFiles(u, s)
     /\ SaveDue(s) =>
          /\ u.slot = f /\ ~u.flip /\ ~u.final /\ u.saved = s.world.tick
          /\ u.due = s.due + SavePeriod
          /\ outcome = "ok" => /\ u.files = [s.files EXCEPT ![f] = s.world]
                               /\ u.points = [s.points EXCEPT ![f] = point]
          /\ outcome # "ok" => /\ u.points = s.points
                               /\ \A g \in Slot : u.files[g] \in {s.files[g], NoSave}

LEMMA SavedFields ==
  ASSUME NEW s \in Session, NEW outcome
  PROVE  LET u == Saved(s, outcome)
         IN AfterSave(u, s, outcome) /\ SameReport(u, s) /\ u.world = s.world /\ u.waits = s.waits
<1> DEFINE f == 1 - s.slot
           due == s.due + SavePeriod
           tick == s.world.tick
           r == [s EXCEPT !.saved = tick, !.slot = f, !.flip = FALSE, !.final = FALSE,
                          !.due = due]
           point == [tick |-> tick, waits |-> s.waits]
<1>1. f \in Slot BY DEF Session, Slot
<1>2. CASE ~SaveDue(s) BY <1>2 DEF Saved, AfterSave, SameFiles, SameReport
<1>3. CASE SaveDue(s)
  <2> HIDE DEF f, due, tick, point
  <2>1. /\ r.world = s.world /\ r.waits = s.waits /\ r.files = s.files /\ r.points = s.points
        /\ r.state = s.state /\ SameReport(r, s)
        /\ r.slot = f /\ ~r.flip /\ ~r.final /\ r.saved = tick /\ r.due = due
        /\ DOMAIN r = DOMAIN s
    BY DEF Session, SameReport
  <2>2. DOMAIN r = {"world", "waits", "files", "points", "slot", "flip", "final", "saved",
                    "due", "out", "since", "state"}
    BY <2>1 DEF Session
  <2>3. DOMAIN s.files = Slot BY DEF Session
  <2>4. CASE outcome = "ok"
    <3> DEFINE files == [s.files EXCEPT ![f] = s.world]
               points == [s.points EXCEPT ![f] = point]
               u == [r EXCEPT !.files = files, !.points = points]
    <3>1. Saved(s, outcome) = u
      <4>1. Saved(s, outcome) = [r EXCEPT !.files[f] = s.world, !.points[f] = point]
        BY <1>3, <2>4 DEF Saved, r, f, due, tick, point
      <4> QED BY <2>1, <2>2, <4>1
    <3> HIDE DEF r, files, points
    <3>2. /\ u.files = files /\ u.points = points
          /\ u.world = r.world /\ u.waits = r.waits /\ u.state = r.state /\ SameReport(u, r)
          /\ u.slot = r.slot /\ (u.flip <=> r.flip) /\ (u.final <=> r.final)
          /\ u.saved = r.saved /\ u.due = r.due
      BY <2>2 DEF SameReport
    <3> HIDE DEF u
    <3> QED BY <1>3, <2>1, <2>4, <3>1, <3>2
      DEF AfterSave, SameReport, files, points, f, due, tick, point
  <2>5. CASE outcome # "ok" /\ Saved(s, outcome) = r
    <3> HIDE DEF r
    <3> QED BY <1>3, <2>1, <2>5 DEF AfterSave, SameReport, f, due, tick
  <2>6. CASE outcome # "ok" /\ Saved(s, outcome) # r
    <3> DEFINE files == [s.files EXCEPT ![f] = NoSave]
               u == [r EXCEPT !.files = files]
    <3>1. Saved(s, outcome) = u
      <4>1. Saved(s, outcome) = [r EXCEPT !.files[f] = NoSave]
        BY <1>3, <2>6 DEF Saved, r, f, due, tick
      <4> QED BY <2>1, <2>2, <4>1
    <3>2. \A g \in Slot : files[g] \in {s.files[g], NoSave} BY <2>3
    <3> HIDE DEF r, files
    <3>3. /\ u.files = files /\ u.points = r.points
          /\ u.world = r.world /\ u.waits = r.waits /\ u.state = r.state /\ SameReport(u, r)
          /\ u.slot = r.slot /\ (u.flip <=> r.flip) /\ (u.final <=> r.final)
          /\ u.saved = r.saved /\ u.due = r.due
      BY <2>2 DEF SameReport
    <3> HIDE DEF u
    <3> QED BY <1>3, <2>1, <2>6, <3>1, <3>2, <3>3 DEF AfterSave, SameReport, f, due, tick
  <2> QED BY <2>4, <2>5, <2>6
<1> QED BY <1>2, <1>3

LEMMA PreparedFields ==
  ASSUME NEW s \in Session
  PROVE  LET u == Prepared(s)
         IN /\ SameFiles(u, s) /\ SameReport(u, s)
            /\ u.waits = BeforeTick(s.waits, s.world.tick)
            /\ u.world.tick = s.world.tick /\ (u.world.wrong <=> s.world.wrong)
            /\ u.world.mode = ModeBeforeTick(s.waits, s.world.mode, s.world.tick)
<1> DEFINE waits == BeforeTick(s.waits, s.world.tick)
           mode == ModeBeforeTick(s.waits, s.world.mode, s.world.tick)
           world == [s.world EXCEPT !.mode = mode]
           u == [s EXCEPT !.waits = waits, !.world = world]
<1>1. Prepared(s) = u BY DEF Prepared, Session
<1> HIDE DEF waits, mode
<1>2. world.tick = s.world.tick /\ (world.wrong <=> s.world.wrong) /\ world.mode = mode
  BY DEF Session, World
<1> HIDE DEF world
<1>3. SameFiles(u, s) /\ SameReport(u, s) /\ u.waits = waits /\ u.world = world
  BY DEF Session, SameFiles, SameReport
<1> HIDE DEF u
<1> QED BY <1>1, <1>2, <1>3 DEF waits, mode

\* What a script does to the waits, whatever the player's camera answers.
LEMMA ScriptedFields ==
  ASSUME NEW s \in Session, Held(s.waits), Framed(s.waits, s.world.mode, s.world.tick),
         NEW script \in Script, NEW veto
  PROVE  LET u == Scripted(s, script, veto)
             tick == s.world.tick
         IN /\ SameFiles(u, s) /\ SameReport(u, s)
            /\ u.waits = CASE script.kind = "none" -> s.waits
                           [] script.kind = "move" -> Moved(s.waits, tick, script.ms)
                           [] script.kind = "path" -> SharedLoaded(s.waits, tick, script.points)
            /\ u.world.tick = tick /\ (u.world.wrong <=> s.world.wrong)
            /\ Framed(u.waits, u.world.mode, tick)
<1>1. s.world.tick \in Nat /\ s.world.mode \in Modes /\ s.world \in World BY DEF Session, World
<1>2. CASE script.kind = "none" BY <1>2 DEF Scripted, SameFiles, SameReport
<1>3. CASE script.kind = "move"
  <2> DEFINE waits == Moved(s.waits, s.world.tick, script.ms)
             u == [s EXCEPT !.waits = waits]
  <2>1. script.ms \in Nat BY <1>3 DEF Script, NoScript
  <2>2. Framed(waits, s.world.mode, s.world.tick) BY <1>1, <2>1, MovedFramed
  <2>3. Scripted(s, script, veto) = u BY <1>3 DEF Scripted
  <2> HIDE DEF waits
  <2>4. SameFiles(u, s) /\ SameReport(u, s) /\ u.waits = waits /\ u.world = s.world
    BY DEF Session, SameFiles, SameReport
  <2> HIDE DEF u
  <2> QED BY <1>3, <2>2, <2>3, <2>4 DEF waits
<1>4. CASE script.kind = "path"
  <2> DEFINE mode == LoadedMode(s.waits, s.world.mode, veto)
             waits == Loaded(s.waits, s.world.mode, mode, s.world.tick, script.points)
             world == [s.world EXCEPT !.mode = mode]
             u == [s EXCEPT !.waits = waits, !.world = world]
  <2>1. /\ waits = SharedLoaded(s.waits, s.world.tick, script.points)
        /\ Framed(waits, mode, s.world.tick)
    BY <1>1, LoadedShared
  <2>2. Scripted(s, script, veto) = u BY <1>1, <1>4 DEF Scripted, Session
  <2> HIDE DEF waits, mode
  <2>3. world.tick = s.world.tick /\ (world.wrong <=> s.world.wrong) /\ world.mode = mode
    BY <1>1 DEF World
  <2> HIDE DEF world
  <2>4. SameFiles(u, s) /\ SameReport(u, s) /\ u.waits = waits /\ u.world = world
    BY DEF Session, SameFiles, SameReport
  <2> HIDE DEF u
  <2> QED BY <1>4, <2>1, <2>2, <2>3, <2>4
<1> QED BY <1>2, <1>3, <1>4 DEF Script, NoScript

LEMMA TickedFields ==
  ASSUME NEW s, NEW t, Good(s, t), Framed(s.waits, s.world.mode, s.world.tick),
         NEW c, NEW outcome, NEW script \in Script, NEW veto
  PROVE  LET u == Ticked(s, c, outcome, script, veto)
         IN /\ AfterSave(u, s, outcome)
            /\ SameReport(u, s) \/ u.since = s.world.tick
            /\ u.waits = SharedTicked(s.waits, s.world.tick, script)
            /\ u.world.tick = s.world.tick + 1 /\ (u.world.wrong <=> s.world.wrong)
            /\ Framed(u.waits, u.world.mode, u.world.tick)
<1> DEFINE u == Checked(s, c)
           v == Saved(u, outcome)
           w == Prepared(v)
           x == Scripted(w, script, veto)
           world == [x.world EXCEPT !.tick = x.world.tick + 1]
           y == [x EXCEPT !.world = world]
<1>1. s \in Session /\ s.world \in World /\ s.world.tick \in Nat /\ s.world.mode \in Modes
  BY DEF Good, Session, World
<1>2. /\ Good(u, t) /\ SameFiles(u, s) /\ u.world = s.world /\ u.waits = s.waits
      /\ SameReport(u, s) \/ u.since = s.world.tick
  BY <1>1, CheckedGood, CheckedFields
<1>3. SaveDue(u) <=> SaveDue(s) BY <1>2 DEF SaveDue, SameFiles
<1> DEFINE r == Remembered(u, t, outcome)
<1>4. u \in Session BY <1>2 DEF Good
<1> HIDE DEF u
<1>5. /\ Good(v, r) /\ AfterSave(v, u, outcome) /\ SameReport(v, u)
      /\ v.world = s.world /\ v.waits = s.waits
  BY <1>2, <1>4, SavedGood, SavedFields
<1>6. AfterSave(v, s, outcome) /\ (SameReport(v, s) \/ v.since = s.world.tick)
  BY <1>2, <1>3, <1>5 DEF AfterSave, SameFiles, SameReport
<1> HIDE DEF r, v
<1>7. v \in Session /\ Held(v.waits) BY <1>5 DEF Good
<1>8. /\ Good(w, r) /\ SameFiles(w, v) /\ SameReport(w, v)
      /\ w.waits = BeforeTick(s.waits, s.world.tick)
      /\ w.world.tick = s.world.tick /\ (w.world.wrong <=> s.world.wrong)
      /\ w.world.mode = ModeBeforeTick(s.waits, s.world.mode, s.world.tick)
  BY <1>5, <1>7, PreparedGood, PreparedFields
<1>9. Framed(w.waits, w.world.mode, s.world.tick)
  <2>1. Held(s.waits) BY <1>5, <1>7
  <2> QED BY <1>1, <1>8, <2>1, BeforeTickFramed
<1> HIDE DEF w
<1>10. w \in Session /\ Held(w.waits) BY <1>8 DEF Good
<1>11. /\ Good(x, r) /\ SameFiles(x, w) /\ SameReport(x, w)
       /\ x.world.tick = s.world.tick /\ (x.world.wrong <=> s.world.wrong)
       /\ Framed(x.waits, x.world.mode, s.world.tick)
  BY <1>8, <1>9, <1>10, ScriptedGood, ScriptedFields
<1>12. x.waits = SharedTicked(s.waits, s.world.tick, script)
  BY <1>8, <1>9, <1>10, ScriptedFields DEF SharedTicked
<1>13. Ticked(s, c, outcome, script, veto) = [x EXCEPT !.world.tick = x.world.tick + 1]
  BY DEF Ticked, u, v, w
<1> HIDE DEF x
<1>14. x \in Session /\ x.world \in World BY <1>11 DEF Good, Session
<1>15. /\ world.tick = s.world.tick + 1 /\ (world.wrong <=> s.world.wrong)
       /\ world.mode = x.world.mode
  BY <1>11, <1>14 DEF World
<1>16. Ticked(s, c, outcome, script, veto) = y BY <1>13, <1>14 DEF Session
<1> HIDE DEF world
<1>17. SameFiles(y, x) /\ SameReport(y, x) /\ y.waits = x.waits /\ y.world = world
  BY <1>14 DEF Session, SameFiles, SameReport
<1> HIDE DEF y
<1>18. AfterSave(y, s, outcome) /\ (SameReport(y, s) \/ y.since = s.world.tick)
  BY <1>6, <1>8, <1>11, <1>17 DEF AfterSave, SameFiles, SameReport
<1>19. Framed(y.waits, y.world.mode, y.world.tick)
  <2>1. x.waits.path \in Path BY <1>11 DEF Good, Held, Waits
  <2> QED BY <1>1, <1>11, <1>15, <1>17, <2>1 DEF Framed, Path
<1> QED BY <1>12, <1>15, <1>16, <1>17, <1>18, <1>19

-----------------------------------------------------------------------------
(* What a resync does to one peer *)

\* Whether the older file is taken, which slot that makes it, and whether there is
\* anything to go back to.
Flips(s, since) == s.flip \/ s.saved >= since
SlotTaken(s, since) == IF Flips(s, since) THEN 1 - s.slot ELSE s.slot
GoesBack(s, since) == ~s.final /\ s.files[SlotTaken(s, since)] # NoSave

LEMMA ResyncedFields ==
  ASSUME NEW s, NEW t, Good(s, t), s.state = "play", NEW c, Since(s, c) \in Nat
  PROVE  LET u == Resynced(s, c)
             f == SlotTaken(s, Since(s, c))
             back == GoesBack(s, Since(s, c))
         IN /\ u.files = s.files /\ u.points = s.points
            /\ u.flip <=> back \/ Flips(s, Since(s, c))
            /\ u.final <=> s.final \/ Flips(s, Since(s, c))
            /\ u.slot = IF s.final THEN s.slot ELSE f
            /\ u.state = IF back THEN "play" ELSE "over"
            /\ back => /\ u.world = s.files[f] /\ u.waits = s.points[f].waits /\ ~u.out
                       /\ u.saved = u.world.tick /\ u.due = u.world.tick + SavePeriod
            /\ ~back => u.world = s.world /\ u.waits = s.waits /\ u.saved = s.saved /\ u.due = s.due
<1> DEFINE flip == s.flip \/ s.saved >= Since(s, c)
           since == Since(s, c)
<1>1. s \in Session BY DEF Good
<1>2. Flips(s, Since(s, c)) <=> flip BY DEF Flips
<1>3. CASE s.final
  <2> DEFINE u == [s EXCEPT !.since = since, !.flip = flip, !.state = "over"]
  <2>1. Resynced(s, c) = u BY <1>3 DEF Resynced
  <2>2. flip \in BOOLEAN BY <1>1 DEF Session
  <2> HIDE DEF flip, since
  <2>3. /\ u.files = s.files /\ u.points = s.points /\ (u.flip <=> flip) /\ (u.final <=> s.final)
        /\ u.slot = s.slot /\ u.state = "over" /\ u.world = s.world /\ u.waits = s.waits
        /\ u.saved = s.saved /\ u.due = s.due
    BY <1>1 DEF Session
  <2> HIDE DEF u
  <2>4. ~GoesBack(s, Since(s, c)) BY <1>3 DEF GoesBack
  <2> QED BY <1>2, <1>3, <2>1, <2>3, <2>4
<1>4. CASE ~s.final
  <2> DEFINE final == s.final \/ flip
             slot == IF flip THEN 1 - s.slot ELSE s.slot
             v == [s EXCEPT !.since = since, !.flip = flip, !.final = final, !.slot = slot]
  <2>1. Resynced(s, c) = Restored(v) BY <1>4 DEF Resynced, Chosen
  <2>2. flip \in BOOLEAN /\ final \in BOOLEAN /\ slot \in Slot /\ since \in Nat
    BY <1>1 DEF Session, Slot
  <2>3. slot = SlotTaken(s, Since(s, c)) /\ (final <=> s.final \/ flip) BY <1>2 DEF SlotTaken
  <2> HIDE DEF flip, since, final, slot
  <2>4. /\ v.files = s.files /\ v.points = s.points /\ (v.flip <=> flip) /\ (v.final <=> final)
        /\ v.slot = slot /\ v.state = s.state /\ v.world = s.world /\ v.waits = s.waits
        /\ v.saved = s.saved /\ v.due = s.due /\ v \in Session
    BY <1>1, <2>2 DEF Session
  <2> HIDE DEF v
  <2>5. CASE s.files[slot] = NoSave
    <3> DEFINE u == [v EXCEPT !.state = "over"]
    <3>1. Restored(v) = u BY <2>4, <2>5 DEF Restored
    <3>2. /\ u.files = v.files /\ u.points = v.points /\ (u.flip <=> v.flip)
          /\ (u.final <=> v.final) /\ u.slot = v.slot /\ u.state = "over" /\ u.world = v.world
          /\ u.waits = v.waits /\ u.saved = v.saved /\ u.due = v.due
      BY <2>4 DEF Session
    <3> HIDE DEF u
    <3>3. ~GoesBack(s, Since(s, c)) BY <2>3, <2>5 DEF GoesBack
    <3> QED BY <1>2, <1>4, <2>1, <2>3, <2>4, <3>1, <3>2, <3>3
  <2>6. CASE s.files[slot] # NoSave
    <3> DEFINE w == s.files[slot]
               k == s.points[slot]
               due == w.tick + SavePeriod
               waits == k.waits
               tick == w.tick
               u == [v EXCEPT !.world = w, !.waits = waits, !.out = FALSE, !.since = 0,
                              !.saved = tick, !.flip = TRUE, !.due = due]
    <3>1. w \in World /\ t[slot] \in Waits /\ Held(t[slot])
      BY <1>1, <2>2, <2>6 DEF Good, Session
    <3>2. k = [tick |-> w.tick, waits |-> t[slot]] BY <2>2, <2>6 DEF Good, Matches
    <3>3. k \in Checkpoint BY <3>1, <3>2 DEF Checkpoint, World
    <3>4. k # NoSave BY <3>3, NoSaveAssumption
    <3>5. k.tick = w.tick /\ ~(k.waits.path.active /\ ~k.waits.path.tracked)
      BY <3>1, <3>2 DEF Held
    <3>6. Restored(v) = u BY <2>4, <2>6, <3>4, <3>5 DEF Restored
    <3> HIDE DEF w, k, due, waits, tick
    <3>7. /\ u.files = v.files /\ u.points = v.points /\ u.flip /\ (u.final <=> v.final)
          /\ u.slot = v.slot /\ u.state = v.state /\ u.world = w /\ u.waits = waits
          /\ ~u.out /\ u.saved = tick /\ u.due = due
      BY <2>4 DEF Session
    <3> HIDE DEF u
    <3>8. GoesBack(s, Since(s, c)) BY <1>4, <2>3, <2>6 DEF GoesBack
    <3> QED BY <1>2, <1>4, <2>1, <2>3, <2>4, <3>6, <3>7, <3>8 DEF w, k, due, waits, tick
  <2> QED BY <2>5, <2>6
<1> QED BY <1>3, <1>4

Upright(s) == Filmed(s) /\ Timed(s)

LEMMA TickedUpright ==
  ASSUME NEW s, NEW t, Good(s, t), Upright(s),
         NEW c, NEW outcome, NEW script \in Script, NEW veto
  PROVE  Upright(Ticked(s, c, outcome, script, veto))
<1> DEFINE u == Ticked(s, c, outcome, script, veto)
           f == 1 - s.slot
           point == [tick |-> s.world.tick, waits |-> s.waits]
<1>1. /\ s \in Session /\ s.world.tick \in Nat /\ s.saved \in Nat /\ s.since \in Nat
      /\ DOMAIN s.files = Slot /\ DOMAIN s.points = Slot /\ f \in Slot
  BY DEF Good, Session, World, Slot
<1>2. /\ AfterSave(u, s, outcome)
      /\ SameReport(u, s) \/ u.since = s.world.tick
      /\ u.world.tick = s.world.tick + 1
      /\ Framed(u.waits, u.world.mode, u.world.tick)
  BY TickedFields DEF Upright, Filmed
<1> HIDE DEF u
<1>3. u.saved \in {s.saved, s.world.tick} BY <1>2 DEF AfterSave, SameFiles
<1>4. u.state = s.state BY <1>2 DEF AfterSave
<1>5. Timed(u)
  BY <1>1, <1>2, <1>3, <1>4 DEF Upright, Timed, SameReport
<1>6. ASSUME NEW g \in Slot, u.files[g] # NoSave
      PROVE  Framed(u.points[g].waits, u.files[g].mode, u.files[g].tick)
  <2>1. s.files[g] # NoSave => Framed(s.points[g].waits, s.files[g].mode, s.files[g].tick)
    BY DEF Upright, Filmed
  <2>2. CASE SaveDue(s) /\ outcome = "ok"
    <3>1. u.files = [s.files EXCEPT ![f] = s.world] /\ u.points = [s.points EXCEPT ![f] = point]
      BY <1>2, <2>2 DEF AfterSave
    <3>2. CASE g = f
      <4>1. u.files[g] = s.world /\ u.points[g] = point BY <1>1, <3>1, <3>2
      <4>2. u.points[g].waits = s.waits BY <4>1
      <4> QED BY <4>1, <4>2 DEF Upright, Filmed
    <3>3. CASE g # f
      <4>1. u.files[g] = s.files[g] /\ u.points[g] = s.points[g] BY <1>1, <3>1, <3>3
      <4> QED BY <1>6, <2>1, <4>1
    <3> QED BY <3>2, <3>3
  <2>3. CASE ~(SaveDue(s) /\ outcome = "ok")
    <3>1. u.points = s.points /\ u.files[g] \in {s.files[g], NoSave}
      BY <1>2, <2>3 DEF AfterSave, SameFiles
    <3> QED BY <1>6, <2>1, <3>1
  <2> QED BY <2>2, <2>3
<1>7. Filmed(u) BY <1>2, <1>6 DEF Filmed
<1> QED BY <1>5, <1>7 DEF Upright, u

LEMMA ResyncedUpright ==
  ASSUME NEW s, NEW t, Good(s, t), Upright(s), s.state = "play", NEW c, Since(s, c) \in Nat
  PROVE  Upright(Resynced(s, c))
<1> DEFINE u == Resynced(s, c)
           f == SlotTaken(s, Since(s, c))
           back == GoesBack(s, Since(s, c))
<1>1. /\ u.files = s.files /\ u.points = s.points
      /\ u.state = IF back THEN "play" ELSE "over"
      /\ back => /\ u.world = s.files[f] /\ u.waits = s.points[f].waits /\ ~u.out
                 /\ u.saved = u.world.tick
      /\ ~back => u.world = s.world /\ u.waits = s.waits /\ u.saved = s.saved
  BY ResyncedFields
<1>2. s \in Session BY DEF Good
<1>3. f \in Slot BY <1>2 DEF SlotTaken, Session, Slot
<1>4. back => s.files[f] # NoSave BY DEF GoesBack
<1> HIDE DEF u, f, back
<1>5. \A g \in Slot : u.files[g] # NoSave =>
        Framed(u.points[g].waits, u.files[g].mode, u.files[g].tick)
  BY <1>1 DEF Upright, Filmed
<1>6. CASE back
  <2>1. s.files[f] \in World BY <1>2, <1>3, <1>4, <1>6 DEF Session
  <2>2. u.world.tick \in Nat BY <1>1, <1>6, <2>1 DEF World
  <2>3. Framed(u.waits, u.world.mode, u.world.tick)
    BY <1>1, <1>3, <1>4, <1>6 DEF Upright, Filmed
  <2>4. Timed(u) BY <1>1, <1>6, <2>2 DEF Timed
  <2> QED BY <1>5, <2>3, <2>4 DEF Upright, Filmed, u
<1>7. CASE ~back
  <2>1. Framed(u.waits, u.world.mode, u.world.tick)
    BY <1>1, <1>7 DEF Upright, Filmed
  <2>2. Timed(u) BY <1>1, <1>7 DEF Upright, Timed
  <2> QED BY <1>5, <2>1, <2>2 DEF Upright, Filmed, u
<1> QED BY <1>6, <1>7

-----------------------------------------------------------------------------
(* The course of the session: what its packets alone decide *)

\* A course has the rota of a peer, the waits of a right world, and of each slot whether
\* there is a file, when it was saved and the waits of a right world then.
Course == [tick : Nat, slot : Slot, flip : BOOLEAN, final : BOOLEAN, saved : Nat, due : Nat,
           over : BOOLEAN, has : [Slot -> BOOLEAN], when : [Slot -> Nat],
           kept : [Slot -> Waits], waits : Waits]

CourseTicked(k, script) ==
  LET f == 1 - k.slot
      due == k.tick > k.due
  IN [tick |-> k.tick + 1, slot |-> IF due THEN f ELSE k.slot,
      flip |-> ~due /\ k.flip, final |-> ~due /\ k.final,
      saved |-> IF due THEN k.tick ELSE k.saved,
      due |-> IF due THEN k.due + SavePeriod ELSE k.due, over |-> FALSE,
      has |-> [g \in Slot |-> k.has[g] \/ (due /\ g = f)],
      when |-> [g \in Slot |-> IF due /\ g = f THEN k.tick ELSE k.when[g]],
      kept |-> [g \in Slot |-> IF due /\ g = f THEN k.waits ELSE k.kept[g]],
      waits |-> SharedTicked(k.waits, k.tick, script)]

CourseResynced(k, since) ==
  LET flip == k.flip \/ k.saved >= since
      f == IF flip THEN 1 - k.slot ELSE k.slot
      back == ~k.final /\ k.has[f]
  IN [tick |-> IF back THEN k.when[f] ELSE k.tick,
      slot |-> IF k.final THEN k.slot ELSE f,
      flip |-> back \/ flip, final |-> k.final \/ flip,
      saved |-> IF back THEN k.when[f] ELSE k.saved,
      due |-> IF back THEN k.when[f] + SavePeriod ELSE k.due, over |-> ~back,
      has |-> k.has, when |-> k.when, kept |-> k.kept,
      waits |-> IF back THEN k.kept[f] ELSE k.waits]

CourseSince(k, c) == IF c.since = NoReport THEN k.tick ELSE c.since

Stepped(k, c) ==
  IF k.over THEN k
  ELSE IF c.kind = "tick" THEN CourseTicked(k, c.script)
       ELSE CourseResynced(k, CourseSince(k, c))

\* A peer that is on the course, the waits being what they should as far as its worlds,
\* now and in the files, are right.
Follows(s, k) ==
  /\ s.world.tick = k.tick /\ s.slot = k.slot /\ (s.flip <=> k.flip) /\ (s.final <=> k.final)
  /\ s.saved = k.saved /\ s.due = k.due /\ (s.state # "play" <=> k.over)
  /\ \A f \in Slot :
       /\ s.files[f] # NoSave <=> k.has[f]
       /\ s.points[f] # NoSave <=> k.has[f]
       /\ k.has[f] => /\ s.files[f].tick = k.when[f] /\ s.points[f].tick = k.when[f]
                      /\ ~s.files[f].wrong => s.points[f].waits = k.kept[f]
  /\ ~s.world.wrong => s.waits = k.waits

LEMMA SharedTickedHeld ==
  ASSUME NEW w, Held(w), NEW tick \in Nat, NEW script \in Script
  PROVE  Held(SharedTicked(w, tick, script))
<1> DEFINE b == BeforeTick(w, tick)
<1>1. Held(b) BY BeforeTickHeld
<1> HIDE DEF b
<1>2. CASE script.kind = "none" BY <1>1, <1>2 DEF SharedTicked, b
<1>3. CASE script.kind = "move"
  <2>1. script.ms \in Nat BY <1>3 DEF Script, NoScript
  <2>2. Held(Moved(b, tick, script.ms)) BY <1>1, <2>1, MovedHeld
  <2> QED BY <1>3, <2>2 DEF SharedTicked, b
<1>4. CASE script.kind = "path"
  <2> DEFINE points == script.points
             path == IF b.path.active THEN b.path
                     ELSE [active |-> TRUE, deadline |-> tick + PathTicks(points), last |-> tick,
                           tracked |-> TRUE]
  <2>1. points \in Nat \ {0, 1} BY <1>4 DEF Script, NoScript
  <2> HIDE DEF points
  <2>2. tick + PathTicks(points) \in Nat BY <2>1, PathIsLeast
  <2>3. b.path \in Path /\ (b.path.active => b.path.tracked) BY <1>1 DEF Held, Waits
  <2>4. path \in Path /\ (path.active => path.tracked) BY <2>2, <2>3 DEF Path
  <2>5. SharedTicked(w, tick, script) =
          [path |-> path,
           motion |-> Advanced(Advanced(b.motion, tick, b.path.active), tick, path.active)]
    BY <1>4 DEF SharedTicked, SharedLoaded, b, points
  <2> HIDE DEF path
  <2> QED BY <1>1, <2>4, <2>5, AroundHeld
<1> QED BY <1>2, <1>3, <1>4 DEF Script, NoScript

\* What a course always is: its last file is the one its rota says, and the other file,
\* as long as it is the older one, is from before; a save is due soon.
Sound(k) ==
  /\ Held(k.waits)
  /\ \A f \in Slot : Held(k.kept[f])
  /\ k.saved <= k.tick /\ k.saved <= k.due /\ k.tick <= k.due + 1
  /\ ~k.over =>
       /\ k.has[k.slot] => k.when[k.slot] = k.saved
       /\ k.has[1 - k.slot] => k.has[k.slot]
       /\ (~k.final /\ k.has[1 - k.slot]) => k.when[1 - k.slot] < k.saved

LEMMA CourseTickedSound ==
  ASSUME NEW k \in Course, Sound(k), ~k.over, NEW script \in Script
  PROVE  CourseTicked(k, script) \in Course /\ Sound(CourseTicked(k, script))
<1> DEFINE f == 1 - k.slot
           due == k.tick > k.due
           waits == SharedTicked(k.waits, k.tick, script)
           has == [g \in Slot |-> k.has[g] \/ (due /\ g = f)]
           when == [g \in Slot |-> IF due /\ g = f THEN k.tick ELSE k.when[g]]
           kept == [g \in Slot |-> IF due /\ g = f THEN k.waits ELSE k.kept[g]]
           j == CourseTicked(k, script)
<1>1. /\ k.tick \in Nat /\ k.saved \in Nat /\ k.due \in Nat /\ k.slot \in Slot /\ f \in Slot
      /\ f # k.slot /\ 1 - f = k.slot
  BY DEF Course, Slot
<1>2. Held(waits) /\ waits \in Waits BY <1>1, SharedTickedHeld DEF Sound, Held
<1>3. has \in [Slot -> BOOLEAN] OBVIOUS
<1>4. when \in [Slot -> Nat] BY <1>1 DEF Course
<1>5. kept \in [Slot -> Waits] /\ \A g \in Slot : Held(kept[g]) BY DEF Course, Sound, Held
<1>6. /\ j.tick = k.tick + 1 /\ j.slot = (IF due THEN f ELSE k.slot)
      /\ j.flip = (~due /\ k.flip) /\ j.final = (~due /\ k.final)
      /\ j.saved = (IF due THEN k.tick ELSE k.saved)
      /\ j.due = (IF due THEN k.due + SavePeriod ELSE k.due) /\ j.over = FALSE
      /\ j.has = has /\ j.when = when /\ j.kept = kept /\ j.waits = waits
      /\ j = [tick |-> j.tick, slot |-> j.slot, flip |-> j.flip, final |-> j.final,
              saved |-> j.saved, due |-> j.due, over |-> j.over, has |-> j.has, when |-> j.when,
              kept |-> j.kept, waits |-> j.waits]
  BY DEF CourseTicked
<1> HIDE DEF waits, has, when, kept, j
<1>7. j \in Course
  <2>1. j.tick \in Nat /\ j.slot \in Slot /\ j.saved \in Nat /\ j.due \in Nat
    BY <1>1, <1>6, NumbersAssumption
  <2>2. j.flip \in BOOLEAN /\ j.final \in BOOLEAN /\ j.over \in BOOLEAN BY <1>6
  <2> HIDE DEF f, due
  <2>3. j.has \in [Slot -> BOOLEAN] /\ j.when \in [Slot -> Nat] /\ j.kept \in [Slot -> Waits]
        /\ j.waits \in Waits
    BY <1>2, <1>3, <1>4, <1>5, <1>6
  <2>4. [tick |-> j.tick, slot |-> j.slot, flip |-> j.flip, final |-> j.final,
         saved |-> j.saved, due |-> j.due, over |-> j.over, has |-> j.has, when |-> j.when,
         kept |-> j.kept, waits |-> j.waits] \in Course
    BY <2>1, <2>2, <2>3 DEF Course
  <2> QED BY <1>6, <2>4
<1>8. j.saved <= j.tick /\ j.saved <= j.due /\ j.tick <= j.due + 1
  BY <1>1, <1>6, NumbersAssumption DEF Sound
<1>9. /\ j.has[j.slot] => j.when[j.slot] = j.saved
      /\ j.has[1 - j.slot] => j.has[j.slot]
      /\ (~j.final /\ j.has[1 - j.slot]) => j.when[1 - j.slot] < j.saved
  <2>1. CASE due
    <3>1. j.slot = f /\ 1 - j.slot = k.slot /\ j.saved = k.tick BY <1>1, <1>6, <2>1
    <3>2. has[f] /\ when[f] = k.tick BY <1>1, <2>1 DEF has, when
    <3>3. (has[k.slot] <=> k.has[k.slot]) /\ when[k.slot] = k.when[k.slot]
      BY <1>1 DEF has, when
    <3>4. k.has[k.slot] => k.when[k.slot] < k.tick BY <1>1, <2>1 DEF Sound
    <3> QED BY <1>6, <3>1, <3>2, <3>3, <3>4
  <2>2. CASE ~due
    <3>1. j.slot = k.slot /\ j.saved = k.saved /\ (j.final <=> k.final) BY <1>6, <2>2
    <3>2. \A g \in Slot : (has[g] <=> k.has[g]) /\ when[g] = k.when[g]
      BY <2>2 DEF has, when
    <3> QED BY <1>1, <1>6, <3>1, <3>2 DEF Sound
  <2> QED BY <2>1, <2>2
<1>10. Sound(j) BY <1>2, <1>5, <1>6, <1>8, <1>9 DEF Sound
<1> QED BY <1>7, <1>10 DEF j

LEMMA CourseResyncedSound ==
  ASSUME NEW k \in Course, Sound(k), ~k.over, NEW since \in Nat
  PROVE  CourseResynced(k, since) \in Course /\ Sound(CourseResynced(k, since))
<1> DEFINE flip == k.flip \/ k.saved >= since
           f == IF flip THEN 1 - k.slot ELSE k.slot
           back == ~k.final /\ k.has[f]
           j == CourseResynced(k, since)
<1>1. /\ k.tick \in Nat /\ k.saved \in Nat /\ k.due \in Nat /\ k.slot \in Slot /\ f \in Slot
      /\ 1 - k.slot \in Slot /\ k.when[f] \in Nat
  BY SMTT(40) DEF Course, Slot
<1>2. /\ j.tick = (IF back THEN k.when[f] ELSE k.tick)
      /\ j.slot = (IF k.final THEN k.slot ELSE f)
      /\ j.flip = (back \/ flip) /\ j.final = (k.final \/ flip)
      /\ j.saved = (IF back THEN k.when[f] ELSE k.saved)
      /\ j.due = (IF back THEN k.when[f] + SavePeriod ELSE k.due) /\ j.over = (~back)
      /\ j.has = k.has /\ j.when = k.when /\ j.kept = k.kept
      /\ j.waits = (IF back THEN k.kept[f] ELSE k.waits)
      /\ j = [tick |-> j.tick, slot |-> j.slot, flip |-> j.flip, final |-> j.final,
              saved |-> j.saved, due |-> j.due, over |-> j.over, has |-> j.has, when |-> j.when,
              kept |-> j.kept, waits |-> j.waits]
  BY DEF CourseResynced
<1> HIDE DEF j
<1>3. j \in Course
  <2>1. j.tick \in Nat /\ j.slot \in Slot /\ j.saved \in Nat /\ j.due \in Nat
    BY <1>1, <1>2, NumbersAssumption
  <2>2. j.flip \in BOOLEAN /\ j.final \in BOOLEAN /\ j.over \in BOOLEAN BY <1>2
  <2>3. /\ k.has \in [Slot -> BOOLEAN] /\ k.when \in [Slot -> Nat]
        /\ k.kept \in [Slot -> Waits] /\ k.waits \in Waits
    BY DEF Course
  <2>4. k.kept[f] \in Waits BY <1>1, <2>3
  <2> HIDE DEF f, back, flip
  <2>5. j.has \in [Slot -> BOOLEAN] /\ j.when \in [Slot -> Nat] /\ j.kept \in [Slot -> Waits]
        /\ j.waits \in Waits
    BY <1>2, <2>3, <2>4
  <2>6. [tick |-> j.tick, slot |-> j.slot, flip |-> j.flip, final |-> j.final,
         saved |-> j.saved, due |-> j.due, over |-> j.over, has |-> j.has, when |-> j.when,
         kept |-> j.kept, waits |-> j.waits] \in Course
    BY <2>1, <2>2, <2>5 DEF Course
  <2> QED BY <1>2, <2>6
<1>4. j.saved <= j.tick /\ j.saved <= j.due /\ j.tick <= j.due + 1
  BY <1>1, <1>2, NumbersAssumption DEF Sound
<1>5. Held(j.waits) /\ \A g \in Slot : Held(j.kept[g])
  BY <1>1, <1>2 DEF Sound
<1>6. ASSUME ~j.over
      PROVE  /\ j.has[j.slot] => j.when[j.slot] = j.saved
             /\ j.has[1 - j.slot] => j.has[j.slot]
             /\ (~j.final /\ j.has[1 - j.slot]) => j.when[1 - j.slot] < j.saved
  <2>1. back /\ ~k.final BY <1>2, <1>6
  <2>2. j.slot = f /\ j.saved = k.when[f] /\ k.has[f] BY <1>2, <2>1
  <2>3. ASSUME ~j.final, j.has[1 - j.slot] PROVE j.when[1 - j.slot] < j.saved
    <3>1. ~flip BY <1>2, <2>3
    <3>2. f = k.slot BY <3>1
    <3>3. k.when[1 - k.slot] < k.saved /\ k.when[k.slot] = k.saved
      BY <1>2, <2>1, <2>2, <2>3, <3>2 DEF Sound
    <3> QED BY <1>2, <2>2, <3>2, <3>3
  <2> QED BY <1>2, <2>2, <2>3
<1>7. Sound(j) BY <1>4, <1>5, <1>6 DEF Sound
<1> QED BY <1>3, <1>7 DEF j

\* A tick, and then a resync, keeps a peer on the course.
LEMMA TickedFollows ==
  ASSUME NEW s, NEW t, Good(s, t), Upright(s), NEW k \in Course, Follows(s, k),
         s.state = "play", NEW c, NEW outcome, ~SaveDue(s) \/ outcome = "ok",
         NEW script \in Script, NEW veto, NEW shared, ~s.world.wrong => script = shared
  PROVE  Follows(Ticked(s, c, outcome, script, veto), CourseTicked(k, shared))
<1> DEFINE u == Ticked(s, c, outcome, script, veto)
           f == 1 - s.slot
           due == k.tick > k.due
           point == [tick |-> s.world.tick, waits |-> s.waits]
           j == CourseTicked(k, shared)
<1>1. /\ s \in Session /\ s.world \in World /\ s.world.tick \in Nat
      /\ DOMAIN s.files = Slot /\ DOMAIN s.points = Slot /\ f \in Slot /\ s.slot \in Slot
      /\ s.waits \in Waits
  BY DEF Good, Session, World, Slot
<1>2. /\ AfterSave(u, s, outcome)
      /\ u.waits = SharedTicked(s.waits, s.world.tick, script)
      /\ u.world.tick = s.world.tick + 1 /\ (u.world.wrong <=> s.world.wrong)
  BY TickedFields DEF Upright, Filmed
<1>3. /\ s.world.tick = k.tick /\ s.slot = k.slot /\ (s.flip <=> k.flip)
      /\ (s.final <=> k.final) /\ s.saved = k.saved /\ s.due = k.due
      /\ ~s.world.wrong => s.waits = k.waits
  BY DEF Follows
<1>4. /\ j.tick = k.tick + 1 /\ j.slot = (IF due THEN f ELSE k.slot)
      /\ (j.flip <=> (~due /\ k.flip)) /\ (j.final <=> (~due /\ k.final))
      /\ j.saved = (IF due THEN k.tick ELSE k.saved)
      /\ j.due = (IF due THEN k.due + SavePeriod ELSE k.due) /\ ~j.over
      /\ j.waits = SharedTicked(k.waits, k.tick, shared)
  BY <1>3 DEF CourseTicked
<1>5. \A g \in Slot :
        /\ j.has[g] <=> k.has[g] \/ (due /\ g = f)
        /\ j.when[g] = (IF due /\ g = f THEN k.tick ELSE k.when[g])
        /\ j.kept[g] = (IF due /\ g = f THEN k.waits ELSE k.kept[g])
  BY <1>3 DEF CourseTicked
<1>6. SaveDue(s) <=> due BY <1>3 DEF SaveDue
<1> HIDE DEF u, j, due
<1>7. /\ u.slot = j.slot /\ (u.flip <=> j.flip) /\ (u.final <=> j.final) /\ u.saved = j.saved
      /\ u.due = j.due /\ u.state = "play"
  BY <1>2, <1>3, <1>4, <1>6 DEF AfterSave, SameFiles
<1>8. ~u.world.wrong => u.waits = j.waits BY <1>2, <1>3, <1>4
<1>9. ASSUME NEW g \in Slot
      PROVE  /\ u.files[g] # NoSave <=> j.has[g]
             /\ u.points[g] # NoSave <=> j.has[g]
             /\ j.has[g] => /\ u.files[g].tick = j.when[g] /\ u.points[g].tick = j.when[g]
                            /\ ~u.files[g].wrong => u.points[g].waits = j.kept[g]
  <2>1. CASE due /\ g = f
    <3>1. u.files = [s.files EXCEPT ![f] = s.world] /\ u.points = [s.points EXCEPT ![f] = point]
      BY <1>2, <1>6, <2>1 DEF AfterSave
    <3>2. u.files[g] = s.world /\ u.points[g] = point BY <1>1, <2>1, <3>1
    <3>3. point \in Checkpoint /\ point.tick = s.world.tick /\ point.waits = s.waits
      BY <1>1 DEF Checkpoint
    <3>4. s.world # NoSave /\ point # NoSave BY <1>1, <3>3, NoSaveAssumption
    <3> HIDE DEF point
    <3> QED BY <1>3, <1>5, <2>1, <3>2, <3>3, <3>4
  <2>2. CASE ~(due /\ g = f)
    <3>1. u.files[g] = s.files[g] /\ u.points[g] = s.points[g]
      <4>1. CASE due
        <5>1. /\ u.files = [s.files EXCEPT ![f] = s.world]
              /\ u.points = [s.points EXCEPT ![f] = point]
          BY <1>2, <1>6, <4>1 DEF AfterSave
        <5> QED BY <1>1, <2>2, <4>1, <5>1
      <4>2. CASE ~due BY <1>2, <1>6, <4>2 DEF AfterSave, SameFiles
      <4> QED BY <4>1, <4>2
    <3> QED BY <1>5, <2>2, <3>1 DEF Follows
  <2> QED BY <2>1, <2>2
<1> QED BY <1>2, <1>3, <1>4, <1>7, <1>8, <1>9 DEF Follows, u, j

LEMMA ResyncedFollows ==
  ASSUME NEW s, NEW t, Good(s, t), NEW k \in Course, Follows(s, k),
         s.state = "play", NEW c, Since(s, c) \in Nat
  PROVE  Follows(Resynced(s, c), CourseResynced(k, CourseSince(k, c)))
<1> DEFINE u == Resynced(s, c)
           since == Since(s, c)
           flip == k.flip \/ k.saved >= since
           f == IF flip THEN 1 - k.slot ELSE k.slot
           back == ~k.final /\ k.has[f]
           j == CourseResynced(k, since)
<1>1. s \in Session /\ s.slot \in Slot BY DEF Good, Session
<1>2. /\ s.world.tick = k.tick /\ s.slot = k.slot /\ (s.flip <=> k.flip)
      /\ (s.final <=> k.final) /\ s.saved = k.saved /\ s.due = k.due
      /\ ~s.world.wrong => s.waits = k.waits
  BY DEF Follows
<1>3. f \in Slot BY <1>1, <1>2 DEF Slot
<1>4. (Flips(s, since) <=> flip) /\ SlotTaken(s, since) = f
  BY <1>2 DEF Flips, SlotTaken
<1>5. GoesBack(s, since) <=> back BY <1>2, <1>3, <1>4 DEF GoesBack, Follows
<1>6. /\ u.files = s.files /\ u.points = s.points
      /\ u.flip <=> back \/ flip
      /\ u.final <=> s.final \/ flip
      /\ u.slot = (IF s.final THEN s.slot ELSE f)
      /\ u.state = (IF back THEN "play" ELSE "over")
      /\ back => /\ u.world = s.files[f] /\ u.waits = s.points[f].waits
                 /\ u.saved = u.world.tick /\ u.due = u.world.tick + SavePeriod
      /\ ~back => u.world = s.world /\ u.waits = s.waits /\ u.saved = s.saved /\ u.due = s.due
  BY <1>4, <1>5, ResyncedFields
<1>7. /\ j.tick = (IF back THEN k.when[f] ELSE k.tick)
      /\ j.slot = (IF k.final THEN k.slot ELSE f)
      /\ (j.flip <=> (back \/ flip)) /\ (j.final <=> (k.final \/ flip))
      /\ j.saved = (IF back THEN k.when[f] ELSE k.saved)
      /\ j.due = (IF back THEN k.when[f] + SavePeriod ELSE k.due) /\ (j.over <=> ~back)
      /\ j.has = k.has /\ j.when = k.when /\ j.kept = k.kept
      /\ j.waits = (IF back THEN k.kept[f] ELSE k.waits)
  BY DEF CourseResynced
<1>8. back => /\ s.files[f].tick = k.when[f]
              /\ ~s.files[f].wrong => s.points[f].waits = k.kept[f]
  BY <1>3 DEF Follows
<1> HIDE DEF u, j, f, back, flip, since
<1>9. /\ u.world.tick = j.tick /\ u.saved = j.saved /\ u.due = j.due
      /\ ~u.world.wrong => u.waits = j.waits
  BY <1>2, <1>6, <1>7, <1>8
<1>10. /\ u.slot = j.slot /\ (u.flip <=> j.flip) /\ (u.final <=> j.final)
       /\ (u.state # "play" <=> j.over)
  BY <1>2, <1>6, <1>7
<1>11. \A g \in Slot :
         /\ u.files[g] # NoSave <=> j.has[g]
         /\ u.points[g] # NoSave <=> j.has[g]
         /\ j.has[g] => /\ u.files[g].tick = j.when[g] /\ u.points[g].tick = j.when[g]
                        /\ ~u.files[g].wrong => u.points[g].waits = j.kept[g]
  BY <1>6, <1>7 DEF Follows
<1>12. Follows(Resynced(s, c), CourseResynced(k, Since(s, c)))
  BY <1>9, <1>10, <1>11 DEF Follows, u, j, since
<1>13. Since(s, c) = CourseSince(k, c) BY <1>2 DEF Since, CourseSince
<1> QED BY <1>12, <1>13

-----------------------------------------------------------------------------
(* The courses at all places of the stream *)

Onward(k, j) == k.tick <= j.tick /\ (k.saved < k.tick => j.saved < j.tick)

LEMMA SteppedSound ==
  ASSUME NEW k \in Course, Sound(k), NEW c \in Packet
  PROVE  /\ Stepped(k, c) \in Course /\ Sound(Stepped(k, c))
         /\ c.kind = "tick" => Onward(k, Stepped(k, c))
<1>1. k.tick \in Nat /\ k.saved \in Nat BY DEF Course
<1>2. CASE k.over BY <1>1, <1>2 DEF Stepped, Onward
<1>3. CASE ~k.over /\ c.kind = "tick"
  <2>1. c.script \in Script BY <1>3 DEF Packet
  <2> DEFINE j == CourseTicked(k, c.script)
  <2>2. Stepped(k, c) = j BY <1>3 DEF Stepped
  <2>3. j \in Course /\ Sound(j) BY <1>3, <2>1, CourseTickedSound
  <2>4. j.tick = k.tick + 1 /\ j.saved \in {k.saved, k.tick} BY DEF CourseTicked
  <2> HIDE DEF j
  <2>5. Onward(k, j) BY <1>1, <2>4 DEF Onward, Sound
  <2> QED BY <2>2, <2>3, <2>5
<1>4. CASE ~k.over /\ c.kind # "tick"
  <2>1. CourseSince(k, c) \in Nat BY <1>1, <1>4 DEF Packet, CourseSince
  <2>2. Stepped(k, c) = CourseResynced(k, CourseSince(k, c)) BY <1>4 DEF Stepped
  <2> QED BY <1>3, <1>4, <2>1, <2>2, CourseResyncedSound
<1> QED BY <1>2, <1>3, <1>4

Ticks(st, i, j) == \A l \in i + 1 .. j : st[l].kind = "tick"

\* r is the course from before the first packet of st to after its last one.
Runs(r, st) ==
  /\ r \in [0 .. Len(st) -> Course]
  /\ \A i \in 0 .. Len(st) : Sound(r[i])
  /\ \A i \in 1 .. Len(st) : r[i] = Stepped(r[i - 1], st[i])
  /\ \A i, j \in 0 .. Len(st) : (i <= j /\ Ticks(st, i, j)) => Onward(r[i], r[j])

LEMMA RunsAppend ==
  ASSUME NEW st \in Seq(Packet), NEW r, Runs(r, st), NEW c \in Packet
  PROVE  LET n == Len(st)
             q == [i \in 0 .. n + 1 |-> IF i <= n THEN r[i] ELSE Stepped(r[n], c)]
         IN Runs(q, Append(st, c))
<1> DEFINE n == Len(st)
           k == Stepped(r[n], c)
           q == [i \in 0 .. n + 1 |-> IF i <= n THEN r[i] ELSE k]
           sd == Append(st, c)
<1>1. n \in Nat /\ Len(sd) = n + 1 /\ sd[n + 1] = c /\ \A i \in 1 .. n : sd[i] = st[i]
  OBVIOUS
<1>2. r \in [0 .. n -> Course] /\ r[n] \in Course /\ Sound(r[n]) BY <1>1 DEF Runs
<1>3. k \in Course /\ Sound(k) /\ (c.kind = "tick" => Onward(r[n], k))
  BY <1>2, SteppedSound
<1>4. /\ q[n + 1] = k /\ \A i \in 0 .. n : q[i] = r[i]
      /\ DOMAIN q = 0 .. n + 1
  BY <1>1
<1>5. q \in [0 .. n + 1 -> Course] BY <1>1, <1>2, <1>3
<1>6. k = Stepped(r[n], c) OBVIOUS
<1> HIDE DEF k, q, sd, n
<1>7. \A i \in 0 .. n + 1 : i \in 0 .. n \/ i = n + 1 BY <1>1
<1>8. \A i \in 0 .. n + 1 : Sound(q[i])
  BY <1>3, <1>4, <1>7 DEF Runs, n
<1>9. ASSUME NEW i \in 1 .. n + 1 PROVE q[i] = Stepped(q[i - 1], sd[i])
  <2>1. CASE i = n + 1
    <3>1. i - 1 = n /\ n \in 0 .. n BY <1>1, <2>1
    <3> QED BY <1>1, <1>4, <1>6, <2>1, <3>1
  <2>2. CASE i # n + 1
    <3>1. i \in 1 .. n /\ i \in 0 .. n /\ i - 1 \in 0 .. n BY <1>1, <2>2
    <3>2. r[i] = Stepped(r[i - 1], st[i]) BY <3>1 DEF Runs, n
    <3> QED BY <1>1, <1>4, <3>1, <3>2
  <2> QED BY <2>1, <2>2
<1>10. ASSUME NEW i \in 0 .. n + 1, NEW j \in 0 .. n + 1, i <= j, Ticks(sd, i, j)
       PROVE  Onward(q[i], q[j])
  <2>1. CASE j \in 0 .. n
    <3>1. i \in 0 .. n BY <1>1, <1>10, <2>1
    <3>2. Ticks(st, i, j)
      <4>1. ASSUME NEW l \in i + 1 .. j PROVE st[l].kind = "tick"
        <5>1. l \in 1 .. n BY <1>1, <2>1, <3>1, <4>1
        <5>2. sd[l].kind = "tick" BY <1>10, <4>1 DEF Ticks
        <5> QED BY <1>1, <5>1, <5>2
      <4> QED BY <4>1 DEF Ticks
    <3>3. Onward(r[i], r[j]) BY <1>10, <2>1, <3>1, <3>2 DEF Runs, n
    <3> QED BY <1>4, <2>1, <3>1, <3>3
  <2>2. CASE j = n + 1 /\ i \in 0 .. n
    <3>1. n + 1 \in i + 1 .. j /\ n \in 0 .. n /\ i <= n BY <1>1, <2>2
    <3>2. c.kind = "tick" BY <1>1, <1>10, <3>1 DEF Ticks
    <3>3. Ticks(st, i, n)
      <4>1. ASSUME NEW l \in i + 1 .. n PROVE st[l].kind = "tick"
        <5>1. l \in 1 .. n /\ l \in i + 1 .. j BY <1>1, <2>2, <4>1
        <5>2. sd[l].kind = "tick" BY <1>10, <5>1 DEF Ticks
        <5> QED BY <1>1, <5>1, <5>2
      <4> QED BY <4>1 DEF Ticks
    <3>4. Onward(r[i], r[n]) BY <2>2, <3>1, <3>3 DEF Runs, n
    <3>5. Onward(r[n], k) BY <1>3, <3>2
    <3>6. r[i] \in Course /\ r[n] \in Course /\ k \in Course BY <1>2, <1>3, <2>2
    <3>7. Onward(r[i], k)
      <4>1. r[i].tick \in Nat /\ r[n].tick \in Nat /\ k.tick \in Nat BY <3>6 DEF Course
      <4> QED BY <3>4, <3>5, <4>1 DEF Onward
    <3> QED BY <1>4, <2>2, <3>7
  <2>3. CASE j = n + 1 /\ i = n + 1
    <3>1. q[i].tick \in Nat BY <1>3, <1>4, <2>3 DEF Course
    <3> QED BY <2>3, <3>1 DEF Onward
  <2> QED BY <1>7, <2>1, <2>2, <2>3
<1>11. Runs(q, sd) BY <1>1, <1>5, <1>8, <1>9, <1>10 DEF Runs
<1> QED BY <1>11 DEF q, sd, n, k

LEMMA RunsTail ==
  ASSUME NEW st \in Seq(Packet), st # << >>, NEW r, Runs(r, st)
  PROVE  LET q == [i \in 0 .. Len(st) - 1 |-> r[i + 1]]
         IN Runs(q, Tail(st))
<1> DEFINE n == Len(st)
           q == [i \in 0 .. n - 1 |-> r[i + 1]]
           sd == Tail(st)
<1>1. n \in Nat /\ n > 0 /\ Len(sd) = n - 1 /\ \A i \in 1 .. n - 1 : sd[i] = st[i + 1]
  OBVIOUS
<1>2. r \in [0 .. n -> Course] BY DEF Runs
<1>3. \A i \in 0 .. n - 1 : q[i] = r[i + 1] /\ i + 1 \in 0 .. n BY <1>1
<1>4. q \in [0 .. n - 1 -> Course] BY <1>1, <1>2
<1> HIDE DEF q, sd, n
<1>5. \A i \in 0 .. n - 1 : Sound(q[i]) BY <1>3 DEF Runs, n
<1>6. ASSUME NEW i \in 1 .. n - 1 PROVE q[i] = Stepped(q[i - 1], sd[i])
  <2>1. i \in 0 .. n - 1 /\ i - 1 \in 0 .. n - 1 /\ i + 1 \in 1 .. n /\ (i - 1) + 1 = (i + 1) - 1
    BY <1>1
  <2>2. r[i + 1] = Stepped(r[(i + 1) - 1], st[i + 1]) BY <2>1 DEF Runs, n
  <2> QED BY <1>1, <1>3, <2>1, <2>2
<1>7. ASSUME NEW i \in 0 .. n - 1, NEW j \in 0 .. n - 1, i <= j, Ticks(sd, i, j)
      PROVE  Onward(q[i], q[j])
  <2>1. i + 1 \in 0 .. n /\ j + 1 \in 0 .. n /\ i + 1 <= j + 1 BY <1>1, <1>7
  <2>2. Ticks(st, i + 1, j + 1)
    <3>1. ASSUME NEW l \in (i + 1) + 1 .. j + 1 PROVE st[l].kind = "tick"
      <4>1. l - 1 \in i + 1 .. j /\ l - 1 \in 1 .. n - 1 /\ (l - 1) + 1 = l BY <1>1, <3>1
      <4>2. sd[l - 1].kind = "tick" BY <1>7, <4>1 DEF Ticks
      <4> QED BY <1>1, <4>1, <4>2
    <3> QED BY <3>1 DEF Ticks
  <2>3. Onward(r[i + 1], r[j + 1]) BY <2>1, <2>2 DEF Runs, n
  <2> QED BY <1>3, <2>3
<1>8. Runs(q, sd) BY <1>1, <1>4, <1>5, <1>6, <1>7 DEF Runs
<1> QED BY <1>8 DEF q, sd, n

\* A report is of a tick that is past on the course, and so is the last save: then
\* the file that a resync takes is from further back than the last tick but one.
Before(since, k) == since < k.tick /\ k.saved < k.tick

HasResync(st) == \E i \in DOMAIN st : st[i].kind = "resync"

Told(r, st, reports) ==
  /\ ~HasResync(st) => \A since \in reports : Before(since, r[Len(st)])
  /\ \A i \in 1 .. Len(st) :
       (st[i].kind = "resync" /\ st[i].since # NoReport) => Before(st[i].since, r[i - 1])

LEMMA BeforeOnward ==
  ASSUME NEW k \in Course, NEW j \in Course, NEW since \in Nat, Before(since, k), Onward(k, j)
  PROVE  Before(since, j)
<1>1. k.tick \in Nat /\ j.tick \in Nat BY DEF Course
<1> QED BY <1>1 DEF Before, Onward

LEMMA NoResync ==
  ASSUME NEW st \in Seq(Packet), ~HasResync(st), NEW i \in Nat, NEW j \in 0 .. Len(st)
  PROVE  Ticks(st, i, j)
<1>1. ASSUME NEW l \in i + 1 .. j PROVE st[l].kind = "tick"
  <2>1. l \in 1 .. Len(st) /\ l \in DOMAIN st OBVIOUS
  <2>2. st[l] \in Packet /\ st[l].kind # "resync" BY <2>1 DEF HasResync
  <2> QED BY <2>2 DEF Packet
<1> QED BY <1>1 DEF Ticks

LEMMA ToldAppend ==
  ASSUME NEW st \in Seq(Packet), NEW r, Runs(r, st), NEW c \in Packet, ~HasResync(st),
         NEW reports \in SUBSET Nat, Told(r, st, reports),
         c.kind = "resync" => c.since \in reports \cup {NoReport}
  PROVE  LET n == Len(st)
             q == [i \in 0 .. n + 1 |-> IF i <= n THEN r[i] ELSE Stepped(r[n], c)]
         IN Told(q, Append(st, c), IF c.kind = "resync" THEN {} ELSE reports)
<1> DEFINE n == Len(st)
           k == Stepped(r[n], c)
           q == [i \in 0 .. n + 1 |-> IF i <= n THEN r[i] ELSE k]
           sd == Append(st, c)
<1>1. n \in Nat /\ Len(sd) = n + 1 /\ sd[n + 1] = c /\ \A i \in 1 .. n : sd[i] = st[i]
  OBVIOUS
<1>2. r[n] \in Course /\ Sound(r[n]) BY <1>1 DEF Runs
<1>3. k \in Course /\ (c.kind = "tick" => Onward(r[n], k)) BY <1>2, SteppedSound
<1>4. q[n + 1] = k /\ \A i \in 0 .. n : q[i] = r[i] BY <1>1
<1> HIDE DEF k, q, sd
<1>5. \A since \in reports : Before(since, r[n]) BY DEF Told
<1>6. ASSUME c.kind = "tick" PROVE \A since \in reports : Before(since, q[n + 1])
  BY <1>2, <1>3, <1>4, <1>5, <1>6, BeforeOnward
<1>7. ASSUME NEW i \in 1 .. n + 1, sd[i].kind = "resync", sd[i].since # NoReport
      PROVE  Before(sd[i].since, q[i - 1])
  <2>1. CASE i = n + 1
    <3>1. i - 1 = n /\ n \in 0 .. n BY <1>1, <2>1
    <3> QED BY <1>1, <1>4, <1>5, <1>7, <2>1, <3>1
  <2>2. CASE i # n + 1
    <3>1. i \in DOMAIN st /\ st[i].kind = "resync" BY <1>1, <1>7, <2>2
    <3> QED BY <3>1 DEF HasResync
  <2> QED BY <2>1, <2>2
<1>8. c.kind = "tick" \/ c.kind = "resync" BY DEF Packet
<1>9. Told(q, sd, IF c.kind = "resync" THEN {} ELSE reports)
  BY <1>1, <1>6, <1>7, <1>8 DEF Told
<1> QED BY <1>9 DEF q, sd, k

LEMMA ToldTail ==
  ASSUME NEW st \in Seq(Packet), st # << >>, NEW r, NEW reports, Told(r, st, reports),
         HasResync(st) => reports = {}
  PROVE  LET q == [i \in 0 .. Len(st) - 1 |-> r[i + 1]]
         IN Told(q, Tail(st), reports)
<1> DEFINE n == Len(st)
           q == [i \in 0 .. n - 1 |-> r[i + 1]]
           sd == Tail(st)
<1>1. n \in Nat /\ n > 0 /\ Len(sd) = n - 1 /\ \A i \in 1 .. n - 1 : sd[i] = st[i + 1]
  OBVIOUS
<1>2. \A i \in 0 .. n - 1 : q[i] = r[i + 1] BY <1>1
<1> HIDE DEF q, sd
<1>3. n - 1 \in 0 .. n - 1 /\ (n - 1) + 1 = n BY <1>1
<1>4. \A since \in reports : Before(since, q[n - 1])
  BY <1>2, <1>3 DEF Told
<1>5. ASSUME NEW i \in 1 .. n - 1, sd[i].kind = "resync", sd[i].since # NoReport
      PROVE  Before(sd[i].since, q[i - 1])
  <2>1. i + 1 \in 1 .. n /\ i - 1 \in 0 .. n - 1 /\ (i - 1) + 1 = (i + 1) - 1 BY <1>1
  <2>2. Before(st[i + 1].since, r[(i + 1) - 1]) BY <1>1, <1>5, <2>1 DEF Told
  <2> QED BY <1>1, <1>2, <2>1, <2>2
<1>6. Told(q, sd, reports) BY <1>1, <1>4, <1>5 DEF Told
<1> QED BY <1>6 DEF q, sd

-----------------------------------------------------------------------------
(* All peers on one course *)

OnCourse(r) ==
  /\ Runs(r, stream)
  /\ \A p \in Peer \ odd : Follows(session[p], r[at[p]])
  /\ odd = {} => Told(r, stream, reported)

CourseInv ==
  /\ Inv
  /\ \A p \in Peer : at[p] <= Len(stream)
  /\ \A p \in Peer : Upright(session[p])
  /\ HasResync(stream) => reported = {}
  /\ \E r : OnCourse(r)

LEMMA CourseInit == Init => CourseInv
<1> SUFFICES ASSUME Init PROVE CourseInv OBVIOUS
<1>1. PICK due \in FirstDue : session = [p \in Peer |-> NewSession(due)] BY DEF Init
<1> DEFINE s == NewSession(due)
           k == [tick |-> 0, slot |-> 0, flip |-> FALSE, final |-> FALSE, saved |-> 0, due |-> due,
                 over |-> FALSE, has |-> [f \in Slot |-> FALSE], when |-> [f \in Slot |-> 0],
                 kept |-> [f \in Slot |-> NoWaits], waits |-> NoWaits]
           r == [i \in 0 .. 0 |-> k]
<1>2. due \in Nat BY NumbersAssumption
<1>3. NoWaits \in Waits /\ Held(NoWaits) BY NoWaitsHeld DEF Held
<1>4. stream = << >> /\ Len(stream) = 0 /\ reported = {} /\ \A p \in Peer : at[p] = 0
  BY DEF Init
<1>5. k \in Course BY <1>2, <1>3 DEF Course, Slot
<1>6. Sound(k) BY <1>2, <1>3 DEF Sound, Slot
<1>7. /\ s.world = [tick |-> 0, wrong |-> FALSE, mode |-> "own"] /\ s.waits = NoWaits
      /\ s.files = [f \in Slot |-> NoSave] /\ s.points = [f \in Slot |-> NoSave]
      /\ s.slot = 0 /\ s.flip = FALSE /\ s.final = FALSE /\ s.saved = 0 /\ s.due = due
      /\ s.out = FALSE /\ s.state = "play"
  BY DEF NewSession
<1>8. Follows(s, k) BY <1>7 DEF Follows
<1>9. Upright(s)
  <2>1. /\ NoWaits.path.tracked = FALSE /\ NoWaits.path.active = FALSE
        /\ NoWaits.motion.paused = FALSE
    BY DEF NoWaits, NoPath, NoMotion
  <2>2. Framed(NoWaits, "own", 0) BY <2>1 DEF Framed
  <2>3. Filmed(s) BY <1>7, <2>2 DEF Filmed
  <2>4. Timed(s) BY <1>7 DEF Timed
  <2> QED BY <2>3, <2>4 DEF Upright
<1> HIDE DEF k, s
<1>10. r \in [0 .. 0 -> Course] /\ r[0] = k /\ (\A i \in 0 .. 0 : i = 0) BY <1>5
<1> HIDE DEF r
<1>11. Onward(k, k) BY <1>5 DEF Onward, Course
<1>12. Runs(r, stream)
  <2>1. \A i, j \in 0 .. 0 : Onward(r[i], r[j]) BY <1>10, <1>11
  <2>2. \A i \in 0 .. 0 : Sound(r[i]) BY <1>6, <1>10
  <2> QED BY <1>4, <1>10, <2>1, <2>2 DEF Runs
<1>13. Told(r, stream, reported) BY <1>4 DEF Told
<1>14. OnCourse(r) BY <1>1, <1>4, <1>8, <1>10, <1>12, <1>13 DEF OnCourse, s
<1> QED BY <1>1, <1>4, <1>9, <1>14, InitInv DEF CourseInv, HasResync, s

LEMMA ResyncingHas == ASSUME Inv PROVE Resyncing <=> HasResync(stream)
BY DEF Resyncing, HasResync

\* The host sends a packet: the course goes on by one.
LEMMA CourseSends ==
  ASSUME CourseInv, HostSends
  PROVE  CourseInv'
<1>1. PICK r : OnCourse(r) BY DEF CourseInv
<1>2. stream \in Seq(Packet) /\ reported \in SUBSET Nat /\ ~HasResync(stream)
  <2>1. stream \in Seq(Packet) /\ reported \in SUBSET Nat BY DEF CourseInv, Inv, TypeOK
  <2> QED BY <2>1, ResyncingHas DEF HostSends, OrderTick, OrderResync, Send, CourseInv
<1>3. PICK c \in Packet :
        /\ stream' = Append(stream, c) /\ UNCHANGED <<at, session, odd>>
        /\ reported' = IF c.kind = "resync" THEN {} ELSE reported
        /\ c.kind = "resync" => c.since \in reported \cup {NoReport}
  <2>1. CASE \E c \in TickPackets : OrderTick(c)
    <3>1. PICK c \in TickPackets : OrderTick(c) BY <2>1
    <3>2. session[Host].world.tick \in Nat
      BY HostAssumption DEF CourseInv, Inv, TypeOK, Session, World
    <3>3. c \in Packet /\ c.kind = "tick"
      BY <3>2, BoundsAssumption DEF TickPackets, Packet
    <3> QED BY <3>1, <3>3 DEF OrderTick, Send
  <2>2. CASE \E c \in ResyncPackets : OrderResync(c)
    <3>1. PICK c \in ResyncPackets : OrderResync(c) BY <2>2
    <3>2. c \in Packet /\ c.kind = "resync" BY <1>2 DEF ResyncPackets, Packet
    <3> QED BY <3>1, <3>2 DEF OrderResync, Send
  <2> QED BY <2>1, <2>2 DEF HostSends
<1> DEFINE n == Len(stream)
           q == [i \in 0 .. n + 1 |-> IF i <= n THEN r[i] ELSE Stepped(r[n], c)]
<1>4. Runs(q, Append(stream, c)) BY <1>1, <1>2, RunsAppend DEF OnCourse
<1>5. odd = {} => Told(q, Append(stream, c), IF c.kind = "resync" THEN {} ELSE reported)
  BY <1>1, <1>2, <1>3, ToldAppend DEF OnCourse
<1>6. n \in Nat /\ \A i \in 0 .. n : q[i] = r[i] BY <1>2
<1>7. \A p \in Peer : at[p] \in 0 .. n
  <2>1. at \in [Peer -> Nat] BY DEF CourseInv, Inv, TypeOK
  <2> QED BY <1>6, <2>1 DEF CourseInv
<1>8. Len(stream') = n + 1 /\ \A i \in 1 .. n : stream'[i] = stream[i] BY <1>2, <1>3
<1>9. stream'[n + 1] = c BY <1>2, <1>3
<1>10. HasResync(stream') => reported' = {}
  <2>1. ASSUME HasResync(stream') PROVE c.kind = "resync"
    <3>1. PICK i \in DOMAIN stream' : stream'[i].kind = "resync" BY <2>1 DEF HasResync
    <3>2. stream' \in Seq(Packet) BY <1>2, <1>3
    <3>3. i \in 1 .. n + 1 BY <1>8, <3>1, <3>2
    <3>4. CASE i \in 1 .. n
      <4>1. i \in DOMAIN stream /\ stream[i].kind = "resync" BY <1>2, <1>8, <3>1, <3>4
      <4> QED BY <1>2, <4>1 DEF HasResync
    <3>5. CASE i = n + 1 BY <1>9, <3>1, <3>5
    <3> QED BY <1>6, <3>3, <3>4, <3>5
  <2> QED BY <1>3, <2>1
<1> HIDE DEF q
<1>11. \A p \in Peer \ odd : Follows(session[p], q[at[p]])
  BY <1>1, <1>6, <1>7 DEF OnCourse
<1>12. (\E f : OnCourse(f))'
  <2>1. PICK f : f = q OBVIOUS
  <2>2. OnCourse(f)' BY <1>3, <1>4, <1>5, <1>11, <2>1 DEF OnCourse
  <2> QED BY <2>2
<1>13. \A p \in Peer : at'[p] <= Len(stream')
  BY <1>3, <1>6, <1>7, <1>8
<1>14. Inv' BY HostSendsInv DEF CourseInv
<1>15. \A p \in Peer : Upright(session'[p]) BY <1>3 DEF CourseInv
<1> QED BY <1>10, <1>12, <1>13, <1>14, <1>15 DEF CourseInv

Ahead(p) == [at EXCEPT ![p] = at[p] + 1]

\* A peer alone changes, staying on the course if it is still compared with others.
LEMMA OneFollows ==
  ASSUME CourseInv, NEW r, OnCourse(r), NEW p \in Peer, NEW u, Upright(u),
         session' = [session EXCEPT ![p] = u], odd \subseteq odd',
         p \notin odd' => Follows(u, r[Ahead(p)[p]])
  PROVE  /\ \A q \in Peer : Upright(session'[q])
         /\ \A q \in Peer \ odd' : Follows(session'[q], r[Ahead(p)[q]])
<1>1. session \in [Peer -> Session] /\ at \in [Peer -> Nat] BY DEF CourseInv, Inv, TypeOK
<1>2. ASSUME NEW q \in Peer, q # p PROVE session'[q] = session[q] /\ Ahead(p)[q] = at[q]
  BY <1>1, <1>2 DEF Ahead
<1>3. session'[p] = u BY <1>1
<1> QED BY <1>2, <1>3 DEF CourseInv, OnCourse

\* What one peer makes of its next packet.
LEMMA CourseHandles ==
  ASSUME CourseInv, NEW r, OnCourse(r), NEW p \in Peer, Process(p)
  PROVE  /\ \A q \in Peer : Upright(session'[q])
         /\ \A q \in Peer \ odd' : Follows(session'[q], r[Ahead(p)[q]])
         /\ odd' = {} => Told(r, stream, reported')
         /\ HasResync(stream) => reported' = {}
<1> DEFINE s == session[p]
           t == truth[p]
           i == at[p]
           c == stream[i + 1]
           k == r[i]
<1>1. /\ session \in [Peer -> Session] /\ at \in [Peer -> Nat] /\ stream \in Seq(Packet)
      /\ reported \in SUBSET Nat /\ odd \subseteq Peer
  BY DEF CourseInv, Inv, TypeOK
<1>2. Good(s, t) /\ Upright(s) /\ s.state = "play" /\ i \in Nat /\ i < Len(stream)
  BY <1>1 DEF CourseInv, Inv, Process
<1>3. Len(stream) \in Nat /\ i \in 0 .. Len(stream) /\ i + 1 \in 1 .. Len(stream) /\ c \in Packet
  BY <1>1, <1>2
<1>4. /\ r \in [0 .. Len(stream) -> Course] /\ k \in Course /\ Sound(k)
      /\ r[i + 1] = Stepped(k, c)
  <2>1. r[i + 1] = Stepped(r[(i + 1) - 1], c) BY <1>1, <1>3 DEF OnCourse, Runs
  <2>2. (i + 1) - 1 = i BY <1>2
  <2> QED BY <1>3, <2>1, <2>2 DEF OnCourse, Runs
<1>5. Ahead(p)[p] = i + 1 BY <1>1 DEF Ahead
<1>6. p \notin odd => Follows(s, k) /\ ~k.over
  <2>1. p \notin odd => Follows(s, k) BY DEF OnCourse
  <2> QED BY <1>2, <2>1 DEF Follows
<1>7. ProcessTick(p, c) \/ ProcessResync(p, c) BY DEF Process
<1> HIDE DEF c, k, i
<1>8. CASE c.kind = "tick"
  <2>1. ProcessTick(p, c) BY <1>7, <1>8 DEF ProcessResync
  <2>2. PICK outcome \in IF p \in Failing THEN {"ok", "kept", "lost"} ELSE {"ok"},
             script \in IF s.world.wrong THEN Scripts ELSE {c.script},
             veto \in IF c.script.kind = "path" THEN BOOLEAN ELSE {FALSE} :
          /\ session' = [session EXCEPT ![p] = Ticked(s, c, outcome, script, veto)]
          /\ odd' = IF SaveDue(s) /\ outcome # "ok" THEN odd \cup {p} ELSE odd
    BY <2>1 DEF ProcessTick
  <2>3. c.script \in Script BY <1>3, <1>8 DEF Packet
  <2>4. script \in Script /\ (~s.world.wrong => script = c.script)
    BY <2>2, <2>3, BoundsAssumption
  <2> DEFINE u == Ticked(s, c, outcome, script, veto)
  <2>5. Upright(u) BY <1>2, <2>4, TickedUpright
  <2>6. p \notin odd' => Follows(u, r[Ahead(p)[p]])
    <3>1. ASSUME p \notin odd' PROVE Follows(u, r[Ahead(p)[p]])
      <4>1. p \notin odd /\ (~SaveDue(s) \/ outcome = "ok") BY <2>2, <3>1
      <4>2. Follows(u, CourseTicked(k, c.script))
        BY <1>2, <1>4, <1>6, <2>3, <2>4, <4>1, TickedFollows
      <4>3. Stepped(k, c) = CourseTicked(k, c.script) BY <1>6, <1>8, <4>1 DEF Stepped
      <4> QED BY <1>4, <1>5, <4>2, <4>3
    <3> QED BY <3>1
  <2>7. session' = [session EXCEPT ![p] = u] /\ odd \subseteq odd' BY <2>2
  <2> HIDE DEF u
  <2>8. /\ \A q \in Peer : Upright(session'[q])
        /\ \A q \in Peer \ odd' : Follows(session'[q], r[Ahead(p)[q]])
    <3>1. PICK v : v = u OBVIOUS
    <3>2. Upright(v) /\ session' = [session EXCEPT ![p] = v] /\ (p \notin odd' => Follows(v, r[Ahead(p)[p]]))
      BY <2>5, <2>6, <2>7, <3>1
    <3> QED BY <2>7, <3>2, OneFollows
  <2>9. reported' = reported \cup Reports(p) BY <2>1 DEF ProcessTick
  <2>10. HasResync(stream) => reported' = {}
    <3>1. HasResync(stream) => Reports(p) = {} BY ResyncingHas DEF Reports, CourseInv
    <3> QED BY <2>9, <3>1 DEF CourseInv
  <2>11. ASSUME odd' = {} PROVE Told(r, stream, reported')
    <3>1. odd = {} BY <2>7, <2>11
    <3>2. Told(r, stream, reported) BY <3>1 DEF OnCourse
    <3>3. ASSUME ~HasResync(stream), NEW since \in reported'
          PROVE  Before(since, r[Len(stream)])
      <4>1. CASE since \in reported BY <3>2, <3>3, <4>1 DEF Told
      <4>2. CASE since \in Reports(p)
        <5>1. since = s.since /\ s.out BY <4>2 DEF Reports
        <5>2. s.world.tick = k.tick /\ s.saved = k.saved BY <1>6, <3>1 DEF Follows
        <5>3. Before(since, k) BY <1>2, <5>1, <5>2 DEF Upright, Timed, Before
        <5>4. Len(stream) \in 0 .. Len(stream) /\ i <= Len(stream) /\ Ticks(stream, i, Len(stream))
          BY <1>1, <1>2, <1>3, <3>3, NoResync
        <5>5. Onward(k, r[Len(stream)]) BY <1>3, <5>4 DEF OnCourse, Runs, k
        <5>6. since \in Nat BY <1>1, <5>1 DEF Session
        <5>7. r[Len(stream)] \in Course BY <1>4, <5>4
        <5> QED BY <1>4, <5>3, <5>5, <5>6, <5>7, BeforeOnward
      <4> QED BY <2>9, <3>3, <4>1, <4>2
    <3> QED BY <3>2, <3>3 DEF Told
  <2> QED BY <2>8, <2>10, <2>11
<1>9. CASE c.kind = "resync"
  <2>1. ProcessResync(p, c) BY <1>7, <1>9 DEF ProcessTick
  <2>2. Since(s, c) \in Nat BY <1>2, <1>3, <1>9, SinceType
  <2> DEFINE u == Resynced(s, c)
  <2>3. Upright(u) BY <1>2, <2>2, ResyncedUpright
  <2>4. session' = [session EXCEPT ![p] = u] /\ odd' = odd /\ reported' = reported
    BY <2>1 DEF ProcessResync
  <2>5. p \notin odd' => Follows(u, r[Ahead(p)[p]])
    <3>1. ASSUME p \notin odd' PROVE Follows(u, r[Ahead(p)[p]])
      <4>1. p \notin odd BY <2>4, <3>1
      <4>2. Follows(u, CourseResynced(k, CourseSince(k, c)))
        BY <1>2, <1>4, <1>6, <2>2, <4>1, ResyncedFollows
      <4>3. Stepped(k, c) = CourseResynced(k, CourseSince(k, c)) BY <1>6, <1>9, <4>1 DEF Stepped
      <4> QED BY <1>4, <1>5, <4>2, <4>3
    <3> QED BY <3>1
  <2> HIDE DEF u
  <2>6. /\ \A q \in Peer : Upright(session'[q])
        /\ \A q \in Peer \ odd' : Follows(session'[q], r[Ahead(p)[q]])
    <3>1. PICK v : v = u OBVIOUS
    <3>2. Upright(v) /\ session' = [session EXCEPT ![p] = v] /\ (p \notin odd' => Follows(v, r[Ahead(p)[p]]))
      BY <2>3, <2>4, <2>5, <3>1
    <3>3. odd \subseteq odd' BY <2>4
    <3> QED BY <3>2, <3>3, OneFollows
  <2> QED BY <2>4, <2>6 DEF OnCourse, CourseInv
<1> QED BY <1>3, <1>8, <1>9 DEF Packet

LEMMA CourseProcess ==
  ASSUME CourseInv, NEW p \in Peer, Process(p)
  PROVE  CourseInv'
<1>1. PICK r : OnCourse(r) BY DEF CourseInv
<1> DEFINE n == Len(stream)
           on == Ahead(p)
           all == \A q \in Peer : on[q] > 0
<1>2. at \in [Peer -> Nat] /\ stream \in Seq(Packet) /\ n \in Nat BY DEF CourseInv, Inv, TypeOK
<1>3. /\ \A q \in Peer : Upright(session'[q])
      /\ \A q \in Peer \ odd' : Follows(session'[q], r[on[q]])
      /\ odd' = {} => Told(r, stream, reported')
      /\ HasResync(stream) => reported' = {}
  BY <1>1, CourseHandles
<1>4. /\ at' = IF all THEN [q \in Peer |-> on[q] - 1] ELSE on
      /\ stream' = IF all THEN Tail(stream) ELSE stream
      /\ at[p] < n
  BY DEF Process, Proceed, Ahead
<1>5. stream # << >> /\ n > 0 BY <1>2, <1>4
<1>6. \A q \in Peer : on[q] \in 0 .. n
  <2>1. \A q \in Peer : at[q] \in 0 .. n /\ (q # p => on[q] = at[q])
    BY <1>2 DEF CourseInv, Ahead
  <2>2. on[p] = at[p] + 1 BY <1>2 DEF Ahead
  <2> HIDE DEF on
  <2> QED BY <1>2, <1>4, <2>1, <2>2
<1>7. Inv' BY ProcessInv DEF CourseInv
<1>8. CASE ~all
  <2>1. at' = on /\ stream' = stream BY <1>4, <1>8
  <2> HIDE DEF on
  <2>2. OnCourse(r)' BY <1>1, <1>3, <2>1 DEF OnCourse
  <2> QED BY <1>3, <1>6, <1>7, <2>1, <2>2 DEF CourseInv
<1>9. CASE all
  <2> DEFINE q == [i \in 0 .. n - 1 |-> r[i + 1]]
  <2>1. at' = [z \in Peer |-> on[z] - 1] /\ stream' = Tail(stream) BY <1>4, <1>9
  <2>2. Runs(q, stream') BY <1>1, <1>2, <1>5, <2>1, RunsTail DEF OnCourse
  <2>3. odd' = {} => Told(q, stream', reported')
    BY <1>2, <1>3, <1>5, <2>1, ToldTail
  <2>4. \A z \in Peer : at'[z] \in 0 .. n - 1 /\ at'[z] + 1 = on[z]
    <3> HIDE DEF on
    <3> QED BY <1>2, <1>6, <1>9, <2>1
  <2>5. \A i \in 0 .. n - 1 : q[i] = r[i + 1] OBVIOUS
  <2> HIDE DEF q, on
  <2>6. \A z \in Peer \ odd' : Follows(session'[z], q[at'[z]])
    BY <1>3, <2>4, <2>5
  <2>7. (\E f : OnCourse(f))'
    <3>1. PICK f : f = q OBVIOUS
    <3>2. OnCourse(f)' BY <2>2, <2>3, <2>6, <3>1 DEF OnCourse
    <3> QED BY <3>2
  <2>8. Len(stream') = n - 1 /\ \A i \in 1 .. n - 1 : stream'[i] = stream[i + 1]
    BY <1>2, <1>5, <2>1
  <2>9. HasResync(stream') => HasResync(stream)
    <3>1. ASSUME HasResync(stream') PROVE HasResync(stream)
      <4>1. PICK i \in DOMAIN stream' : stream'[i].kind = "resync" BY <3>1 DEF HasResync
      <4>2. stream' \in Seq(Packet) BY <1>2, <1>5, <2>1
      <4>3. i \in 1 .. n - 1 BY <2>8, <4>1, <4>2
      <4>4. i + 1 \in DOMAIN stream /\ stream[i + 1].kind = "resync" BY <1>2, <2>8, <4>1, <4>3
      <4> QED BY <4>4 DEF HasResync
    <3> QED BY <3>1
  <2>10. \A z \in Peer : at'[z] <= Len(stream') BY <1>2, <2>4, <2>8
  <2> QED BY <1>3, <1>7, <2>7, <2>9, <2>10 DEF CourseInv
<1> QED BY <1>8, <1>9

\* A world goes wrong, or its camera leaves the path: the rota and the waits stay.
LEMMA CourseWorld ==
  ASSUME CourseInv, NEW p \in Peer, Diverge(p) \/ LeavePath(p)
  PROVE  CourseInv'
<1> DEFINE s == session[p]
<1>1. s \in Session /\ s.world \in World /\ session \in [Peer -> Session]
  BY DEF CourseInv, Inv, TypeOK, Session
<1>2. PICK world \in World :
        /\ session' = [session EXCEPT ![p] = [s EXCEPT !.world = world]]
        /\ world.tick = s.world.tick /\ (s.world.wrong => world.wrong)
        /\ world.mode = "path" => s.world.mode = "path" \/ s.waits.path.active
  <2>1. CASE Diverge(p)
    <3> DEFINE world == [s.world EXCEPT !.wrong = TRUE]
    <3>1. session' = [session EXCEPT ![p] = [s EXCEPT !.world = world]]
      BY <1>1, <2>1 DEF Diverge, Session
    <3>2. world \in World /\ world.tick = s.world.tick /\ world.wrong /\ world.mode = s.world.mode
      BY <1>1 DEF World
    <3> HIDE DEF world
    <3> QED BY <3>1, <3>2
  <2>2. CASE LeavePath(p)
    <3>1. PICK mode \in {Completed(s.waits, "path"), "own"} :
            session' = [session EXCEPT ![p].world.mode = mode]
      BY <2>2 DEF LeavePath
    <3> DEFINE world == [s.world EXCEPT !.mode = mode]
    <3>2. session' = [session EXCEPT ![p] = [s EXCEPT !.world = world]]
      BY <1>1, <3>1 DEF Session
    <3>3. mode \in Modes BY <3>1 DEF Completed, Modes
    <3>4. mode = "path" => s.waits.path.active BY <3>1 DEF Completed, Pending
    <3>5. world \in World /\ world.tick = s.world.tick /\ (world.wrong <=> s.world.wrong)
          /\ world.mode = mode
      BY <1>1, <3>3 DEF World
    <3> HIDE DEF world
    <3> QED BY <3>2, <3>4, <3>5
  <2> QED BY <2>1, <2>2
<1>3. PICK r : OnCourse(r) BY DEF CourseInv
<1> DEFINE u == [s EXCEPT !.world = world]
<1>4. /\ SameFiles(u, s) /\ SameReport(u, s) /\ u.waits = s.waits /\ u.world = world
  BY <1>1 DEF Session, SameFiles, SameReport
<1>5. session'[p] = u /\ \A q \in Peer : q # p => session'[q] = session[q]
  BY <1>1, <1>2
<1> HIDE DEF u
<1>6. Framed(u.waits, u.world.mode, u.world.tick)
  BY <1>2, <1>4 DEF CourseInv, Upright, Filmed, Framed
<1>7. Upright(u)
  BY <1>2, <1>4, <1>6 DEF CourseInv, Upright, Filmed, Timed, SameFiles, SameReport
<1>8. ASSUME p \notin odd PROVE Follows(u, r[at[p]])
  <2>1. Follows(s, r[at[p]]) BY <1>3, <1>8 DEF OnCourse
  <2> QED BY <1>2, <1>4, <2>1 DEF Follows, SameFiles
<1>9. UNCHANGED <<stream, at, reported, waited, truth, odd>> BY DEF Diverge, LeavePath
<1>10. OnCourse(r)' BY <1>3, <1>5, <1>8, <1>9 DEF OnCourse
<1>11. \A q \in Peer : Upright(session'[q]) BY <1>5, <1>7 DEF CourseInv
<1>12. Inv' BY DivergeInv, LeavePathInv DEF CourseInv
<1> QED BY <1>9, <1>10, <1>11, <1>12 DEF CourseInv

LEMMA CourseNext == CourseInv /\ [Next]_vars => CourseInv'
<1> SUFFICES ASSUME CourseInv, [Next]_vars PROVE CourseInv' OBVIOUS
<1>1. CASE HostSends BY <1>1, CourseSends
<1>2. CASE \E p \in Peer : Process(p) BY <1>2, CourseProcess
<1>3. CASE \E p \in Peer : Diverge(p) \/ LeavePath(p) BY <1>3, CourseWorld
<1>4. CASE UNCHANGED vars
  <2>1. Inv' BY <1>4, NextInv DEF CourseInv
  <2>2. PICK r : OnCourse(r) BY DEF CourseInv
  <2>3. OnCourse(r)' BY <1>4, <2>2 DEF vars, OnCourse
  <2> QED BY <1>4, <2>1, <2>3 DEF vars, CourseInv
<1> QED BY <1>1, <1>2, <1>3, <1>4 DEF Next

-----------------------------------------------------------------------------
(* Theorems *)

\* The variables keep their types, budgets of ticks never negative, whatever the
\* numbers, the peers and what scripts do.
THEOREM Types == Spec => []TypeOK
<1>1. Inv => TypeOK BY DEF Inv
<1> QED BY InitInv, NextInv, <1>1, PTL DEF Spec

\* No reload aborts: every file has the checkpoint of its moment.
THEOREM Checkpoints == Spec => []CheckpointMatches
<1>1. Inv => CheckpointMatches BY DEF Inv, CheckpointMatches, Good, Matches
<1> QED BY InitInv, NextInv, <1>1, PTL DEF Spec

\* A reload brings back a world with the waits of the same moment.
THEOREM Reloads == Spec => ReloadsWaits
<1> DEFINE A(p) == LET t == session'[p]
                   IN Reloading(p) /\ t.state # "over"
                        => t.world = t.files[t.slot] /\ t.waits = truth[p][t.slot]
<1>1. ASSUME Inv, Next, NEW p \in Peer, Reloading(p), session'[p].state # "over"
      PROVE  session'[p].world = session'[p].files[session'[p].slot]
               /\ session'[p].waits = truth[p][session'[p].slot]
  <2>1. session \in [Peer -> Session] BY <1>1 DEF Inv, TypeOK
  <2>2. PICK q \in Peer : Process(q)
    BY <1>1 DEF Next, HostSends, OrderTick, OrderResync, Diverge, LeavePath, Reloading
  <2>3. q = p
    <3>1. ASSUME q # p PROVE session'[p] = session[p]
      BY <2>1, <2>2, <3>1 DEF Process, ProcessTick, ProcessResync
    <3> QED BY <1>1, <3>1 DEF Reloading
  <2> DEFINE c == stream[at[p] + 1]
  <2>4. /\ c \in Packet /\ c.kind = "resync" /\ session[p].state = "play"
        /\ ProcessTick(p, c) \/ ProcessResync(p, c)
    BY <1>1, <2>2, <2>3 DEF Process, Reloading, Inv, TypeOK
  <2> HIDE DEF c
  <2>5. ProcessResync(p, c) BY <2>4 DEF ProcessTick
  <2>6. session'[p] = Resynced(session[p], c) BY <2>1, <2>5 DEF ProcessResync
  <2>7. Good(session[p], truth[p]) BY <1>1 DEF Inv
  <2>8. Since(session[p], c) \in Nat BY <2>4, <2>7, SinceType
  <2> QED BY <1>1, <2>4, <2>6, <2>7, <2>8, ResyncedGood
<1>2. Inv /\ [Next]_vars => [\A p \in Peer : A(p)]_vars
  <2>1. Inv /\ Next => \A p \in Peer : A(p) BY <1>1
  <2> HIDE DEF A
  <2> QED BY <2>1
<1> QED BY InitInv, NextInv, <1>2, PTL DEF Spec, ReloadsWaits

\* Peers at the same place of the stream take and reload the same saves.
THEOREM SameSaves == Spec => []SameSave
<1>1. CourseInv => SameSave
  <2> SUFFICES ASSUME CourseInv, NEW p \in Peer \ odd, NEW q \in Peer \ odd, at[p] = at[q]
               PROVE  Rota(session[p]) = Rota(session[q])
    BY DEF SameSave
  <2>1. PICK r : OnCourse(r) BY DEF CourseInv
  <2>2. Follows(session[p], r[at[p]]) /\ Follows(session[q], r[at[p]]) BY <2>1 DEF OnCourse
  <2>3. Good(session[p], truth[p]) /\ Good(session[q], truth[q]) BY DEF CourseInv, Inv
  <2>4. /\ session[p].state \in {"play", "over"} /\ session[q].state \in {"play", "over"}
        /\ session[p].flip \in BOOLEAN /\ session[q].flip \in BOOLEAN
        /\ session[p].final \in BOOLEAN /\ session[q].final \in BOOLEAN
    BY <2>3 DEF Good, Session
  <2>5. session[p].state = session[q].state BY <2>2, <2>4 DEF Follows
  <2>6. session[p].flip = session[q].flip /\ session[p].final = session[q].final
    BY <2>2, <2>4 DEF Follows
  <2>7. /\ session[p].world.tick = session[q].world.tick /\ session[p].slot = session[q].slot
        /\ session[p].saved = session[q].saved /\ session[p].due = session[q].due
    BY <2>2 DEF Follows
  <2> QED BY <2>5, <2>6, <2>7 DEF Rota
<1> QED BY CourseInit, CourseNext, <1>1, PTL DEF Spec

\* Scripts of right worlds hear the same, whatever the players do with their cameras.
THEOREM ScriptsAgree == Spec => []WaitsAgree
<1>1. CourseInv => WaitsAgree
  <2> SUFFICES ASSUME CourseInv, NEW p \in Peer \ odd, NEW q \in Peer \ odd, at[p] = at[q],
                      ~session[p].world.wrong, ~session[q].world.wrong
               PROVE  CameraDone(session[p].waits, session[p].world.mode)
                        = CameraDone(session[q].waits, session[q].world.mode)
    BY DEF WaitsAgree
  <2>1. PICK r : OnCourse(r) BY DEF CourseInv
  <2>2. Follows(session[p], r[at[p]]) /\ Follows(session[q], r[at[p]]) BY <2>1 DEF OnCourse
  <2>3. session[p].waits = session[q].waits BY <2>2 DEF Follows
  <2>4. /\ Framed(session[p].waits, session[p].world.mode, session[p].world.tick)
        /\ Framed(session[q].waits, session[q].world.mode, session[q].world.tick)
    BY DEF CourseInv, Upright, Filmed
  <2> DEFINE w == session[p].waits
  <2>5. CASE w.path.active
    <3>1. ~CameraDone(w, session[p].world.mode) /\ ~CameraDone(w, session[q].world.mode)
      BY <2>3, <2>4, <2>5 DEF Framed, CameraDone
    <3>2. CameraDone(w, session[p].world.mode) \in BOOLEAN
            /\ CameraDone(w, session[q].world.mode) \in BOOLEAN
      BY DEF CameraDone
    <3> QED BY <2>3, <3>1, <3>2
  <2>6. CASE ~w.path.active
    <3>1. session[p].world.mode # "path" /\ session[q].world.mode # "path"
      BY <2>3, <2>4, <2>6 DEF Framed
    <3> QED BY <2>3, <3>1 DEF CameraDone
  <2> QED BY <2>5, <2>6
<1> QED BY CourseInit, CourseNext, <1>1, PTL DEF Spec

\* In a step that reloads, the peer goes on by the resync packet, which the course takes
\* too, from what is sound.
LEMMA ReloadStep ==
  ASSUME CourseInv, Next, NEW p \in Peer, Reloading(p)
  PROVE  LET c == stream[at[p] + 1]
         IN /\ Since(session[p], c) \in Nat /\ session[p].state = "play"
            /\ session'[p] = Resynced(session[p], c)
            /\ Good(session[p], truth[p])
            /\ odd' = odd
            /\ p \notin odd => \E k \in Course :
                 /\ Follows(session[p], k) /\ Sound(k) /\ ~k.over
                 /\ (odd = {} /\ c.since # NoReport) => Before(c.since, k)
<1> DEFINE i == at[p]
           c == stream[i + 1]
<1>1. session \in [Peer -> Session] /\ at \in [Peer -> Nat] /\ stream \in Seq(Packet)
  BY DEF CourseInv, Inv, TypeOK
<1>2. PICK q \in Peer : Process(q)
  BY DEF Next, HostSends, OrderTick, OrderResync, Diverge, LeavePath, Reloading
<1>3. q = p
  <2>1. ASSUME q # p PROVE session'[p] = session[p]
    BY <1>1, <1>2, <2>1 DEF Process, ProcessTick, ProcessResync
  <2> QED BY <2>1 DEF Reloading
<1>4. /\ i \in Nat /\ i < Len(stream) /\ c.kind = "resync" /\ session[p].state = "play"
      /\ ProcessTick(p, c) \/ ProcessResync(p, c)
  BY <1>1, <1>2, <1>3 DEF Process, Reloading
<1>5. c \in Packet /\ i + 1 \in 1 .. Len(stream) /\ i \in 0 .. Len(stream) /\ (i + 1) - 1 = i
  BY <1>1, <1>4
<1>6. Good(session[p], truth[p]) BY DEF CourseInv, Inv
<1>7. ASSUME p \notin odd
      PROVE  \E k \in Course :
               /\ Follows(session[p], k) /\ Sound(k) /\ ~k.over
               /\ (odd = {} /\ c.since # NoReport) => Before(c.since, k)
  <2>1. PICK r : OnCourse(r) BY DEF CourseInv
  <2>2. r[i] \in Course /\ Sound(r[i]) BY <1>5, <2>1 DEF OnCourse, Runs
  <2>3. Follows(session[p], r[i]) BY <1>7, <2>1 DEF OnCourse
  <2>4. ~r[i].over BY <1>4, <2>3 DEF Follows
  <2>5. (odd = {} /\ c.since # NoReport) => Before(c.since, r[(i + 1) - 1])
    BY <1>4, <1>5, <2>1 DEF OnCourse, Told
  <2> QED BY <1>5, <2>2, <2>3, <2>4, <2>5
<1> HIDE DEF c
<1>8. ProcessResync(p, c) /\ Since(session[p], c) \in Nat
  BY <1>4, <1>5, <1>6, SinceType DEF ProcessTick
<1>9. session'[p] = Resynced(session[p], c) /\ odd' = odd BY <1>1, <1>8 DEF ProcessResync
<1> QED BY <1>4, <1>6, <1>7, <1>8, <1>9 DEF c

\* The first reload goes back to before the report, if there is a file from before it.
THEOREM ReloadEarlier == Spec => ReloadsEarlier
<1> DEFINE A(p) == LET s == session[p]
                       t == session'[p]
                       since == Since(s, stream[at[p] + 1])
                   IN (/\ Reloading(p) /\ t.state = "play" /\ ~s.flip
                       /\ \E f \in Slot : s.points[f] # NoSave /\ s.points[f].tick < since)
                        => t.world.tick < since
<1>1. ASSUME CourseInv, Next, NEW p \in Peer \ odd PROVE A(p)
  <2> DEFINE s == session[p]
             t == session'[p]
             c == stream[at[p] + 1]
             g == SlotTaken(s, Since(s, c))
  <2> SUFFICES ASSUME Reloading(p), t.state = "play", ~s.flip,
                      NEW f \in Slot, s.points[f] # NoSave, s.points[f].tick < Since(s, c)
               PROVE  t.world.tick < Since(s, c)
    OBVIOUS
  <2>1. /\ Since(s, c) \in Nat /\ s.state = "play" /\ t = Resynced(s, c) /\ Good(s, truth[p])
    BY <1>1, ReloadStep
  <2>0. \E k \in Course : Follows(s, k) /\ Sound(k) /\ ~k.over
    <3>1. p \in Peer /\ p \notin odd BY <1>1
    <3> QED BY <1>1, <3>1, ReloadStep
  <2>2. PICK k \in Course : Follows(s, k) /\ Sound(k) /\ ~k.over BY <2>0
  <2> HIDE DEF c, s, t
  <2>3. GoesBack(s, Since(s, c)) /\ t.world = s.files[g] BY <2>1, ResyncedFields
  <2>4. s \in Session /\ s.slot \in Slot /\ s.saved \in Nat BY <2>1 DEF Good, Session
  <2>5. g \in Slot /\ s.files[g] # NoSave BY <2>3, <2>4 DEF GoesBack, SlotTaken, Slot
  <2>6. /\ k.has[g] /\ k.has[f] /\ s.files[g].tick = k.when[g] /\ s.points[f].tick = k.when[f]
        /\ k.slot = s.slot /\ k.saved = s.saved
    BY <2>2, <2>5 DEF Follows
  <2>7. k.when[g] < Since(s, c)
    <3>1. CASE s.saved >= Since(s, c)
      <4>1. g = 1 - s.slot BY <3>1 DEF SlotTaken, Flips
      <4>2. f # s.slot BY <2>1, <2>2, <2>4, <2>6, <3>1 DEF Sound
      <4>3. f = g BY <2>4, <4>1, <4>2 DEF Slot
      <4> QED BY <2>6, <4>3
    <3>2. CASE ~(s.saved >= Since(s, c))
      <4>1. g = s.slot BY <3>2 DEF SlotTaken, Flips
      <4> QED BY <2>1, <2>2, <2>4, <2>6, <3>2, <4>1 DEF Sound
    <3> QED BY <3>1, <3>2
  <2> QED BY <2>3, <2>6, <2>7
<1>2. CourseInv /\ [Next]_vars => [\A p \in Peer \ odd : A(p)]_vars
  <2>1. CourseInv /\ Next => \A p \in Peer \ odd : A(p) BY <1>1
  <2> HIDE DEF A
  <2> QED BY <2>1
<1> QED BY CourseInit, CourseNext, <1>2, PTL DEF Spec, ReloadsEarlier

\* Every reload for a report goes back further than the last tick but one, so that what
\* takes the tick before a reload as seen can tell a reload by the clock.
THEOREM FarBack == Spec => ReloadsFarBack
<1> DEFINE A(p) == (/\ odd = {} /\ Reloading(p) /\ session'[p].state = "play"
                    /\ stream[at[p] + 1].since # NoReport)
                     => session'[p].world.tick < session[p].world.tick - 1
<1>1. ASSUME CourseInv, Next, NEW p \in Peer PROVE A(p)
  <2> DEFINE s == session[p]
             t == session'[p]
             c == stream[at[p] + 1]
             g == SlotTaken(s, Since(s, c))
  <2> SUFFICES ASSUME odd = {}, Reloading(p), t.state = "play", c.since # NoReport
               PROVE  t.world.tick < s.world.tick - 1
    OBVIOUS
  <2>1. /\ Since(s, c) \in Nat /\ s.state = "play" /\ t = Resynced(s, c) /\ Good(s, truth[p])
    BY <1>1, ReloadStep
  <2>0. \E k \in Course : Follows(s, k) /\ Sound(k) /\ ~k.over /\ Before(Since(s, c), k)
    <3>1. p \in Peer /\ p \notin odd BY <1>1
    <3>2. Since(s, c) = c.since BY DEF Since
    <3> QED BY <1>1, <3>1, <3>2, ReloadStep
  <2>2. PICK k \in Course : Follows(s, k) /\ Sound(k) /\ ~k.over /\ Before(Since(s, c), k)
    BY <2>0
  <2> HIDE DEF c, s, t
  <2>3. GoesBack(s, Since(s, c)) /\ t.world = s.files[g] BY <2>1, ResyncedFields
  <2>4. s \in Session /\ s.slot \in Slot /\ s.saved \in Nat BY <2>1 DEF Good, Session
  <2>5. g \in Slot /\ s.files[g] # NoSave /\ ~s.final
    BY <2>3, <2>4 DEF GoesBack, SlotTaken, Slot
  <2>6. /\ k.has[g] /\ s.files[g].tick = k.when[g] /\ k.slot = s.slot /\ k.saved = s.saved
        /\ k.tick = s.world.tick /\ ~k.final
    BY <2>2, <2>5 DEF Follows
  <2>7. k.tick \in Nat /\ k.saved \in Nat /\ k.when[g] \in Nat BY <2>5 DEF Course
  <2>8. k.when[g] < k.tick - 1
    <3>1. CASE Flips(s, Since(s, c))
      <4>1. g = 1 - k.slot BY <2>6, <3>1 DEF SlotTaken
      <4>2. k.when[g] < k.saved BY <2>2, <2>6, <4>1 DEF Sound
      <4> QED BY <2>2, <2>7, <4>2 DEF Before
    <3>2. CASE ~Flips(s, Since(s, c))
      <4>1. g = k.slot /\ ~(k.saved >= Since(s, c)) BY <2>6, <3>2 DEF SlotTaken, Flips
      <4>2. k.when[g] = k.saved BY <2>2, <2>6, <4>1 DEF Sound
      <4> QED BY <2>1, <2>2, <2>7, <4>1, <4>2 DEF Before
    <3> QED BY <3>1, <3>2
  <2> QED BY <2>3, <2>6, <2>8
<1>2. CourseInv /\ [Next]_vars => [\A p \in Peer : A(p)]_vars
  <2>1. CourseInv /\ Next => \A p \in Peer : A(p) BY <1>1
  <2> HIDE DEF A
  <2> QED BY <2>1
<1> QED BY CourseInit, CourseNext, <1>2, PTL DEF Spec, ReloadsFarBack
=============================================================================
