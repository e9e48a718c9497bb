----------------------------- MODULE ScriptedWaits -----------------------------
(***************************************************************************)
(* The waits of scripted cameras in a co-op session, as one peer keeps     *)
(* them.  A script that moves the camera or plays a path waits for it      *)
(* (condition 72).  What the camera really shows depends on the frame rate *)
(* and on what the player does with it, so the waits are counted in ticks  *)
(* of the shared world instead.                                            *)
(*                                                                         *)
(* Of the camera only its mode is kept: on a scripted path (mode 18) or    *)
(* the player's own.  Ticks stay below 2^32, which the code aborts on.     *)
(***************************************************************************)
EXTENDS Integers

CONSTANT TicksPerSecond

ASSUME TicksAssumption == TicksPerSecond \in Nat \ {0}

Modes == {"own", "path"}

-----------------------------------------------------------------------------
(* Durations *)

\* MotionWaits::durationTicks: milliseconds, to the first tick that is not too early.
DurationTicks(ms) == (ms * TicksPerSecond + 999) \div 1000

\* Timeline::started: 30 samples of the path per second, from the middle of the first.
\* `points' counts from the first point the path starts at; there are at least 2.
HalfSamples(points) == 2 * (points - 1) - 1
PathTicks(points) == (HalfSamples(points) * TicksPerSecond + 59) \div 60

-----------------------------------------------------------------------------
(* State *)

\* MotionWaits: ticks left to move and to turn, when they were last counted, and
\* whether a path kept them from being counted since.
NoMotion == [move |-> 0, turn |-> 0, last |-> 0, seen |-> FALSE, paused |-> FALSE]
Motion == [move : Nat, turn : Nat, last : Nat, seen : BOOLEAN, paused : BOOLEAN]

\* Playback and its Timeline: a path that was accepted and its last tick.
NoPath == [active |-> FALSE, deadline |-> 0, last |-> 0, tracked |-> FALSE]
Path == [active : BOOLEAN, deadline : Nat, last : Nat, tracked : BOOLEAN]

Waits == [motion : Motion, path : Path]
NoWaits == [motion |-> NoMotion, path |-> NoPath]

-----------------------------------------------------------------------------
(* Movement and rotation *)

Less(n, k) == IF n > k THEN n - k ELSE 0

\* MotionWaits::advance
Advanced(m, tick, pending) ==
  LET n == IF m.seen /\ tick < m.last THEN NoMotion ELSE m
      k == IF n.seen /\ ~n.paused THEN tick - n.last ELSE 0
  IN [move |-> Less(n.move, k), turn |-> Less(n.turn, k), last |-> tick,
      seen |-> TRUE, paused |-> pending]

\* MotionWaits::dispatch, action 4: every movement takes 500 ms, and a rotation of
\* 0 ms leaves one that is pending alone.
Moved(w, tick, ms) ==
  LET m == Advanced(w.motion, tick, w.path.active)
  IN [w EXCEPT !.motion =
        [m EXCEPT !.move = DurationTicks(500),
                  !.turn = IF ms = 0 THEN m.turn ELSE DurationTicks(ms)]]

-----------------------------------------------------------------------------
(* Paths *)

\* A path belongs to the one camera; without it there is nothing pending.
Pending(path) == path.active /\ path.tracked

\* Mutant: the veto of the player's camera counts for every path.
LoadedMode_vetoed(w, mode, veto) == IF veto THEN mode ELSE "path"

\* The native file loading puts the camera on the path, unless the player's camera
\* vetoes it; the veto is bypassed for a path that is to be shared.
LoadedMode(w, mode, veto) ==
  IF veto /\ (Pending(w.path) \/ mode = "path") THEN mode ELSE "path"

\* Playback::load and Timeline::started: a new path is accepted if none is pending
\* and the camera has just entered it.
Started(w, mode, after, tick, points) ==
  IF ~w.path.tracked /\ (mode = "path" \/ after # "path")
  THEN [w.path EXCEPT !.active = FALSE]
  ELSE IF Pending(w.path) \/ mode = "path" \/ after # "path" THEN w.path
  ELSE [active |-> TRUE, deadline |-> tick + PathTicks(points), last |-> tick,
        tracked |-> TRUE]

\* CCamera::loadEnginePath
Loaded(w, mode, after, tick, points) ==
  LET path == Started(w, mode, after, tick, points)
  IN [path |-> path,
      motion |-> Advanced(Advanced(w.motion, tick, w.path.active), tick, path.active)]

\* Playback::complete: the end of the rendering, or the player, asks to leave the
\* path, which is ignored for as long as the shared wait lasts.
Completed(w, mode) ==
  IF Pending(w.path) /\ mode = "path" THEN mode ELSE "own"

\* Playback::beforeTick with Timeline::advance: the path, and whether it ends now.
Ends(path, tick) == Pending(path) /\ path.last <= tick /\ path.deadline <= tick
PathAdvanced(path, tick) ==
  IF ~path.tracked THEN [path EXCEPT !.active = FALSE]
  ELSE IF ~path.active THEN path
  ELSE IF tick < path.last THEN [path EXCEPT !.active = FALSE]
  ELSE IF tick < path.deadline THEN [path EXCEPT !.last = tick]
  ELSE [path EXCEPT !.last = tick, !.active = FALSE, !.tracked = FALSE]

\* beforeWorldTick
BeforeTick(w, tick) ==
  LET path == PathAdvanced(w.path, tick)
  IN [path |-> path,
      motion |-> Advanced(Advanced(w.motion, tick, w.path.active), tick, path.active)]
ModeBeforeTick(w, mode, tick) ==
  IF Ends(w.path, tick) THEN "own" ELSE mode

\* MotionWaits::condition, condition 72 in a co-op session.
CameraDone(w, mode) ==
  mode # "path" /\ ~w.motion.paused /\ w.motion.move = 0 /\ w.motion.turn = 0
=============================================================================
