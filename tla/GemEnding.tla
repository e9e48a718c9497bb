------------------------------- MODULE GemEnding -------------------------------
(***************************************************************************)
(* The ending of a co-op mission.  The native network game shows none, so  *)
(* every peer starts the native cinematic of the shared Keeper itself, and *)
(* keeps track of it in an object (class Ending) that is not in the saves. *)
(* While the object knows the ending, its waits are the shared ones; when  *)
(* it does not, they depend on each player's own camera again.             *)
(*                                                                         *)
(* Peers apply the same ticks and reloads and do not hear of each other,   *)
(* so a step is one of these on every peer.  That a reload goes back to    *)
(* before the last tick that was observed is what Resync promises of a     *)
(* resync whose packet holds the report it is for (ReloadsFarBack).        *)
(***************************************************************************)
EXTENDS Integers

CONSTANTS
  Peer,
  Keepers, Shared,     \* Shared is the Keeper of all Controllers
  NoKeeper, NoSave,
  PathTicks, MoveTicks,  \* how long the two waits of the cinematic take
  Fireworks,           \* how long an alternative ending takes
  Authored,            \* bound: the endings that the mission may have
  LastWin,             \* bound: the last tick at which a status may change
  MaxTick              \* bound: the last tick

ASSUME KeepersAssumption == Shared \in Keepers /\ NoKeeper \notin Keepers
ASSUME TicksAssumption ==
  /\ PathTicks \in Nat /\ MoveTicks \in Nat /\ Fireworks \in Nat \ {0}
  /\ LastWin \in Nat /\ MaxTick \in Nat

\* "none" is a mission without a gem, or whose creature could not be created.
Kinds == {"gem", "none", "alternative"}
ASSUME AuthoredAssumption == Authored \subseteq Kinds

Status == {"playing", "won", "lost"}

\* The creature of a gem ending: on its way along the path, moving to the gem, with
\* the gem, and done.  These are the states from E5 on.
Phase == {"absent", "path", "move", "gems", "done"}

\* A world: what is saved and reloaded.  `left' are the ticks left of the wait the
\* creature is in (ScriptedWaits has them in full), `fireworks' those of an alternative
\* ending; `kind' is the ending that the mission has.  History: how many endings were
\* `begun' in this world, and whether it was reloaded with one in it (`orphan').
World == [tick : Nat, status : [Keepers -> Status], phase : Phase, left : Nat,
          fireworks : Nat, kind : Kinds, begun : Nat, orphan : BOOLEAN]
ASSUME NoSaveAssumption == NoSave \notin World

\* Class Ending.  `creature' says that there is one; it belongs to `keeper'.
Ending == [keeper : Keepers \cup {NoKeeper}, creature : BOOLEAN, alternative : BOOLEAN,
           attempted : BOOLEAN, complete : BOOLEAN, hasTick : BOOLEAN, lastTick : Nat]

\* The animation of the gem in the player's own interface (f4CE2, f4CEA).
Animation == {"idle", "started", "complete"}

VARIABLES session    \* per peer: its world, the last save, the object, the animation
vars == <<session>>

Session == [world : World, file : World \cup {NoSave}, ending : Ending, ui : Animation]

NoEnding == [keeper |-> NoKeeper, creature |-> FALSE, alternative |-> FALSE,
             attempted |-> FALSE, complete |-> FALSE, hasTick |-> FALSE, lastTick |-> 0]

NewWorld(kind) ==
  [tick |-> 0, status |-> [k \in Keepers |-> "playing"], phase |-> "absent", left |-> 0,
   fireworks |-> 0, kind |-> kind, begun |-> 0, orphan |-> FALSE]

Init == \E kind \in Authored :
          session = [p \in Peer |-> [world |-> NewWorld(kind), file |-> NoSave,
                                     ending |-> NoEnding, ui |-> "idle"]]

-----------------------------------------------------------------------------
(* The object *)

ActiveFor(e, k) == (e.creature \/ e.alternative) /\ k = e.keeper

\* The creature of the world is the one the object knows.
Matches(s) == s.ending.creature /\ ActiveFor(s.ending, Shared) /\ s.world.phase # "absent"

\* Mutants: a rewound tick is not noticed; the object is never completed by the deadline.
Observed_never(s) ==
  LET e == [s.ending EXCEPT !.lastTick = s.world.tick, !.hasTick = TRUE]
  IN [s EXCEPT !.ending = IF e.alternative /\ s.world.fireworks = 0 THEN [e EXCEPT !.complete = TRUE] ELSE e]
Observed_gems(s) ==
  LET known == IF s.ending.hasTick /\ s.world.tick < s.ending.lastTick THEN NoEnding ELSE s.ending
  IN [s EXCEPT !.ending = [known EXCEPT !.lastTick = s.world.tick, !.hasTick = TRUE]]

\* beforeWorldTick: an earlier tick than the last one means a reload.  An alternative
\* ending is complete when its deadline has been cleared.
Observed(s) ==
  LET known == IF s.ending.hasTick /\ s.world.tick < s.ending.lastTick THEN NoEnding
               ELSE s.ending
      e == [known EXCEPT !.lastTick = s.world.tick, !.hasTick = TRUE]
  IN [s EXCEPT !.ending =
        IF e.alternative /\ s.world.fireworks = 0 THEN [e EXCEPT !.complete = TRUE] ELSE e]

-----------------------------------------------------------------------------
(* The creature, in the world's tick *)

\* Mutant: the wait is that of the player's own camera.
Pending_own(s, cam) == cam

\* Is the creature still to wait?  `cam' is what the player's own camera would answer.
Pending(s, cam) == IF Matches(s) THEN s.world.left > 0 ELSE cam

\* `out' is the decision of the native code that the gem has been taken.
Walked(s, cam, out) ==
  CASE s.world.phase = "path" /\ ~Pending(s, cam) ->
         [s EXCEPT !.world.phase = "move", !.world.left = MoveTicks]
    [] s.world.phase = "move" /\ ~Pending(s, cam) -> [s EXCEPT !.world.phase = "gems"]
    [] s.world.phase = "gems" /\ out ->
         [s EXCEPT !.world.phase = "done", !.ending.complete = @ \/ Matches(s)]
    [] OTHER -> s

\* The waits and the deadline of the fireworks run down.
Down(n) == IF n = 0 THEN 0 ELSE n - 1
Passed(s) == [s EXCEPT !.world.left = Down(@), !.world.fireworks = Down(@)]

-----------------------------------------------------------------------------
(* CPlayer::fun_4BE630: a Keeper's status changes *)

\* The native body: a Keeper whose game is over stays as he is, and any change may be
\* refused.
Native(s, k, to, accepted) ==
  IF s.world.status[k] = "playing" /\ accepted THEN [s EXCEPT !.world.status[k] = to] ELSE s

\* What the native routines of the two endings do to the world.
Cinematic(w) ==
  [w EXCEPT !.begun = @ + 1,
            !.phase = IF w.kind = "gem" THEN "path" ELSE @,
            !.left = IF w.kind = "gem" THEN PathTicks ELSE @,
            !.fireworks = IF w.kind = "alternative" THEN Fireworks ELSE @]

Started(s, k) ==
  [s EXCEPT !.world = Cinematic(@),
            !.ending.keeper = k,
            !.ending.creature = (s.world.kind = "gem"),
            !.ending.alternative = (s.world.kind = "alternative")]

\* Only the Keeper of this process, on the way from playing to having won, and if nobody
\* has been reserved before.
Candidate(s, k, to) ==
  /\ k = Shared
  /\ ~s.ending.attempted
  /\ s.world.status[k] = "playing" /\ to = "won"

Reserved(s, candidate) == IF candidate THEN [s EXCEPT !.ending.attempted = TRUE] ELSE s

\* Mutant: a refused winner stays reserved.
Settled_kept(s, k, candidate) ==
  IF candidate /\ s.world.status[k] = "won" THEN Started(s, k) ELSE s

\* After the native body: the ending starts, or the winner is released.
Settled(s, k, candidate) ==
  IF ~candidate THEN s
  ELSE IF s.world.status[k] = "won" THEN Started(s, k)
  ELSE [s EXCEPT !.ending.attempted = FALSE]

\* One call, with no call within it.
Changed(s, k, to, accepted) ==
  LET candidate == Candidate(s, k, to)
  IN Settled(Native(Reserved(s, candidate), k, to, accepted), k, candidate)

\* A call of the native body may come back for another Keeper, c.inner, before it has
\* changed the status of c.outer.
Transition(s, c) ==
  LET candidate == Candidate(s, c.outer, c.to)
      reserved == Reserved(s, candidate)
      within == IF c.inner = NoKeeper THEN reserved
                ELSE Changed(reserved, c.inner, c.innerTo, c.innerAccepted)
  IN IF c.outer = NoKeeper THEN s
     ELSE Settled(Native(within, c.outer, c.to, c.accepted), c.outer, candidate)

-----------------------------------------------------------------------------
(* Steps *)

\* What a tick brings to every peer: at most one change of a status, with what the
\* native code makes of it, and whether the gem is taken.
Quiet == [outer |-> NoKeeper, to |-> "won", accepted |-> FALSE, inner |-> NoKeeper,
          innerTo |-> "won", innerAccepted |-> FALSE]
Alone == [outer : Keepers, to : {"won", "lost"}, accepted : BOOLEAN,
          inner : {NoKeeper}, innerTo : {"won"}, innerAccepted : {FALSE}]
Nested == [outer : Keepers, to : {"won", "lost"}, accepted : BOOLEAN,
           inner : Keepers, innerTo : {"won", "lost"}, innerAccepted : BOOLEAN]
Change == {Quiet} \cup Alone \cup Nested

\* The save comes before beforeWorldTick, and v_tick after it.
Ticked(s, c, save, cam, out) ==
  LET kept == IF save THEN [s EXCEPT !.file = s.world] ELSE s
      done == Transition(Passed(Walked(Observed(kept), cam, out)), c)
  IN [done EXCEPT !.world.tick = @ + 1]

\* The clock of the host, which every peer has reached.
Before(n) == \A p \in Peer : session[p].world.tick < n

InPhase(phases) == \E p \in Peer : session[p].world.phase \in phases

\* Bound: no gem stays untaken at the last tick but one.
Tick ==
  /\ Before(MaxTick)
  /\ \E c \in IF Before(LastWin) THEN Change ELSE {Quiet},
        save \in IF Before(LastWin) THEN BOOLEAN ELSE {FALSE},
        cam \in IF InPhase({"path", "move"}) THEN [Peer -> BOOLEAN] ELSE {[p \in Peer |-> FALSE]},
        out \in IF Before(MaxTick - 1) /\ InPhase({"gems"}) THEN BOOLEAN ELSE {TRUE} :
       session' = [p \in Peer |-> Ticked(session[p], c, save, cam[p], out)]

\* A world in which an ending has begun is reloaded without its object.
Reloaded(s) == [s EXCEPT !.world = [s.file EXCEPT !.orphan = @ \/ s.file.begun > 0]]

Reload ==
  /\ \A p \in Peer : session[p].file # NoSave
  /\ \A p \in Peer : session[p].file.tick < session[p].ending.lastTick
  /\ session' = [p \in Peer |-> Reloaded(session[p])]

CanAnimate(p) == session[p].world.phase = "done" /\ session[p].ui # "complete"

\* The player's own interface animates the gem once the creature has it.
Animate(p) ==
  /\ CanAnimate(p)
  /\ session' = [session EXCEPT ![p].ui = IF @ = "idle" THEN "started" ELSE "complete"]

Next == Tick \/ Reload \/ \E p \in Peer : Animate(p)

Spec == Init /\ [][Next]_vars

\* A tick, the only step after which the world is one tick later.
Advance == \A p \in Peer : session'[p].world.tick = session[p].world.tick + 1

\* Ticks go on, and an animation goes on to its end.  This is weak fairness of Tick and
\* of Animate, with the guards of these actions in the place of ENABLED.
Fairness ==
  /\ []<>~Before(MaxTick) \/ []<><<Advance>>_vars
  /\ \A p \in Peer : []<>~CanAnimate(p) \/ []<><<Animate(p)>>_vars
FairSpec == Spec /\ Fairness

-----------------------------------------------------------------------------
(* Properties *)

\* The state has its types.
TypeOK == session \in [Peer -> Session]

\* beforeWorldTick has seen the world as it is: no reload since the last tick.
Seen(s) == s.ending.hasTick /\ s.ending.lastTick + 1 = s.world.tick

\* "One shared victory cinematic": no ending begins twice in the same world, however
\* changes of status come in each other's calls, are refused, repeated and reloaded.
BeginsOnce == \A p \in Peer : session[p].world.begun <= 1

\* The object knows the ending of the world it is with: it is active if the world began
\* one that is to be waited for, and not because of one in a world that was left by a
\* reload, or of a winner who was refused.
KnowsItsWorld ==
  \A p \in Peer :
    LET s == session[p] IN
      Seen(s) => (ActiveFor(s.ending, Shared)
                    <=> s.world.begun > 0 /\ s.world.kind # "none" /\ ~s.world.orphan)

\* The shared Keeper who won has had his ending: a winner who was refused, another
\* Keeper's victory or a reload does not keep it from him.
WinnerHasEnding ==
  \A p \in Peer : session[p].world.status[Shared] = "won" => session[p].world.begun = 1

\* "Controller-local camera/input state never selects its owner": peers agree on the
\* world through the whole ending, but for worlds that were saved while an ending was
\* under way and reloaded.
EndingsAgree ==
  \A p, q \in Peer :
    session[p].world.orphan \/ session[q].world.orphan
      \/ session[p].world = session[q].world

\* network_gem_ending_ui: is the player kept from the prompt and from skipping?
Waiting(s) ==
  ActiveFor(s.ending, Shared)
    /\ (~s.ending.complete \/ (~s.ending.alternative /\ s.ui # "complete"))

\* The prompt comes to everyone in the end, if no reload undoes the ending first.
PromptComes ==
  \A p \in Peer : Waiting(session[p]) /\ Seen(session[p])
                    ~> ~Waiting(session[p]) \/ ~Seen(session[p])
=============================================================================
