------------------------------- MODULE Possession -------------------------------
(***************************************************************************)
(* Possession of a creature by a Keeper that several Controllers share.    *)
(* The world only knows that its Keeper possesses a creature; which of the *)
(* Controllers looks through its eyes is known to each process by itself   *)
(* (class Presentation), from the shot that brought the possession.        *)
(*                                                                         *)
(* Every process applies the same ticks to the same world and therefore    *)
(* has the same world and the same origins of shots, here once; what it    *)
(* presents and its camera are its own.  Native code is external: whether  *)
(* a cast makes a shot, what becomes of the shot, whether it possesses,    *)
(* and the camera.                                                         *)
(***************************************************************************)
EXTENDS Integers

CONSTANTS
  Controller,        \* the Controllers, each with its process
  Creature, Tag,     \* creatures, and tags that shots are given
  None,              \* no Controller, no creature, no shot, no view
  MaxCasts           \* bound: how many shots of possession are cast

\* The view of the Keeper (any mode of the camera but 1, 2 and 18).
Keeper == "keeper"
Path == "path"      \* mode 18
View == Creature \cup {Keeper}

\* The possession was in a world that was reloaded: any one may have it.
Anyone == "anyone"

\* Controllers, creatures, the views of a camera without a creature, and the marks for
\* none and for anyone are different things.
ASSUME DistinctAssumption ==
  /\ None \notin Controller \cup Creature \cup {Keeper, Path, Anyone}
  /\ Keeper \notin Creature /\ Path \notin Creature
  /\ Anyone \notin Controller
  /\ MaxCasts \in Nat

\* A world: the creature the Keeper possesses, and the creature that the shot of a tag
\* is on its way to.
PossessionWorld == [possessed : Creature \cup {None}, shots : [Tag -> Creature \cup {None}]]

\* A camera that plays a path keeps the view it had, and the one it was asked for
\* meanwhile.
Camera == [mode : View \cup {Path}, saved : View \cup {None}, deferred : View \cup {None}]

VARIABLES
  world, file,       \* the world, and the one a resynchronisation would reload
  origin,            \* shotOrigins_: the Controller who cast the shot of a tag
  owned,             \* creature_ of each process
  camera,            \* of each process
  phase,             \* "tick": v_tick is under way; "between" ticks; "reloaded"
  caster,            \* history: who cast the shot of a tag, unless a reload forgot it
  by,                \* history: whose shot brought the possession
  rushed,            \* history: it was somebody else's creature, who had not observed yet
                     \* that it was so no longer
  casts              \* how many shots of possession were cast
history == <<caster, by, rushed, casts>>
pvars == <<world, file, origin, owned, camera, phase, history>>

Nobody == [t \in Tag |-> None]

PInit ==
  /\ world = [possessed |-> None, shots |-> Nobody]
  /\ file = world
  /\ origin = Nobody /\ caster = Nobody
  /\ owned = [p \in Controller |-> None]
  /\ camera = [p \in Controller |->
                 [mode |-> Keeper, saved |-> None, deferred |-> None]]
  /\ phase = "between"
  /\ by = None /\ rushed = FALSE /\ casts = 0

-----------------------------------------------------------------------------
(* The camera, external *)

\* A camera on a path puts off what it is asked for.
Shown(c, view) == IF c.mode = Path THEN [c EXCEPT !.deferred = view] ELSE [c EXCEPT !.mode = view]

\* What a camera shows when the path is over.
ReturnView(c) == IF c.mode # Path THEN c.mode
                 ELSE IF c.deferred # None THEN c.deferred ELSE c.saved

Returned(c) == [mode |-> ReturnView(c), saved |-> None, deferred |-> None]

-----------------------------------------------------------------------------
(* Class Presentation *)

\* allocatedShot: every allocation overwrites what the tag had before.
Allocated(t, o) == [origin EXCEPT ![t] = o]

\* Mutant: the possession is shown to whoever is without one.
Enters_any(p, o) == o # None /\ owned[p] = None

\* enter: only the Controller whose shot it is.
Enters(p, o) == o = p

\* observe: the creature of this process is no longer the one possessed.
Ended(p) == owned[p] # None /\ owned[p] # world.possessed

\* Mutant: only the mode of the camera is looked at.
Leaves_mode(c) == c.mode \in Creature

\* releaseCamera: is the camera to show a creature, now or when the path is over?
Leaves(c) == ReturnView(c) \in Creature

-----------------------------------------------------------------------------
(* What happens in a tick of the world *)

InTick == phase' = "tick"
Free(t) == world.shots[t] = None

\* GameActionHandler_N37: action 55 with the marker of a Controller, or of nobody, makes
\* a shot.
Cast(o, c, t) ==
  /\ Free(t) /\ casts < MaxCasts
  /\ InTick
  /\ world' = [world EXCEPT !.shots[t] = c]
  /\ origin' = Allocated(t, o)
  /\ caster' = [caster EXCEPT ![t] = o]
  /\ casts' = casts + 1
  /\ UNCHANGED <<file, owned, camera, by, rushed>>

\* createCShot for something else; whether that shot still flies is of no interest.
CastOther(t) ==
  /\ Free(t)
  /\ InTick
  /\ origin' = Allocated(t, None)
  /\ UNCHANGED <<world, file, owned, camera, history>>

\* A shot ends on its way, and nobody is told.
Lose(t) ==
  /\ ~Free(t)
  /\ InTick
  /\ world' = [world EXCEPT !.shots[t] = None]
  /\ caster' = [caster EXCEPT ![t] = None]
  /\ UNCHANGED <<file, origin, owned, camera, by, rushed, casts>>

\* CShot::sub_4AEEA0: the shot arrives and its origin is consumed, whether or not the
\* possession is accepted.  A Keeper who has a creature gets no other one.
Arrive(t, accepted) ==
  /\ ~Free(t)
  /\ accepted => world.possessed = None
  /\ InTick
  /\ origin' = [origin EXCEPT ![t] = None]
  /\ LET o == origin[t]
         c == world.shots[t]
     IN /\ world' = [possessed |-> IF accepted THEN c ELSE world.possessed,
                     shots |-> [world.shots EXCEPT ![t] = None]]
        /\ owned' = [p \in Controller |-> IF accepted /\ Enters(p, o) THEN c ELSE owned[p]]
        /\ camera' = [p \in Controller |->
             IF accepted /\ Enters(p, o) THEN Shown(camera[p], c) ELSE camera[p]]
        /\ caster' = [caster EXCEPT ![t] = None]
        /\ by' = IF accepted THEN caster[t] ELSE by
        /\ rushed' = IF accepted
                     THEN \E p \in Controller \ {o} :
                            owned[p] = c /\ ReturnView(camera[p]) = c
                     ELSE rushed
  /\ UNCHANGED <<file, casts>>

\* The possession ends: by a command to leave, whose player's camera may have left
\* already, or with the creature's death.
Leave(locally) ==
  /\ world.possessed # None
  /\ InTick
  /\ world' = [world EXCEPT !.possessed = None]
  /\ camera' = [p \in Controller |->
                  IF locally /\ owned[p] = world.possessed THEN Shown(camera[p], Keeper)
                  ELSE camera[p]]
  /\ by' = None /\ rushed' = FALSE
  /\ UNCHANGED <<file, origin, owned, caster, casts>>

\* A script starts a path: the camera of every process plays it.
PlayPath ==
  /\ \A p \in Controller : camera[p].mode # Path
  /\ InTick
  /\ camera' = [p \in Controller |->
       [mode |-> Path, saved |-> camera[p].mode, deferred |-> None]]
  /\ UNCHANGED <<world, file, origin, owned, history>>

\* v_tick returns, and afterWorldTick observes what is left.  The native release asks
\* the camera for the view of the Keeper.
EndTick ==
  /\ phase = "tick"
  /\ phase' = "between"
  /\ owned' = [p \in Controller |-> IF Ended(p) THEN None ELSE owned[p]]
  /\ camera' = [p \in Controller |-> IF Ended(p) /\ Leaves(camera[p])
                               THEN Shown(camera[p], Keeper) ELSE camera[p]]
  /\ UNCHANGED <<world, file, origin, history>>

-----------------------------------------------------------------------------
(* Between ticks *)

\* The path of a process is over, at a time of its own.
FinishPath(p) ==
  /\ phase # "tick" /\ camera[p].mode = Path
  /\ camera' = [camera EXCEPT ![p] = Returned(@)]
  /\ UNCHANGED <<world, file, origin, owned, phase, history>>

Save ==
  /\ phase = "between"
  /\ file' = world
  /\ UNCHANGED <<world, origin, owned, camera, phase, history>>

\* Mutant: the origins of the world that was left are kept.
Forgotten_kept == origin

\* clearPendingShots
Forgotten == Nobody

\* afterWorldReload.  The shots that were saved have no caster any more.
AfterWorldReload ==
  /\ phase = "between"
  /\ phase' = "reloaded"
  /\ world' = file
  /\ origin' = Forgotten
  /\ caster' = Nobody
  /\ by' = IF file.possessed = None THEN None ELSE Anyone
  /\ UNCHANGED <<file, owned, camera, rushed, casts>>

PNext ==
  \/ \E t \in Tag :
       \/ \E o \in Controller \cup {None}, c \in Creature : Cast(o, c, t)
       \/ CastOther(t)
       \/ Lose(t)
       \/ \E accepted \in BOOLEAN : Arrive(t, accepted)
  \/ \E locally \in BOOLEAN : Leave(locally)
  \/ PlayPath
  \/ EndTick
  \/ \E p \in Controller : FinishPath(p)
  \/ Save
  \/ AfterWorldReload

PSpec == PInit /\ [][PNext]_pvars

-----------------------------------------------------------------------------
(* Properties *)

\* The state has its types, and a camera that plays no path has nothing to return to.
PTypeOK ==
  /\ world \in PossessionWorld /\ file \in PossessionWorld
  /\ origin \in [Tag -> Controller \cup {None}]
  /\ caster \in [Tag -> Controller \cup {None}]
  /\ owned \in [Controller -> Creature \cup {None}]
  /\ camera \in [Controller -> Camera]
  /\ \A p \in Controller : LET c == camera[p]
                     IN c.saved = None <=> c.mode # Path /\ c.deferred = None
  /\ phase \in {"tick", "between", "reloaded"}
  /\ by \in Controller \cup {None, Anyone} /\ rushed \in BOOLEAN /\ casts \in 0 .. MaxCasts

\* Process p shows the possession, now or when its path is over.
Presents(p) == /\ owned[p] # None /\ owned[p] = world.possessed
               /\ ReturnView(camera[p]) = owned[p]

\* "Only one Controller can possess a creature at a time" (readme.md:5): no two processes
\* present it, with shots of both in flight, tags used again, and reloads; but for a
\* creature that changes hands within a tick, which observe cannot see.
OneAtATime == \A p, q \in Controller : Presents(p) /\ Presents(q) => p = q \/ rushed

\* "Valid possession should return afterward [after a cutscene]; death/release should
\* return to Keeper view" (port-validation.md:11): after a tick no camera shows, or will
\* return to, a creature but the one that is possessed and that its own process has; the
\* end of a path would dereference it.
ReturnsToPossessed ==
  phase = "between" =>
    \A p \in Controller : ReturnView(camera[p]) \in Creature =>
                      ReturnView(camera[p]) = world.possessed /\ owned[p] = world.possessed

\* The possession is presented by the Controller whose shot brought it, who keeps it
\* through paths and everything that others do; and by nobody if nobody's shot did, or one
\* whose caster was forgotten by a reload.
CasterPresents ==
  by # Anyone /\ ~rushed => \A p \in Controller : Presents(p) <=> p = by
=============================================================================
