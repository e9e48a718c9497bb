------------------------------ MODULE SharedHand ------------------------------
(***************************************************************************)
(* Every peer of a co-op session simulates the shared Keeper's hand for    *)
(* itself, from one ordered stream of commands that all of them apply, each *)
(* at its own pace.  A peer whose world has gone out of step is brought    *)
(* back when all peers reload the save of the same tick.                   *)
(***************************************************************************)
EXTENDS KeeperHand, FiniteSets

CONSTANTS
  Peer,       \* the processes; each is played by the Controller of that name
  Watched,    \* the peer whose hand is compared with SeparateHands
  Kinds,      \* the kinds of command that are given (a bound)
  Diverging,  \* the peers whose world may go wrong (a bound)
  MaxAhead    \* how many commands a peer may be behind another (a bound)

VARIABLES
  stream,     \* the commands that some peer has yet to apply
  at,         \* per peer: how many of them it has applied
  world,      \* per peer: its world
  ideal,      \* history: the worlds before and after each of them, of a peer that
              \* never went wrong
  diverged,   \* history: the peers whose world may be wrong
  unsound,    \* history: the peers whose last save may be wrong
  asked       \* history: who has asked for what is held, or may still be taken

vars == <<stream, at, world, ideal, diverged, unsound, asked>>

ASSUME PeerAssumption == Peer \subseteq Controller /\ Watched \in Peer
ASSUME MaxAheadAssumption == MaxAhead \in Nat \ {0}

-----------------------------------------------------------------------------
(* Commands *)

\* Actions 57, 59 and 60, which start a delayed pickup, and 58, which takes the
\* two things it names at once; action 61, which starts a drop.  They carry the
\* origin that pushAction has tagged them with.  `completes' and `allowed' are
\* what the native code will do with the action under way, and find of the place
\* where the thing is dropped: the same in every world that agrees.
Pickups == [kind : {"pickup"}, who : Controller, first : Thing, completes : BOOLEAN]
Batches == [kind : {"batch"}, who : Controller, first : Thing, second : Thing]
Drops == [kind : {"drop"}, who : Origin, completes : BOOLEAN, allowed : BOOLEAN]

\* What the simulation does at the same tick in every peer: a scripted pickup,
\* the end of the action under way, possession, the save every 30 seconds, and
\* the reload of that save.
Scripted == [kind : {"script", "possess"}, first : Thing]
Ticks == [kind : {"end", "release", "save", "resync"}]

Command == Pickups \cup Batches \cup Drops \cup Scripted \cup Ticks

Asking(c) ==
  IF c.kind = "pickup" THEN {<<c.who, c.first>>}
  ELSE IF c.kind = "batch" THEN {<<c.who, c.first>>, <<c.who, c.second>>}
  ELSE {}

\* The native code accepts the possession of a creature that is on the map.
Possessing(w, x) ==
  IF w.possessed = Nothing /\ x \notin Held(w.hand) THEN [w EXCEPT !.possessed = x]
  ELSE w

\* The handlers of the actions, and the parts of the tick.
Applied(w, c) ==
  CASE c.kind = "pickup" -> Picked(w, c.first, c.who, c.completes)
    [] c.kind = "batch" -> TakeThing(TakeThing(w, c.first, c.who), c.second, c.who)
    [] c.kind = "drop" -> Started(w, Drop(c.who, c.allowed), c.completes)
    [] c.kind = "script" -> TakeThing(w, c.first, NoOne)
    [] c.kind = "end" -> Ended(w)
    [] c.kind = "possess" -> Possessing(w, c.first)
    [] c.kind = "release" -> [w EXCEPT !.possessed = Nothing]
    [] c.kind = "save" -> [w EXCEPT !.saved = Saved(w)]
    [] c.kind = "resync" -> Restored(w)

-----------------------------------------------------------------------------
(* Steps *)

Init ==
  /\ stream = << >>
  /\ at = [p \in Peer |-> 0]
  /\ world = [p \in Peer |-> Fresh]
  /\ ideal = <<Fresh>>
  /\ diverged = {}
  /\ unsound = {}
  /\ asked = {}

\* A command enters the stream.
Order(c) ==
  /\ Len(stream) < MaxAhead
  /\ c.kind \in Kinds
  /\ stream' = Append(stream, c)
  /\ ideal' = Append(ideal, Applied(ideal[Len(ideal)], c))
  /\ asked' = asked \cup Asking(c)
  /\ UNCHANGED <<at, world, diverged, unsound>>

\* A reload leaves p as sound as its save, a save is as sound as p.
Sound(p, c) ==
  /\ diverged' = IF c.kind # "resync" THEN diverged
                 ELSE IF p \in unsound THEN diverged \cup {p} ELSE diverged \ {p}
  /\ unsound' = IF c.kind # "save" THEN unsound
                ELSE IF p \in diverged THEN unsound \cup {p} ELSE unsound \ {p}

\* What is held or saved, or under way, or still to be applied.
AtHand(w) ==
  Held(w.hand) \cup Held(w.saved.hand)
  \cup UNION {IF k.kind = "take" THEN {k.target} ELSE {} : k \in {w.action, w.saved.action}}
Open(ws, cs) ==
  (UNION {AtHand(ws[p]) : p \in Peer})
  \cup {q[2] : q \in UNION {Asking(cs[i]) : i \in DOMAIN cs}}

\* p applies its next command.  What every peer has applied is forgotten.
Apply(p) ==
  LET c == stream[at[p] + 1]
      on == [at EXCEPT ![p] = @ + 1]
      all == \A q \in Peer : on[q] > 0
  IN /\ at[p] < Len(stream)
     /\ world' = [world EXCEPT ![p] = Applied(world[p], c)]
     /\ Sound(p, c)
     /\ at' = IF all THEN [q \in Peer |-> on[q] - 1] ELSE on
     /\ stream' = IF all THEN Tail(stream) ELSE stream
     /\ ideal' = IF all THEN Tail(ideal) ELSE ideal
     /\ asked' = {q \in asked : q[2] \in Open(world', stream')}

\* p's table of owners goes wrong, for whatever reason.
Disowned(w, x, o) == [w EXCEPT !.owner = [@ EXCEPT ![x] = o]]
Diverge(p) ==
  /\ p \in Diverging \ diverged
  /\ \E x \in Thing, o \in Origin :
       world' = [world EXCEPT ![p] = Disowned(world[p], x, o)]
  /\ diverged' = diverged \cup {p}
  /\ UNCHANGED <<stream, at, ideal, unsound, asked>>

Next ==
  \/ \E c \in Command : Order(c)
  \/ \E p \in Peer : Apply(p) \/ Diverge(p)

Spec == Init /\ [][Next]_vars

-----------------------------------------------------------------------------
(* Properties *)

\* The state has its types, no thing is in the stack twice, and the stack never outgrows
\* its array of 64, which the readers of the hand abort on.
TypeOK ==
  /\ stream \in Seq(Command)
  /\ at \in [Peer -> Nat]
  /\ world \in [Peer -> World]
  /\ ideal \in Seq(World)
  /\ diverged \subseteq Peer
  /\ unsound \subseteq Peer
  /\ asked \subseteq Controller \X Thing
  /\ \A p \in Peer : Len(world[p].hand) <= Capacity
  /\ \A p \in Peer : \A i, j \in DOMAIN world[p].hand :
       world[p].hand[i] = world[p].hand[j] => i = j

\* Peers that have applied the same commands hold the same things, in the same
\* order, for the same owners, whatever the rest of their tables of owners says:
\* what the checksum compares is all that later commands depend on, and a reload
\* of a save, which has no more than that, brings a wrong world back in step.
InStep ==
  \A p, q \in Peer \ diverged :
    at[p] = at[q] => Saved(world[p]) = Saved(world[q])

\* Whoever owns a thing in the hand has asked for it: a pickup that completes
\* while another Controller's command is dispatched is not given to that one,
\* and a thing dropped and picked up again does not go to its former owner.
OwnerAsked ==
  \A p \in Peer \ diverged :
    \A x \in Held(world[p].hand) :
      world[p].owner[x] = NoOne \/ <<world[p].owner[x], x>> \in asked

\* The possessed creature is never in the hand, though a pickup may have been
\* under way when the possession began.
PossessedFree ==
  \A p \in Peer : world[p].possessed \notin Held(world[p].hand)

\* f lists P, a set of places, from the bottom of the stack to the top.
Lists(f, P) ==
  /\ \A j, k \in DOMAIN f : j < k => f[j] < f[k]
  /\ \A i \in P : \E k \in DOMAIN f : f[k] = i

\* What h has at the places P, in order.
Entries(h, P) ==
  LET f == CHOOSE g \in [1..Cardinality(P) -> P] : Lists(g, P)
  IN [k \in DOMAIN f |-> h[f[k]]]

\* The things that o holds, in the order it picked them up: now, and in a save.
HandOf(w, o) == Entries(w.hand, {i \in DOMAIN w.hand : w.owner[w.hand[i]] = o})
SavedHandOf(s, o) == Entries(s.hand, {i \in DOMAIN s.hand : s.slots[i] = o})

Separate == INSTANCE SeparateHands WITH
  Owners <- Origin,
  hands <- [o \in Origin |-> HandOf(world[Watched], o)],
  dropping <- IF world[Watched].action.kind = "drop" THEN world[Watched].action.who
              ELSE NoOne,
  kept <- [o \in Origin |-> SavedHandOf(world[Watched].saved, o)]

\* "Each has separate hand contents within the shared native hand capacity": each
\* Controller drops only from the end of its own hand or of what belongs to
\* nobody, and nobody else's hand is disturbed by it.
ImplementsSeparateHands == Separate!Spec
=============================================================================
