------------------------------ MODULE KeeperHand ------------------------------
(***************************************************************************)
(* The hand of the one Keeper that all Controllers of a co-op session      *)
(* command, as one peer simulates it: network_hands and the parts of       *)
(* CPlayer it hooks.  The native stack of things is shared; a table beside *)
(* it says which Controller picked each thing up, and a Controller drops   *)
(* only what is its own or nobody's.                                       *)
(*                                                                         *)
(* A world is a record: the operators below are what the hooks do to it.   *)
(* What the native bodies do is known from how the hooks use them: they    *)
(* insert a thing that is not held if there is room, run one player action *)
(* at a time, and pop the top of the stack.                                *)
(***************************************************************************)
EXTENDS Integers, Sequences

CONSTANTS
  Controller,  \* the origins 1..8: one Controller for each player slot
  NoOne,       \* the origin 0: a native or scripted pickup
  Thing,       \* what can be held, by tag
  Nothing,     \* the tag 0
  Capacity     \* the native stack's size, 64

ASSUME NoOneAssumption == NoOne \notin Controller
ASSUME NothingAssumption == Nothing \notin Thing
ASSUME CapacityAssumption == Capacity \in Nat \ {0}

Origin == Controller \cup {NoOne}

-----------------------------------------------------------------------------
(* State *)

\* inst__playerAction: the pickup or drop under way.  A delayed pickup keeps its
\* origin in evData2, a drop in the top bits of evData3; `allowed' is what
\* checkPlayerAllowToDrop will answer where the thing is dropped.
Idle == [kind |-> "idle"]
Take(x, who) == [kind |-> "take", target |-> x, who |-> who]
Drop(who, allowed) == [kind |-> "drop", who |-> who, allowed |-> allowed]

Actions ==
  {Idle} \cup {Take(x, o) : x \in Thing, o \in Origin}
         \cup {Drop(o, b) : o \in Origin, b \in BOOLEAN}

\* What a save of the world holds: the native Keeper record, and SavedOwners
\* with an owner for each place of the stack.
Slots(w) == [i \in DOMAIN w.hand |-> w.owner[w.hand[i]]]
Saved(w) == [hand |-> w.hand, slots |-> Slots(w), action |-> w.action,
             possessed |-> w.possessed]

Save == [hand : Seq(Thing), slots : Seq(Origin), action : Actions,
         possessed : Thing \cup {Nothing}]
World == [hand : Seq(Thing), owner : [Thing -> Origin], action : Actions,
          possessed : Thing \cup {Nothing}, saved : Save]

\* resetSession: a new session inherits no owner.
Empty == [hand |-> << >>, owner |-> [x \in Thing |-> NoOne], action |-> Idle,
          possessed |-> Nothing]
Fresh == [hand |-> << >>, owner |-> [x \in Thing |-> NoOne], action |-> Idle,
          possessed |-> Nothing, saved |-> Saved(Empty)]

Held(h) == {h[i] : i \in DOMAIN h}

-----------------------------------------------------------------------------
(* Pickup *)

\* Mutants: the origin of the action under way goes to whatever comes in; the
\* possessed creature is not rechecked.
CompletingOrigin_incoming(a, x, batchOf) ==
  IF batchOf # NoOne \/ a.kind # "take" THEN batchOf ELSE a.who
Blocked_never(w, x) == FALSE

\* completingOrigin: a thing may come into the hand from the action under way
\* while another Controller's command is being dispatched.
CompletingOrigin(a, x, batchOf) ==
  IF a.kind = "take" /\ a.target = x THEN a.who ELSE batchOf

\* possessionBlocksPickup
Blocked(w, x) == w.possessed = x

\* The native insertion accepts what is not held, if there is room.
Fits(w, x) == x \notin Held(w.hand) /\ Len(w.hand) < Capacity

Owned(w, x, batchOf) ==
  [w EXCEPT !.owner = [@ EXCEPT ![x] = CompletingOrigin(w.action, x, batchOf)]]

\* CPlayer::takeThingInHand.  batchOf is the origin of the batch pickup that is
\* being dispatched, if one is.
TakeThing(w, x, batchOf) ==
  IF ~ Blocked(w, x) /\ Fits(w, x)
  THEN [Owned(w, x, batchOf) EXCEPT !.hand = Append(@, x)]
  ELSE w

-----------------------------------------------------------------------------
(* Drop *)

\* Ownership::visible: what o may drop.
Visible(w, o) == {i \in DOMAIN w.hand : w.owner[w.hand[i]] \in {NoOne, o}}

\* Ownership::latest, 0 if there is none.
Latest(w, o) ==
  IF Visible(w, o) = {} THEN 0
  ELSE CHOOSE i \in Visible(w, o) : \A j \in Visible(w, o) : j <= i

\* network_hands::dropIndex: a native drop pops the top of the whole stack.
DropIndex(w, o) == IF o = NoOne THEN Len(w.hand) ELSE Latest(w, o)

\* A mutant of Promote: the entry is exchanged with the top.
Promote_swap(h, i) == [h EXCEPT ![i] = h[Len(h)], ![Len(h)] = h[i]]

\* Ownership::promote: entry i is moved to the top, the others keep their order.
Promote(h, i) ==
  [k \in DOMAIN h |-> IF k < i THEN h[k] ELSE IF k < Len(h) THEN h[k + 1] ELSE h[i]]

\* CPlayer::act4_dropThingFromHand, with dropThingFromHand popping the top.
DropThing(w, o, allowed) ==
  LET i == DropIndex(w, o)
  IN IF i = 0 \/ ~ allowed THEN w
     ELSE [w EXCEPT !.hand = SubSeq(Promote(w.hand, i), 1, Len(w.hand) - 1)]

-----------------------------------------------------------------------------
(* Player actions *)

\* The action under way ends: a pickup in act3, a drop in act4.
Ended(w) ==
  [ IF w.action.kind = "take" THEN TakeThing(w, w.action.target, NoOne)
    ELSE IF w.action.kind = "drop" THEN DropThing(w, w.action.who, w.action.allowed)
    ELSE w EXCEPT !.action = Idle ]

\* A new action takes the place of the one under way, which the native code may
\* complete first.
Started(w, a, completes) ==
  [ IF completes THEN Ended(w) ELSE w EXCEPT !.action = a ]

\* CPlayer::doPlayerAction of a pickup: the possessed creature is refused before
\* the action under way is replaced.
Picked(w, x, who, completes) ==
  IF Blocked(w, x) THEN w ELSE Started(w, Take(x, who), completes)

-----------------------------------------------------------------------------
(* Save and load *)

\* Where a saved stack holds x.
Place(h, x) == CHOOSE i \in DOMAIN h : h[i] = x

\* Mutants of Restored: the owners are read in the order from the top of the stack;
\* the owners stay as they are.
Restored_topFirst(w) ==
  [w EXCEPT !.hand = w.saved.hand, !.action = w.saved.action,
            !.possessed = w.saved.possessed,
            !.owner = [x \in Thing |->
              IF x \in Held(w.saved.hand)
              THEN w.saved.slots[Len(w.saved.hand) + 1 - Place(w.saved.hand, x)]
              ELSE w.owner[x]]]
Restored_stack(w) ==
  [w EXCEPT !.hand = w.saved.hand, !.action = w.saved.action,
            !.possessed = w.saved.possessed]

\* fun_4B9250 after the native load: only the owners of what is held are saved.
Restored(w) ==
  [w EXCEPT !.hand = w.saved.hand, !.action = w.saved.action,
            !.possessed = w.saved.possessed,
            !.owner = [x \in Thing |->
              IF x \in Held(w.saved.hand) THEN w.saved.slots[Place(w.saved.hand, x)]
              ELSE w.owner[x]]]
=============================================================================
