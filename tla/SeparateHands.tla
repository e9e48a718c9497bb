----------------------------- MODULE SeparateHands -----------------------------
(***************************************************************************)
(* What the Controllers of a co-op session are promised of their Keeper's  *)
(* hand: each has a hand of its own, which grows and shrinks at its end,   *)
(* and which no other Controller's drop takes from; together they hold no  *)
(* more than the native stack can.  A reload brings all of them back to    *)
(* where they were at the last save.                                       *)
(***************************************************************************)
EXTENDS Naturals, Sequences, FiniteSets

CONSTANTS Owners, NoOne, Thing, Capacity

VARIABLES
  hands,    \* per owner: what it holds, in the order it was picked up
  dropping, \* whose drop is under way; NoOne for a scripted one
  kept      \* the hands at the last save

vars == <<hands, dropping, kept>>

Holding(h, o) == {h[o][i] : i \in DOMAIN h[o]}
Held == UNION {Holding(hands, o) : o \in Owners}
Places(h) == UNION {{o} \X DOMAIN h[o] : o \in Owners}

Init ==
  /\ hands = [o \in Owners |-> << >>]
  /\ dropping = NoOne
  /\ kept = hands

\* hands[o] goes on from where it was, with things nobody held.
Extends(o) ==
  /\ Len(hands[o]) <= Len(hands'[o])
  /\ SubSeq(hands'[o], 1, Len(hands[o])) = hands[o]
  /\ \A i \in Len(hands[o]) + 1 .. Len(hands'[o]) : hands'[o][i] \in Thing \ Held

PickUp ==
  /\ \A o \in Owners : Extends(o)
  /\ Cardinality(Places(hands')) <= Capacity
  /\ kept' = kept

\* The last thing of a hand is dropped: of the Controller's own, or of what
\* belongs to nobody.
LayDown(o) ==
  /\ dropping \in {o, NoOne} \/ o = NoOne
  /\ hands[o] # << >>
  /\ hands' = [hands EXCEPT ![o] = SubSeq(@, 1, Len(@) - 1)]
  /\ kept' = kept

Keep == kept' = hands /\ UNCHANGED hands
Return == hands' = kept /\ UNCHANGED kept

Next == PickUp \/ (\E o \in Owners : LayDown(o)) \/ Keep \/ Return

Spec == Init /\ [][Next]_vars
=============================================================================
