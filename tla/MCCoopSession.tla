----------------------------- MODULE MCCoopSession -----------------------------
(***************************************************************************)
(* The two parts of a co-op session that watch the world around its tick,  *)
(* the ending and the shared possession.  They share the players and       *)
(* nothing else, so a behaviour is one of either: every behaviour of each  *)
(* is here, and none of the steps of one in between those of the other.    *)
(***************************************************************************)
EXTENDS GemEnding, Possession, TLC

CONSTANTS left, right, us, them, imp, troll, tag1, tag2

Both == {left, right}
Two == {us, them}
Creatures == {imp, troll}
Tags == {tag1, tag2}
Alike == Permutations(Creatures) \cup Permutations(Tags)

VARIABLE part

Start ==
  /\ Init /\ PInit
  /\ part \in {"ending", "possession"}
  /\ part = "possession" => \A p \in Peer : session[p].world.kind = "none"

Step ==
  \/ part = "ending" /\ Next /\ UNCHANGED <<part, pvars>>
  \/ part = "possession" /\ PNext /\ UNCHANGED <<part, vars>>

\* The fairness is that of the ending.
BothParts == Start /\ [][Step]_<<part, vars, pvars>> /\ (part = "ending" => Fairness)
=============================================================================
