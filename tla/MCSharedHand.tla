----------------------------- MODULE MCSharedHand -----------------------------
EXTENDS SharedHand, TLC

CONSTANTS a, b, x, y, z

Both == {a, b}
OnlyA == {a}
None == {}
TwoThings == {x, y}
ThreeThings == {x, y, z}

Possession == {"pickup", "batch", "drop", "script", "end", "possess", "release"}
Rollback == {"pickup", "end", "save", "resync"}

ThingsAlike == Permutations(Thing)
=============================================================================
