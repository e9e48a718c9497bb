------------------------------ MODULE MCLockstep ------------------------------
EXTENDS Lockstep

CONSTANT a

OnlyA == {a}
=============================================================================
