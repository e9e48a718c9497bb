---------------------------- MODULE MCSystemChannel ----------------------------
EXTENDS SystemChannel, TLC

CONSTANTS p1, p2, p3

Two == {p1, p2}
Three == {p1, p2, p3}
OnlyFirst == {p1}

NewcomersAlike == Permutations(Three \ OnlyFirst)
=============================================================================
