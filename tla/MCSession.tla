------------------------------ MODULE MCSession ------------------------------
EXTENDS Session

CONSTANTS p1, p2, p3

Three == {p1, p2, p3}
Two == {p1, p2}
OnlyFirst == {p1}
OnlyLast == {p3}

ASSUME RoomAssumption == RoomForAll
=============================================================================
