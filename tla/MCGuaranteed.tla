---------------------------- MODULE MCGuaranteed ----------------------------
EXTENDS GuaranteedDelivery, TLC

CONSTANTS h, a, b, c

Both == {a, b}
Three == {a, b, c}
OnlyA == {a}
OnlyB == {b}
OnlyC == {c}
OnlyHost == {h}

InSession(slots) == [n \in Clients \cup {Host} |-> slots[n]]
OwnSlots == InSession(h :> 0 @@ a :> 1 @@ b :> 2 @@ c :> 3)
\* The newcomer c comes into the slot of b.
ReusedSlot == InSession(h :> 0 @@ a :> 1 @@ b :> 2 @@ c :> 2)
=============================================================================
