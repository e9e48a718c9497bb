------------------------------- MODULE MCResync -------------------------------
EXTENDS Resync, TLC

CONSTANTS h, a

Two == {h, a}
OnlyA == {a}
None == {}

NoCamera == {NoScript}
Camera == {NoScript, [kind |-> "move", ms |-> 750], [kind |-> "path", points |-> 10]}
Both == {0, SavePeriod}
Now == {0}
Always == {TRUE}
=============================================================================
