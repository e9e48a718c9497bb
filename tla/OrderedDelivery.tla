--------------------------- MODULE OrderedDelivery ---------------------------
(***************************************************************************)
(* What the host-to-client system messages of weanetr_dll promise to each  *)
(* client: the messages are handled in the order in which they were        *)
(* scheduled, each at most once, for as long as the client's channel has   *)
(* not been broken.  Nothing is promised of a broken channel.              *)
(***************************************************************************)
EXTENDS Naturals, Sequences

CONSTANTS
  Receivers,   \* the clients
  Payload      \* what a message can carry

VARIABLES
  sent,        \* per receiver: every message scheduled for it, in order
  got,         \* per receiver: every message it has handled, in order
  broken       \* per receiver: its channel has stopped being an ordered one

vars == <<sent, got, broken>>

Init ==
  /\ sent = [r \in Receivers |-> << >>]
  /\ got = [r \in Receivers |-> << >>]
  /\ broken = [r \in Receivers |-> FALSE]

-----------------------------------------------------------------------------

\* Once broken, a channel stays broken; any step may break it.
StaysBroken(r) == broken[r] => broken'[r]

Rests(r) ==
  /\ sent'[r] = sent[r]
  /\ got'[r] = got[r]
  /\ StaysBroken(r)

\* A message is scheduled for r.
Send(r) ==
  /\ \E m \in Payload : sent'[r] = Append(sent[r], m)
  /\ got'[r] = got[r]
  /\ StaysBroken(r)

\* r handles the oldest message it has not handled.
Deliver(r) ==
  /\ Len(got[r]) < Len(sent[r])
  /\ got'[r] = Append(got[r], sent[r][Len(got[r]) + 1])
  /\ sent'[r] = sent[r]
  /\ StaysBroken(r)

\* r handles something else, which only a broken channel allows.
Misdeliver(r) ==
  /\ broken[r]
  /\ broken'[r]
  /\ sent'[r] = sent[r]

Step(r) == Rests(r) \/ Send(r) \/ Deliver(r) \/ Misdeliver(r)

\* One scheduling call reaches several receivers at once.
Next ==
  /\ sent' = [r \in Receivers |-> sent'[r]]
  /\ got' = [r \in Receivers |-> got'[r]]
  /\ broken' = [r \in Receivers |-> broken'[r]]
  /\ \A r \in Receivers : Step(r)

Spec == Init /\ [][Next]_vars
=============================================================================
