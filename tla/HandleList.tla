------------------------------ MODULE HandleList ------------------------------
(***************************************************************************)
(* The list of received system messages a client has still to handle,     *)
(* f257_toHandleList: a doubly linked list of which only `first' and the   *)
(* `next' pointers lead anywhere.  A list is modelled as the sequence of   *)
(* the entries that can be reached from `first'.  Of `prev' only whether   *)
(* it is NULL is ever read.                                                *)
(***************************************************************************)
EXTENDS Integers, Sequences

Entry(i, body, prev) == [id |-> i, body |-> body, prev |-> prev]

Holds(q, i) == \E k \in DOMAIN q : q[k].id = i

\* The first entry with a number above i, which the insertion stops at.
Above(q, i) == {k \in DOMAIN q : i < q[k].id}
FirstAbove(q, i) == CHOOSE k \in Above(q, i) : \A j \in Above(q, i) : k <= j

\* handlePacket_1_2_9_B_E: the new entry goes before the first larger one, whose
\* `prev' it takes over.  `first' is moved to the new entry when that `prev' was
\* NOT null, and left alone when it was: in front of the first entry the new one
\* is linked to but cannot be reached, further in it cuts off all before it.
Insert(q, i, body) ==
  LET k == FirstAbove(q, i)
      r == [q EXCEPT ![k].prev = TRUE]
  IN IF q = << >> THEN <<Entry(i, body, FALSE)>>
     ELSE IF Above(q, i) = {} THEN Append(q, Entry(i, body, TRUE))
     ELSE IF q[k].prev THEN <<Entry(i, body, TRUE)>> \o SubSeq(r, k, Len(q))
     ELSE r

\* popReceivedPacketToHandle: `first' moves on only if its `prev' was NULL,
\* otherwise it keeps pointing at the entry that has just been freed.
Popped(q) ==
  IF Head(q).prev \/ Len(q) = 1 THEN << >>
  ELSE [Tail(q) EXCEPT ![1].prev = FALSE]
=============================================================================
