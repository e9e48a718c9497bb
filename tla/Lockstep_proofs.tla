---------------------------- MODULE Lockstep_proofs ----------------------------
(***************************************************************************)
(* Theorems about Lockstep, for any number of clients and ticks and any    *)
(* lengths of ring, answers and history: the types, that every client      *)
(* applies the host's ticks and nothing else, that a client taken to have  *)
(* come to the host's tick has, and that the ticks are an ordered delivery. *)
(*                                                                         *)
(* The invariant says that nothing on its way to a client, queued or in a  *)
(* ring contradicts what the host has ordered.  That is enough, whatever   *)
(* is lost, repeated or displaced.                                         *)
(***************************************************************************)
EXTENDS Lockstep, SequenceTheorems, LeastElement_proofs

USE IdleAssumption, NumbersAssumption

-----------------------------------------------------------------------------
(* The invariant *)

\* Item i says of its ticks what the host has ordered, o.
Says(o, i) == i.last <= Len(o) /\ \A t \in i.first..i.last : o[t] = i.acts

Right(o, x) == x.tick <= Len(o) /\ o[x.tick] = x.acts

NetSays == \A d \in net : \A i \in d.items : Says(ordered, i)
QueueSays == \A c \in Client : \A i \in queue[c] : Says(ordered, i)
RingRight == \A c \in Client : \A x \in ring[c] : Right(ordered, x)
HighKnown == \A c \in Client : high[c] <= Len(ordered)

\* A client has gone on since it told how far it has come.
PongsPast == \A a \in pongs : a.tick < start[a.from]

IInv ==
  /\ TypeOK /\ NetSays /\ QueueSays /\ RingRight /\ HighKnown /\ PongsPast
  /\ SameTicks /\ AllCome

-----------------------------------------------------------------------------
(* The beginning of a sequence *)

LEMMA PrefixGrows ==
  ASSUME NEW S, NEW s \in Seq(S), NEW e \in S, NEW n \in 0..Len(s)
  PROVE  SubSeq(Append(s, e), 1, n) = SubSeq(s, 1, n)
<1>1. /\ Append(s, e) \in Seq(S) /\ Len(Append(s, e)) = Len(s) + 1
      /\ \A i \in 1..Len(s) : Append(s, e)[i] = s[i]
      /\ Len(s) \in Nat
  BY AppendProperties, LenProperties
<1>2. /\ SubSeq(Append(s, e), 1, n) \in Seq(S)
      /\ Len(SubSeq(Append(s, e), 1, n)) = n
      /\ \A i \in 1..n : SubSeq(Append(s, e), 1, n)[i] = s[i]
  BY <1>1, SubSeqProperties, ElementOfSeq
<1>3. /\ SubSeq(s, 1, n) \in Seq(S)
      /\ Len(SubSeq(s, 1, n)) = n
      /\ \A i \in 1..n : SubSeq(s, 1, n)[i] = s[i]
  BY <1>1, SubSeqProperties, ElementOfSeq
<1> QED
  BY <1>2, <1>3, SeqEqual

LEMMA PrefixExtends ==
  ASSUME NEW S, NEW s \in Seq(S), NEW n \in Nat, n < Len(s)
  PROVE  /\ SubSeq(s, 1, n) \in Seq(S) /\ Len(SubSeq(s, 1, n)) = n
         /\ Append(SubSeq(s, 1, n), s[n + 1]) = SubSeq(s, 1, n + 1)
<1>1. Len(s) \in Nat /\ s[n + 1] \in S /\ \A i \in 1..n : s[i] \in S
  BY LenProperties, ElementOfSeq
<1>2. SubSeq(s, 1, n) \in Seq(S) /\ Len(SubSeq(s, 1, n)) = n
  BY <1>1, SubSeqProperties
<1>3. PICK m : m = n + 1
  OBVIOUS
<1>4. 1 \in 1..Len(s) /\ m \in 1..Len(s) /\ m - 1 = n
  BY <1>1, <1>3
<1>5. SubSeq(s, 1, m) = SubSeq(s, 1, m - 1) \o <<s[m]>>
  BY <1>4, SubSeqRecursiveSecond
<1>6. Append(SubSeq(s, 1, n), s[n + 1]) = SubSeq(s, 1, n) \o <<s[n + 1]>>
  BY <1>1, <1>2, AppendIsConcat
<1> QED
  BY <1>2, <1>3, <1>4, <1>5, <1>6

-----------------------------------------------------------------------------
(* What the parts of a step do *)

\* The host orders one more tick: what was right stays right.
LEMMA OrderedGrows ==
  ASSUME ordered \in Seq(Acts), NEW e \in Acts
  PROVE  LET o == Append(ordered, e) IN
         /\ o \in Seq(Acts) /\ Len(ordered) \in Nat /\ Len(o) = Len(ordered) + 1
         /\ \A i \in Item : Says(ordered, i) => Says(o, i)
         /\ \A x \in Context : Right(ordered, x) => Right(o, x)
<1>1. /\ Append(ordered, e) \in Seq(Acts) /\ Len(Append(ordered, e)) = Len(ordered) + 1
      /\ \A k \in 1..Len(ordered) : Append(ordered, e)[k] = ordered[k]
      /\ Len(ordered) \in Nat
  BY AppendProperties, LenProperties
<1>2. ASSUME NEW i \in Item, Says(ordered, i) PROVE Says(Append(ordered, e), i)
  <2>1. i.first \in Nat /\ 1 <= i.first /\ i.last \in Nat
    BY DEF Item, Tick
  <2> QED
    BY <1>1, <1>2, <2>1 DEF Says
<1>3. ASSUME NEW x \in Context, Right(ordered, x) PROVE Right(Append(ordered, e), x)
  <2>1. x.tick \in Nat /\ 1 <= x.tick
    BY DEF Context, Tick
  <2> QED
    BY <1>1, <1>3, <2>1 DEF Right
<1> QED
  BY <1>1, <1>2, <1>3

\* What is sent of a tick that is kept, and of the idle ones around it.
LEMMA OfSays ==
  ASSUME NEW o \in Seq(Acts), NEW t, Kept(o, t)
  PROVE  Of(o, t) \in Item /\ Says(o, Of(o, t))
<1>1. Len(o) \in Nat /\ t \in 1..Len(o)
  BY LenProperties DEF Kept
<1>2. o[t] \in Acts /\ t \in Tick
  BY <1>1, ElementOfSeq DEF Tick
<1> QED
  BY <1>1, <1>2 DEF Of, Item, Says, Tick

LEMMA RunSays ==
  ASSUME NEW o \in Seq(Acts), NEW a \in Nat, NEW b \in Nat, 1 <= a, a <= b, IdleRun(o, a, b)
  PROVE  Run(a, b) \in Item /\ Says(o, Run(a, b))
<1>1. Len(o) \in Nat /\ \A t \in a..b : t \in 1..Len(o) /\ o[t] = Idle
  BY LenProperties DEF IdleRun, Kept
<1>2. b \in a..b
  OBVIOUS
<1> QED
  BY <1>1, <1>2 DEF Run, Item, Says, Tick

\* The contexts a queue that says the truth gives.
LEMMA ArrivalsRight ==
  ASSUME TypeOK, QueueSays, NEW c \in Client
  PROVE  Arrivals(c) \subseteq Context /\ \A x \in Arrivals(c) : Right(ordered, x)
<1> SUFFICES ASSUME NEW x \in Arrivals(c) PROVE x \in Context /\ Right(ordered, x)
  OBVIOUS
<1>1. PICK i \in queue[c] : \E t \in i.first..i.last : x = [tick |-> t, acts |-> i.acts]
  BY DEF Arrivals
<1> PICK t \in i.first..i.last : x = [tick |-> t, acts |-> i.acts]
  BY <1>1
<1>2. i \in Item /\ Says(ordered, i)
  BY DEF TypeOK, QueueSays
<1>3. i.first \in Nat /\ 1 <= i.first /\ i.last \in Nat /\ i.acts \in Acts /\ t \in Nat /\ 1 <= t
  BY <1>2 DEF Item, Tick
<1>4. Len(ordered) \in Nat
  BY LenProperties DEF TypeOK
<1>5. t <= Len(ordered) /\ ordered[t] = i.acts
  BY <1>2, <1>3, <1>4 DEF Says
<1> QED
  BY <1>3, <1>5 DEF Context, Tick, Right

LEMMA HighestKnown ==
  ASSUME TypeOK, QueueSays, HighKnown, NEW c \in Client
  PROVE  Highest(c) \in Nat /\ Highest(c) <= Len(ordered)
<1> DEFINE known == {high[c]} \cup {i.last : i \in queue[c]}
<1>1. Len(ordered) \in Nat /\ high[c] \in Nat /\ high[c] <= Len(ordered)
  BY LenProperties DEF TypeOK, HighKnown
<1>2. \A i \in queue[c] : i.last \in Nat /\ i.last <= Len(ordered)
  BY DEF TypeOK, QueueSays, Says, Item
<1>3. known \in SUBSET (0..Len(ordered)) /\ known # {}
  BY <1>1, <1>2
<1> HIDE DEF known
<1>4. \E h \in known : \A k \in known : k <= h
  BY <1>1, <1>3, GreatestElement
<1>5. Highest(c) = CHOOSE h \in known : \A k \in known : k <= h
  BY DEF Highest, known
<1>6. Highest(c) \in known
  BY <1>4, <1>5
<1>7. Highest(c) \in 0..Len(ordered)
  BY <1>3, <1>6
<1> QED
  BY <1>1, <1>7

-----------------------------------------------------------------------------
(* Every step keeps the invariant *)

LEMMA OrderTickKeeps ==
  ASSUME IInv, NEW e \in Acts, OrderTick(e)
  PROVE  IInv'
<1> DEFINE o == Append(ordered, e)
           t == Len(o)
           items == {Of(o, t)} \cup {Run(a, t - 1) : a \in RunBefore(o, t)}
<1>1. /\ TypeOK
      /\ ordered' = o
      /\ net' = net \cup {[to |-> c, items |-> items, again |-> FALSE] : c \in Members}
      /\ ~syncing
      /\ UNCHANGED <<syncing, mask, asked, pongs, member, queue, ring, start, high, done>>
  BY DEF IInv, OrderTick, clientVars
<1>2. /\ o \in Seq(Acts) /\ Len(ordered) \in Nat /\ Len(o) = Len(ordered) + 1
      /\ \A i \in Item : Says(ordered, i) => Says(o, i)
      /\ \A x \in Context : Right(ordered, x) => Right(o, x)
  BY <1>1, OrderedGrows DEF TypeOK
<1>3. \A c \in Client : start[c] \in Nat /\ start[c] >= 1 /\ start[c] <= Len(ordered) + 1
  BY <1>1 DEF TypeOK, Tick, IInv, SameTicks
<1>4. \A c \in Client : SubSeq(o, 1, start[c] - 1) = SubSeq(ordered, 1, start[c] - 1)
  BY <1>1, <1>2, <1>3, PrefixGrows DEF TypeOK
<1> HIDE DEF o
<1>5. \A i \in items : i \in Item /\ Says(o, i)
  <2>1. Of(o, t) \in Item /\ Says(o, Of(o, t))
    <3>1. Kept(o, t)
      BY <1>2 DEF Kept
    <3> QED
      BY <1>2, <3>1, OfSays
  <2>2. ASSUME NEW a \in RunBefore(o, t) PROVE Run(a, t - 1) \in Item /\ Says(o, Run(a, t - 1))
    <3>1. a \in Nat /\ t - 1 \in Nat /\ 1 <= a /\ a <= t - 1 /\ IdleRun(o, a, t - 1)
      BY <1>2 DEF RunBefore
    <3> QED
      BY <1>2, <3>1, RunSays
  <2> QED
    BY <2>1, <2>2
<1> HIDE DEF items
<1>6. net' \subseteq Datagram
  <2>1. \A c \in Members : [to |-> c, items |-> items, again |-> FALSE] \in Datagram
    BY <1>5 DEF Members, Datagram
  <2> QED
    BY <1>1, <2>1 DEF TypeOK
<1>7. TypeOK'
  BY <1>1, <1>2, <1>6 DEF TypeOK
<1>8. NetSays'
  <2>1. \A d \in net : \A i \in d.items : i \in Item
    BY <1>1 DEF TypeOK, Datagram
  <2> QED
    BY <1>1, <1>2, <1>5, <2>1 DEF IInv, NetSays
<1>9. QueueSays' /\ RingRight'
  BY <1>1, <1>2 DEF IInv, TypeOK, QueueSays, RingRight
<1>10. HighKnown' /\ PongsPast' /\ AllCome'
  BY <1>1, <1>2 DEF IInv, TypeOK, HighKnown, PongsPast, AllCome
<1>11. SameTicks'
  BY <1>1, <1>2, <1>3, <1>4 DEF IInv, SameTicks
<1> QED
  BY <1>7, <1>8, <1>9, <1>10, <1>11 DEF IInv

LEMMA ReceiveKeeps ==
  ASSUME IInv, NEW c \in Client, NEW d \in net, Receive(c, d)
  PROVE  IInv'
<1>1. /\ TypeOK
      /\ UNCHANGED <<ordered, syncing, mask, net, asked, pongs, member, ring, start, high, done>>
  BY DEF IInv, Receive
<1>2. PICK some \in SUBSET d.items : queue' = [queue EXCEPT ![c] = @ \cup some]
  BY DEF Receive
<1>3. \A i \in some : i \in Item /\ Says(ordered, i)
  BY <1>1 DEF IInv, NetSays, TypeOK, Datagram
<1>4. TypeOK'
  BY <1>1, <1>2, <1>3 DEF TypeOK
<1>5. QueueSays'
  BY <1>1, <1>2, <1>3 DEF IInv, QueueSays, TypeOK
<1> QED
  BY <1>1, <1>4, <1>5 DEF IInv, NetSays, RingRight, HighKnown, PongsPast, SameTicks, AllCome

\* The question of c is well formed.
LEMMA AskType ==
  ASSUME TypeOK, NEW c \in Client, NEW a \in Tick, NEW b \in Nat, Ask(c, a, b)
  PROVE  asked' \subseteq Question
BY DEF Ask, TypeOK, Question

LEMMA MissingType ==
  ASSUME NEW r, NEW t \in Tick, NEW h \in Nat, NEW m \in Missing(r, t, h)
  PROVE  m[1] \in Tick /\ m[2] \in Nat
BY DEF Missing, Tick

LEMMA CollectKeeps ==
  ASSUME IInv, NEW c \in Client, Collect(c)
  PROVE  IInv'
<1>1. /\ TypeOK
      /\ queue' = [queue EXCEPT ![c] = {}]
      /\ high' = [high EXCEPT ![c] = Highest(c)]
      /\ UNCHANGED <<ordered, syncing, mask, net, pongs, member>>
  BY DEF IInv, Collect
<1>2. PICK r \in Drained(c) :
       \/ \E x \in Due(r, start[c]) :
            /\ ring' = [ring EXCEPT ![c] = {y \in r \ {x} : y.tick > start[c]}]
            /\ start' = [start EXCEPT ![c] = @ + 1]
            /\ done' = [done EXCEPT ![c] = Append(@, x.acts)]
            /\ UNCHANGED asked
       \/ /\ ring' = [ring EXCEPT ![c] = r]
          /\ \/ UNCHANGED asked
             \/ \E m \in Missing(r, start[c], Highest(c)) : Ask(c, m[1], m[2])
          /\ UNCHANGED <<start, done>>
  BY DEF Collect
<1>3. r \subseteq Context /\ \A x \in r : Right(ordered, x)
  <2>1. r \subseteq ring[c] \cup Arrivals(c)
    BY DEF Drained
  <2> QED
    BY <2>1, ArrivalsRight DEF IInv, RingRight, TypeOK
<1>4. Highest(c) \in Nat /\ Highest(c) <= Len(ordered)
  BY HighestKnown DEF IInv
<1>5. Len(ordered) \in Nat /\ start[c] \in Nat /\ start[c] >= 1 /\ start[c] <= Len(ordered) + 1
      /\ done[c] = SubSeq(ordered, 1, start[c] - 1)
  BY <1>1, LenProperties DEF IInv, TypeOK, SameTicks, Tick
<1>6. asked' \subseteq Question
  <2>1. start[c] \in Tick
    BY <1>1 DEF TypeOK
  <2>2. ASSUME NEW m \in Missing(r, start[c], Highest(c)), Ask(c, m[1], m[2])
        PROVE  asked' \subseteq Question
    BY <1>1, <1>4, <2>1, <2>2, MissingType, AskType
  <2> QED
    BY <1>1, <1>2, <2>2 DEF TypeOK
<1>7. /\ queue' \in [Client -> SUBSET Item] /\ high' \in [Client -> Nat]
      /\ QueueSays' /\ HighKnown' /\ NetSays'
  BY <1>1, <1>4 DEF IInv, TypeOK, QueueSays, HighKnown, NetSays
<1>8. CASE /\ ring' = [ring EXCEPT ![c] = r]
           /\ UNCHANGED <<start, done>>
  <2>1. TypeOK' /\ RingRight'
    BY <1>1, <1>3, <1>6, <1>7, <1>8 DEF IInv, TypeOK, RingRight
  <2> QED
    BY <1>1, <1>7, <1>8, <2>1 DEF IInv, PongsPast, SameTicks, AllCome
<1>9. ASSUME NEW x \in Due(r, start[c]),
             ring' = [ring EXCEPT ![c] = {y \in r \ {x} : y.tick > start[c]}],
             start' = [start EXCEPT ![c] = @ + 1],
             done' = [done EXCEPT ![c] = Append(@, x.acts)]
      PROVE  IInv'
  <2>1. x \in Context /\ x.tick = start[c] /\ start[c] <= Len(ordered)
        /\ x.acts = ordered[start[c]]
    BY <1>3 DEF Due, Right
  <2>2. start'[c] = start[c] + 1 /\ \A k \in Client \ {c} : start'[k] = start[k] /\ done'[k] = done[k]
    BY <1>1, <1>9 DEF TypeOK
  <2>3. /\ start' \in [Client -> Tick]
        /\ done' \in [Client -> Seq(Acts)]
        /\ ring' \in [Client -> SUBSET Context]
    <3>1. start' \in [Client -> Tick]
      BY <1>1, <1>5, <1>9 DEF TypeOK, Tick
    <3>2. x.acts \in Acts /\ done[c] \in Seq(Acts)
      BY <1>1, <2>1 DEF Context, TypeOK
    <3>3. Append(done[c], x.acts) \in Seq(Acts)
      BY <3>2, AppendProperties
    <3> QED
      BY <1>1, <1>3, <1>9, <3>1, <3>3 DEF TypeOK
  <2>4. TypeOK'
    BY <1>1, <1>6, <1>7, <2>3 DEF TypeOK
  <2>5. RingRight'
    BY <1>1, <1>3, <1>9 DEF IInv, RingRight, TypeOK
  <2>6. PongsPast'
    <3>1. ASSUME NEW a \in pongs PROVE a.tick < start'[a.from]
      <4>1. a.tick \in Nat /\ a.from \in Client /\ a.tick < start[a.from]
        BY <1>1 DEF IInv, PongsPast, TypeOK
      <4>2. start[a.from] \in Nat
        BY <1>1, <4>1 DEF TypeOK, Tick
      <4> QED
        BY <2>2, <4>1, <4>2
    <3> QED
      BY <1>1, <3>1 DEF PongsPast
  <2>7. SameTicks'
    <3>1. PICK n : n = start[c] - 1
      OBVIOUS
    <3>2. n \in Nat /\ n < Len(ordered) /\ ordered \in Seq(Acts) /\ n + 1 = start[c]
      BY <1>1, <1>5, <2>1, <3>1 DEF TypeOK
    <3>3. Append(SubSeq(ordered, 1, n), ordered[n + 1]) = SubSeq(ordered, 1, n + 1)
      BY <3>2, PrefixExtends
    <3>4. done'[c] = Append(SubSeq(ordered, 1, n), ordered[n + 1])
      BY <1>1, <1>5, <1>9, <2>1, <3>1, <3>2 DEF TypeOK
    <3>5. start'[c] - 1 = n + 1 /\ start'[c] <= Len(ordered) + 1
      BY <1>5, <2>1, <2>2, <3>2
    <3> QED
      BY <1>1, <2>2, <3>3, <3>4, <3>5 DEF IInv, SameTicks
  <2>8. AllCome'
    <3>1. syncing => c \notin mask
      BY <1>5, <2>1 DEF IInv, AllCome
    <3> QED
      BY <1>1, <2>2, <3>1 DEF IInv, AllCome, TypeOK
  <2> QED
    BY <1>7, <2>4, <2>5, <2>6, <2>7, <2>8 DEF IInv
<1> QED
  BY <1>2, <1>8, <1>9

LEMMA ResendKeeps ==
  ASSUME IInv, NEW q \in asked, Resend(q)
  PROVE  IInv'
<1>1. /\ TypeOK
      /\ net' = net \cup {Answer(q, Turn(q)[k]) : k \in {j \in Turns(q) : Found(q, j)}}
      /\ UNCHANGED <<ordered, syncing, mask, asked, pongs, queue, ring, start, high, done>>
  BY DEF IInv, Resend, clientVars
<1>2. q.from \in Client /\ ordered \in Seq(Acts) /\ Len(ordered) \in Nat
  BY <1>1, LenProperties DEF TypeOK, Question
<1>3. member' \in [Client -> {"in", "dropped", "left"}]
  BY <1>1, <1>2 DEF Resend, TypeOK
<1>4. ASSUME NEW k \in Turns(q), Found(q, k)
      PROVE  /\ Answer(q, Turn(q)[k]) \in Datagram
             /\ \A i \in Answer(q, Turn(q)[k]).items : Says(ordered, i)
  <2>1. PICK t : t = Turn(q)[k]
    OBVIOUS
  <2>2. k \in 0..k
    BY DEF Turns
  <2>3. Kept(ordered, t)
    BY <1>4, <2>1, <2>2 DEF Found
  <2>4. t \in Nat /\ 1 <= t
    BY <2>3 DEF Kept
  <2>5. Of(ordered, t) \in Item /\ Says(ordered, Of(ordered, t))
    BY <1>2, <2>3, OfSays
  <2>6. ASSUME NEW b \in RunAfter(ordered, t)
        PROVE  Run(t + 1, b) \in Item /\ Says(ordered, Run(t + 1, b))
    <3>1. b \in Nat /\ t + 1 \in Nat /\ 1 <= t + 1 /\ t + 1 <= b /\ IdleRun(ordered, t + 1, b)
      BY <1>2, <2>4 DEF RunAfter
    <3> QED
      BY <1>2, <3>1, RunSays
  <2>7. \A i \in Answer(q, t).items : i \in Item /\ Says(ordered, i)
    BY <2>5, <2>6 DEF Answer
  <2>8. PICK its : Answer(q, t) = [to |-> q.from, again |-> TRUE, items |-> its]
    BY DEF Answer
  <2>9. its \subseteq Item
    BY <2>7, <2>8
  <2>10. [to |-> q.from, again |-> TRUE, items |-> its] \in Datagram
    BY <1>2, <2>9 DEF Datagram
  <2> QED
    BY <2>1, <2>7, <2>8, <2>10
<1>5. net' \subseteq Datagram /\ NetSays'
  BY <1>1, <1>4 DEF IInv, TypeOK, NetSays
<1>6. TypeOK'
  BY <1>1, <1>3, <1>5 DEF TypeOK
<1> QED
  BY <1>1, <1>5, <1>6 DEF IInv, QueueSays, RingRight, HighKnown, PongsPast, SameTicks, AllCome

LEMMA PongKeeps ==
  ASSUME IInv, NEW c \in Client, Pong(c)
  PROVE  IInv'
<1>1. /\ TypeOK
      /\ pongs' = pongs \cup {[from |-> c, tick |-> start[c] - 1]}
      /\ UNCHANGED <<ordered, syncing, mask, net, asked, member, queue, ring, start, high, done>>
  BY DEF IInv, Pong, clientVars
<1>2. start[c] \in Nat /\ start[c] >= 1
  BY <1>1 DEF TypeOK, Tick
<1>3. TypeOK'
  BY <1>1, <1>2 DEF TypeOK
<1>4. PongsPast'
  BY <1>1, <1>2 DEF IInv, PongsPast
<1> QED
  BY <1>1, <1>3, <1>4 DEF IInv, NetSays, QueueSays, RingRight, HighKnown, SameTicks, AllCome

LEMMA ReceivePongKeeps ==
  ASSUME IInv, NEW a \in pongs, ReceivePong(a)
  PROVE  IInv'
<1>1. /\ TypeOK
      /\ mask' = mask \cup {a.from}
      /\ a.tick = Len(ordered)
      /\ UNCHANGED <<ordered, syncing, net, asked, pongs, member, queue, ring, start, high, done>>
  BY DEF IInv, ReceivePong, InTime, clientVars
<1>2. a.from \in Client /\ a.tick < start[a.from] /\ start[a.from] <= Len(ordered) + 1
  BY <1>1 DEF IInv, PongsPast, SameTicks, TypeOK
<1>3. start[a.from] = Len(ordered) + 1
  BY <1>1, <1>2, LenProperties DEF TypeOK, Tick
<1>4. TypeOK'
  BY <1>1, <1>2 DEF TypeOK
<1>5. AllCome'
  BY <1>1, <1>3 DEF IInv, AllCome
<1> QED
  BY <1>1, <1>4, <1>5 DEF IInv, NetSays, QueueSays, RingRight, HighKnown, PongsPast, SameTicks

\* The steps that change neither what is ordered nor what is on its way to a client.
LEMMA OthersKeep ==
  ASSUME IInv,
         \/ \E c \in Client : Poll(c) \/ Silence(c)
         \/ BeginSync
         \/ \E timeout \in BOOLEAN : EndSync(timeout)
         \/ UNCHANGED vars
  PROVE  IInv'
<1>1. TypeOK
  BY DEF IInv
<1> USE DEF IInv, NetSays, QueueSays, RingRight, HighKnown, PongsPast, SameTicks, AllCome
<1>2. ASSUME NEW c \in Client, Poll(c) PROVE IInv'
  <2>1. start[c] \in Tick /\ start[c] \in Nat
    BY <1>1 DEF TypeOK, Tick
  <2>2. asked' \subseteq Question
    BY <1>1, <1>2, <2>1, AskType DEF Poll
  <2>3. UNCHANGED <<ordered, syncing, mask, net, pongs, member, queue, ring, start, high, done>>
    BY <1>2 DEF Poll, clientVars
  <2>4. TypeOK'
    BY <1>1, <2>2, <2>3 DEF TypeOK
  <2> QED
    BY <2>3, <2>4
<1>3. ASSUME NEW c \in Client, Silence(c) PROVE IInv'
  <2>1. UNCHANGED <<ordered, syncing, mask, net, asked, pongs, queue, ring, start, high, done>>
    BY <1>3 DEF Silence, clientVars
  <2>2. TypeOK'
    BY <1>1, <1>3, <2>1 DEF TypeOK, Silence
  <2> QED
    BY <2>1, <2>2
<1>4. CASE BeginSync
  <2>1. UNCHANGED <<ordered, net, asked, pongs, member, queue, ring, start, high, done>> /\ mask' = {}
    BY <1>4 DEF BeginSync, clientVars
  <2>2. TypeOK'
    BY <1>1, <1>4, <2>1 DEF TypeOK, BeginSync
  <2> QED
    BY <2>1, <2>2
<1>5. ASSUME NEW timeout \in BOOLEAN, EndSync(timeout) PROVE IInv'
  <2>1. UNCHANGED <<ordered, mask, net, asked, pongs, member, queue, ring, start, high, done>>
        /\ syncing' = FALSE
    BY <1>5 DEF EndSync, clientVars
  <2>2. TypeOK'
    BY <1>1, <2>1 DEF TypeOK
  <2> QED
    BY <2>1, <2>2
<1>6. CASE UNCHANGED vars
  <2>1. UNCHANGED <<ordered, syncing, mask, net, asked, pongs, member, queue, ring, start, high, done>>
    BY <1>6 DEF vars, clientVars
  <2>2. TypeOK'
    BY <1>1, <2>1 DEF TypeOK
  <2> QED
    BY <2>1, <2>2
<1> QED
  BY <1>2, <1>3, <1>4, <1>5, <1>6

LEMMA InitInv == Init => IInv
<1> SUFFICES ASSUME Init PROVE IInv
  OBVIOUS
<1>1. TypeOK
  <2>1. << >> \in Seq(Acts) /\ 1 \in Tick
    BY DEF Tick
  <2>2. /\ ordered \in Seq(Acts) /\ syncing \in BOOLEAN /\ mask \subseteq Client
        /\ net \subseteq Datagram /\ asked \subseteq Question
        /\ pongs \subseteq [from : Client, tick : Nat]
    BY <2>1 DEF Init
  <2>3. /\ member \in [Client -> {"in", "dropped", "left"}]
        /\ queue \in [Client -> SUBSET Item]
        /\ ring \in [Client -> SUBSET Context]
    BY DEF Init
  <2>4. /\ start \in [Client -> Tick] /\ high \in [Client -> Nat]
        /\ done \in [Client -> Seq(Acts)]
    BY <2>1 DEF Init
  <2> QED
    BY <2>2, <2>3, <2>4 DEF TypeOK
<1>2. \A c \in Client : start[c] - 1 = 0 /\ start[c] <= Len(ordered) + 1
  BY DEF Init
<1>3. SubSeq(ordered, 1, 0) = << >>
  BY SubSeqEmpty DEF Init
<1>4. SameTicks
  BY <1>2, <1>3 DEF Init, SameTicks
<1> QED
  BY <1>1, <1>4 DEF Init, IInv, NetSays, QueueSays, RingRight, HighKnown, PongsPast, AllCome

LEMMA StepInv == IInv /\ [Next]_vars => IInv'
<1> SUFFICES ASSUME IInv, [Next]_vars PROVE IInv'
  OBVIOUS
<1>1. ASSUME NEW e \in Acts, OrderTick(e) PROVE IInv'
  BY <1>1, OrderTickKeeps
<1>2. ASSUME NEW c \in Client, Collect(c) PROVE IInv'
  BY <1>2, CollectKeeps
<1>3. ASSUME NEW c \in Client, Pong(c) PROVE IInv'
  BY <1>3, PongKeeps
<1>4. ASSUME NEW d \in net, Receive(d.to, d) PROVE IInv'
  <2>1. d.to \in Client
    BY DEF IInv, TypeOK, Datagram
  <2> QED
    BY <1>4, <2>1, ReceiveKeeps
<1>5. ASSUME NEW q \in asked, Resend(q) PROVE IInv'
  BY <1>5, ResendKeeps
<1>6. ASSUME NEW a \in pongs, ReceivePong(a) PROVE IInv'
  BY <1>6, ReceivePongKeeps
<1> QED
  BY <1>1, <1>2, <1>3, <1>4, <1>5, <1>6, OthersKeep DEF Next

-----------------------------------------------------------------------------
(* The abstract delivery *)

\* A client that applies a tick takes the next of the host's.
LEMMA CollectDelivers ==
  ASSUME IInv, NEW c \in Client, Collect(c)
  PROVE  /\ \A k \in Client \ {c} : done'[k] = done[k]
         /\ \/ done'[c] = done[c]
            \/ /\ Len(done[c]) < Len(ordered)
               /\ done'[c] = Append(done[c], ordered[Len(done[c]) + 1])
<1>1. /\ TypeOK
      /\ \/ UNCHANGED done
         \/ \E r \in Drained(c) : \E x \in Due(r, start[c]) :
               done' = [done EXCEPT ![c] = Append(@, x.acts)]
  BY DEF Collect, IInv
<1>2. CASE UNCHANGED done
  BY <1>2
<1>3. ASSUME NEW r \in Drained(c), NEW x \in Due(r, start[c]),
             done' = [done EXCEPT ![c] = Append(@, x.acts)]
      PROVE  /\ \A k \in Client \ {c} : done'[k] = done[k]
             /\ Len(done[c]) < Len(ordered)
             /\ done'[c] = Append(done[c], ordered[Len(done[c]) + 1])
  <2>1. x \in ring[c] \cup Arrivals(c)
    BY DEF Drained, Due
  <2>2. Right(ordered, x) /\ x.tick = start[c]
    BY <2>1, ArrivalsRight DEF IInv, RingRight, Due
  <2>3. PICK n : n = start[c] - 1
    OBVIOUS
  <2>4. n \in Nat /\ n < Len(ordered) /\ n + 1 = start[c] /\ ordered \in Seq(Acts)
    BY <1>1, <2>2, <2>3, LenProperties DEF TypeOK, Tick, Right
  <2>5. Len(SubSeq(ordered, 1, n)) = n
    BY <2>4, PrefixExtends
  <2>6. Len(done[c]) = n
    BY <2>3, <2>5 DEF IInv, SameTicks
  <2>7. x.acts = ordered[n + 1]
    BY <2>2, <2>4 DEF Right
  <2> QED
    BY <1>1, <1>3, <2>4, <2>6, <2>7 DEF TypeOK
<1> QED
  BY <1>1, <1>2, <1>3

\* Every other step orders a tick, or does nothing to what is ordered and applied.
LEMMA SendOrCollect ==
  ASSUME [Next]_vars
  PROVE  \/ done' = done /\ \E e \in Acts : ordered' = Append(ordered, e)
         \/ ordered' = ordered /\ done' = done
         \/ ordered' = ordered /\ \E c \in Client : Collect(c)
<1> USE DEF clientVars
<1>1. ASSUME NEW e \in Acts, OrderTick(e)
      PROVE  done' = done /\ ordered' = Append(ordered, e)
  BY <1>1 DEF OrderTick
<1>2. ASSUME NEW c \in Client, Collect(c) PROVE ordered' = ordered
  BY <1>2 DEF Collect
<1>3. ASSUME NEW c \in Client, Poll(c) \/ Silence(c) \/ Pong(c)
      PROVE  ordered' = ordered /\ done' = done
  BY <1>3 DEF Poll, Silence, Pong
<1>4. ASSUME NEW d \in net, Receive(d.to, d) PROVE ordered' = ordered /\ done' = done
  BY <1>4 DEF Receive
<1>5. ASSUME NEW q \in asked, Resend(q) PROVE ordered' = ordered /\ done' = done
  BY <1>5 DEF Resend
<1>6. ASSUME NEW a \in pongs, ReceivePong(a) PROVE ordered' = ordered /\ done' = done
  BY <1>6 DEF ReceivePong
<1>7. ASSUME BeginSync \/ \E timeout \in BOOLEAN : EndSync(timeout)
      PROVE  ordered' = ordered /\ done' = done
  BY <1>7 DEF BeginSync, EndSync
<1>8. ASSUME UNCHANGED vars PROVE ordered' = ordered /\ done' = done
  BY <1>8 DEF vars
<1> QED
  BY <1>1, <1>2, <1>3, <1>4, <1>5, <1>6, <1>7, <1>8 DEF Next

LEMMA OrderedStep ==
  ASSUME IInv, IInv', [Next]_vars
  PROVE  Ordered!Next
<1>1. done \in [Client -> Seq(Acts)] /\ done' \in [Client -> Seq(Acts)]
  BY DEF IInv, TypeOK
<1>2. done' = [c \in Client |-> done'[c]]
  BY <1>1
<1>3. ASSUME NEW k \in Client PROVE Ordered!Step(k)
  <2>1. ASSUME done' = done, NEW e \in Acts, ordered' = Append(ordered, e)
        PROVE  Ordered!Step(k)
    BY <2>1 DEF Ordered!Step, Ordered!Send, Ordered!StaysBroken
  <2>2. CASE ordered' = ordered /\ done'[k] = done[k]
    BY <2>2 DEF Ordered!Step, Ordered!Rests, Ordered!StaysBroken
  <2>3. ASSUME ordered' = ordered, Len(done[k]) < Len(ordered),
               done'[k] = Append(done[k], ordered[Len(done[k]) + 1])
        PROVE  Ordered!Step(k)
    BY <2>3 DEF Ordered!Step, Ordered!Deliver, Ordered!StaysBroken
  <2>4. ASSUME ordered' = ordered, NEW c \in Client, Collect(c)
        PROVE  Ordered!Step(k)
    <3>1. CASE c = k
      BY <2>2, <2>3, <2>4, <3>1, CollectDelivers
    <3>2. CASE c # k
      BY <2>2, <2>4, <3>2, CollectDelivers
    <3> QED
      BY <3>1, <3>2
  <2> QED
    BY <2>1, <2>2, <2>4, SendOrCollect
<1> QED
  BY <1>2, <1>3 DEF Ordered!Next

-----------------------------------------------------------------------------
(* What the host looks up for a question *)

\* Every question but one about a single tick asks for ticks the host has ordered.
QuestionsKnown == \A q \in asked : q.first = q.last \/ q.last <= Len(ordered)

LEMMA MissingKnown ==
  ASSUME NEW r, NEW t, NEW h, NEW m \in Missing(r, t, h)
  PROVE  m[1] = m[2] \/ m[2] = h
BY DEF Missing

LEMMA AskKnown ==
  ASSUME QuestionsKnown, NEW c, NEW a, NEW b, Ask(c, a, b), a = b \/ b <= Len(ordered),
         ordered' = ordered
  PROVE  QuestionsKnown'
BY DEF QuestionsKnown, Ask

LEMMA QuestionsStep ==
  ASSUME IInv, QuestionsKnown, [Next]_vars
  PROVE  QuestionsKnown'
<1>1. ASSUME NEW e \in Acts, OrderTick(e) PROVE QuestionsKnown'
  <2>1. ordered' = Append(ordered, e) /\ asked' = asked
    BY <1>1 DEF OrderTick
  <2>2. Len(ordered) \in Nat /\ Len(ordered') = Len(ordered) + 1
    BY <2>1, AppendProperties, LenProperties DEF IInv, TypeOK
  <2>3. \A q \in asked : q.last \in Nat
    BY DEF IInv, TypeOK, Question
  <2> QED
    BY <2>1, <2>2, <2>3 DEF QuestionsKnown
<1>2. ASSUME NEW c \in Client, Collect(c) PROVE QuestionsKnown'
  <2>1. ordered' = ordered /\ Highest(c) <= Len(ordered)
    BY <1>2, HighestKnown DEF Collect, IInv
  <2>2. PICK r \in Drained(c) :
          \/ UNCHANGED asked
          \/ \E m \in Missing(r, start[c], Highest(c)) : Ask(c, m[1], m[2])
    BY <1>2 DEF Collect
  <2>3. ASSUME NEW m \in Missing(r, start[c], Highest(c)), Ask(c, m[1], m[2])
        PROVE  QuestionsKnown'
    BY <2>1, <2>3, MissingKnown, AskKnown
  <2> QED
    BY <2>1, <2>2, <2>3 DEF QuestionsKnown
<1>3. ASSUME NEW c \in Client, Poll(c) PROVE QuestionsKnown'
  BY <1>3, AskKnown DEF Poll
<1>4. CASE asked' = asked /\ ordered' = ordered
  BY <1>4 DEF QuestionsKnown
<1>5. ASSUME NEW c \in Client, Silence(c) \/ Pong(c) PROVE asked' = asked /\ ordered' = ordered
  BY <1>5 DEF Silence, Pong
<1>6. ASSUME NEW d \in net, Receive(d.to, d) PROVE asked' = asked /\ ordered' = ordered
  BY <1>6 DEF Receive
<1>7. ASSUME NEW q \in asked, Resend(q) PROVE asked' = asked /\ ordered' = ordered
  BY <1>7 DEF Resend
<1>8. ASSUME NEW a \in pongs, ReceivePong(a) PROVE asked' = asked /\ ordered' = ordered
  BY <1>8 DEF ReceivePong
<1>9. ASSUME BeginSync \/ (\E timeout \in BOOLEAN : EndSync(timeout)) \/ UNCHANGED vars
      PROVE  asked' = asked /\ ordered' = ordered
  BY <1>9 DEF BeginSync, EndSync, vars
<1> QED
  BY <1>1, <1>2, <1>3, <1>4, <1>5, <1>6, <1>7, <1>8, <1>9 DEF Next

\* A function that is given from each natural to the next has values that go on from a.
LEMMA Iterates ==
  ASSUME NEW G \in [Nat -> Nat], NEW a \in Nat, NEW n \in Nat
  PROVE  \E f \in [0..n -> Nat] : f = [k \in 0..n |-> IF k = 0 THEN a ELSE G[f[k - 1]]]
<1> DEFINE Has(m) == \E f \in [0..m -> Nat] :
                       f = [k \in 0..m |-> IF k = 0 THEN a ELSE G[f[k - 1]]]
           Lacking == {m \in Nat : ~Has(m)}
<1>1. SUFFICES ASSUME Lacking # {} PROVE FALSE
  OBVIOUS
<1>2. PICK m \in Lacking : \A j \in Lacking : m <= j
  <2>1. Lacking \in SUBSET Nat
    OBVIOUS
  <2> HIDE DEF Lacking
  <2> QED
    BY <1>1, <2>1, LeastElement
<1>3. m # 0
  <2>1. [k \in 0..0 |-> a] \in [0..0 -> Nat]
    OBVIOUS
  <2>2. PICK f \in [0..0 -> Nat] : f = [k \in 0..0 |-> a]
    BY <2>1
  <2>3. f = [k \in 0..0 |-> IF k = 0 THEN a ELSE G[f[k - 1]]]
    BY <2>2
  <2> QED
    BY <2>3
<1>4. m - 1 \in Nat /\ m - 1 \notin Lacking
  <2>1. m \in Nat
    OBVIOUS
  <2> HIDE DEF Lacking
  <2> QED
    BY <1>2, <1>3, <2>1
<1>5. PICK f \in [0..m - 1 -> Nat] :
        f = [k \in 0..m - 1 |-> IF k = 0 THEN a ELSE G[f[k - 1]]]
  <2>1. Has(m - 1)
    BY <1>4
  <2> QED
    BY <2>1
<1> DEFINE g == [k \in 0..m |-> IF k = m THEN G[f[m - 1]] ELSE f[k]]
<1>6. g \in [0..m -> Nat] /\ m \in Nat
  <2>1. m \in Nat /\ m - 1 \in 0..m - 1
    BY <1>3, <1>4
  <2>2. G[f[m - 1]] \in Nat
    BY <2>1
  <2>3. \A k \in 0..m : k # m => k \in 0..m - 1
    BY <2>1
  <2> QED
    BY <2>1, <2>2, <2>3
<1>7. ASSUME NEW k \in 0..m PROVE g[k] = IF k = 0 THEN a ELSE G[g[k - 1]]
  <2>1. CASE k = m
    <3>1. m - 1 \in 0..m /\ m - 1 # m /\ m \in 0..m
      BY <1>3, <1>4
    <3>2. g[m - 1] = f[m - 1] /\ g[m] = G[f[m - 1]]
      BY <3>1
    <3> QED
      BY <1>3, <2>1, <3>2
  <2>2. CASE k # m
    <3>0. k \in 0..m - 1
      BY <1>4, <1>6, <2>2
    <3>1. k \in 0..m - 1 /\ f[k] = IF k = 0 THEN a ELSE G[f[k - 1]]
      BY <1>5, <3>0
    <3>2. k # 0 => k - 1 \in 0..m /\ k - 1 # m
      BY <1>6, <3>1
    <3> QED
      BY <2>2, <3>1, <3>2
  <2> QED
    BY <2>1, <2>2
<1>8. g = [k \in 0..m |-> IF k = 0 THEN a ELSE G[g[k - 1]]]
  <2> HIDE DEF g
  <2> QED
    BY <1>6, <1>7
<1> HIDE DEF g
<1> QED
  BY <1>2, <1>6, <1>8

\* What the loop looks up after tick t.
After(t) ==
  IF RunAfter(ordered, t) = {} THEN t + 1 ELSE CHOOSE b \in RunAfter(ordered, t) : TRUE

LEMMA AfterGrows ==
  ASSUME TypeOK, NEW t \in Nat
  PROVE  After(t) \in Nat /\ t < After(t)
<1>1. CASE RunAfter(ordered, t) = {}
  BY <1>1 DEF After
<1>2. CASE RunAfter(ordered, t) # {}
  <2>1. After(t) \in RunAfter(ordered, t)
    BY <1>2 DEF After
  <2>2. Len(ordered) \in Nat
    BY LenProperties DEF TypeOK
  <2>3. After(t) \in t + 2..Len(ordered)
    BY <2>1 DEF RunAfter
  <2> QED
    BY <2>2, <2>3
<1> QED
  BY <1>1, <1>2

LEMMA TurnIs ==
  ASSUME TypeOK, NEW q \in asked
  PROVE  /\ Turn(q) \in [0..Span -> Nat]
         /\ Turn(q)[0] = q.first
         /\ \A k \in 1..Span : Turn(q)[k] = After(Turn(q)[k - 1])
<1> DEFINE G == [t \in Nat |-> After(t)]
<1>1. q.first \in Nat /\ q.first \in Tick
  BY DEF TypeOK, Question, Tick
<1>2. G \in [Nat -> Nat]
  BY AfterGrows
<1>3. PICK f \in [0..Span -> Nat] :
        f = [k \in 0..Span |-> IF k = 0 THEN q.first ELSE G[f[k - 1]]]
  <2> HIDE DEF G
  <2>1. Span \in Nat
    OBVIOUS
  <2> QED
    BY ZenonT(60), <1>1, <1>2, <2>1, Iterates
<1>4. \A k \in 0..Span : k # 0 => k - 1 \in 0..Span
  OBVIOUS
<1>5. f = [k \in 0..Span |-> IF k = 0 THEN q.first ELSE After(f[k - 1])]
  BY <1>3, <1>4
<1>6. Turn(q) = CHOOSE g : g = [k \in 0..Span |-> IF k = 0 THEN q.first ELSE After(g[k - 1])]
  BY DEF Turn, After
<1>7. PICK g : g = Turn(q)
  OBVIOUS
<1>8. g = [k \in 0..Span |-> IF k = 0 THEN q.first ELSE After(g[k - 1])]
  BY <1>5, <1>6, <1>7
<1>9. \A k \in 0..Span : g[k] = IF k = 0 THEN q.first ELSE After(g[k - 1])
  BY <1>8
<1> DEFINE Wrong == {k \in 0..Span : g[k] \notin Nat}
<1>10. g \in [0..Span -> Nat]
  <2>1. SUFFICES ASSUME Wrong # {} PROVE FALSE
    BY <1>8
  <2>2. Wrong \in SUBSET Nat
    OBVIOUS
  <2>3. PICK k \in Wrong : \A j \in Wrong : k <= j
    <3> HIDE DEF Wrong
    <3> QED
      BY <2>1, <2>2, LeastElement
  <2>4. k # 0
    BY <1>1, <1>9
  <2>5. k - 1 \in 0..Span /\ k - 1 \notin Wrong
    BY <2>3, <2>4
  <2>6. g[k - 1] \in Nat
    BY <2>5
  <2>7. g[k] = After(g[k - 1])
    BY <1>9, <2>4
  <2> QED
    BY <2>6, <2>7, AfterGrows
<1> HIDE DEF Wrong, G
<1>11. g[0] = q.first
  BY <1>9
<1>12. \A k \in 1..Span : g[k] = After(g[k - 1])
  <2>1. \A k \in 1..Span : k \in 0..Span /\ k # 0
    OBVIOUS
  <2> QED
    BY ZenonT(60), <1>9, <2>1
<1> QED
  BY ZenonT(60), <1>7, <1>10, <1>11, <1>12

\* The loop only goes forward.
LEMMA TurnGrows ==
  ASSUME TypeOK, NEW q \in asked, NEW k \in 0..Span
  PROVE  \A j \in 0..k : Turn(q)[j] <= Turn(q)[k]
<1>1. PICK f : f = Turn(q)
  OBVIOUS
<1>2. f \in [0..Span -> Nat] /\ \A n \in 1..Span : f[n] = After(f[n - 1])
  BY <1>1, TurnIs
<1>3. ASSUME NEW n \in 1..Span PROVE f[n - 1] < f[n]
  <2>1. f[n - 1] \in Nat
    BY <1>2
  <2> QED
    BY <1>2, <2>1, AfterGrows
<1> DEFINE Short == {d \in 0..k : ~(f[k - d] <= f[k])}
<1>4. Short = {}
  <2>1. SUFFICES ASSUME Short # {} PROVE FALSE
    OBVIOUS
  <2>2. Short \in SUBSET Nat
    OBVIOUS
  <2>3. PICK d \in Short : \A e \in Short : d <= e
    <3> HIDE DEF Short
    <3> QED
      BY <2>1, <2>2, LeastElement
  <2>4. d # 0 /\ k - d \in 0..Span /\ f[k] \in Nat /\ f[k - d] \in Nat
    BY <1>2
  <2>5. d - 1 \in 0..k /\ d - 1 \notin Short
    BY <2>3, <2>4
  <2>6. f[k - (d - 1)] <= f[k]
    BY <2>5
  <2>7. PICK n : n = k - d + 1
    OBVIOUS
  <2>8. n \in 1..Span /\ n - 1 = k - d /\ n = k - (d - 1)
    BY <2>4, <2>7
  <2>9. f[n - 1] < f[n] /\ f[n] <= f[k] /\ f[n] \in Nat
    BY <1>2, <1>3, <2>6, <2>8
  <2> QED
    BY <2>3, <2>4, <2>8, <2>9
<1>5. ASSUME NEW j \in 0..k PROVE f[j] <= f[k]
  <2>1. k - j \in 0..k /\ k - (k - j) = j
    OBVIOUS
  <2>2. k - j \notin Short
    BY <1>4
  <2> QED
    BY <2>1, <2>2
<1> QED
  BY <1>1, <1>5

\* A tick that is looked up and not there is one the host no longer keeps.
LEMMA LookedUp ==
  ASSUME TypeOK, QuestionsKnown, NEW q \in asked, Answerable(q), NEW k \in Turns(q),
         ~Found(q, k)
  PROVE  q.first <= Len(ordered) - History
<1>1. k \in 0..Span /\ Turn(q)[k] <= q.last
  BY DEF Turns
<1>2. PICK j \in 0..k : ~Kept(ordered, Turn(q)[j])
  BY DEF Found
<1>3. PICK f : f = Turn(q)
  OBVIOUS
<1>4. f \in [0..Span -> Nat] /\ f[0] = q.first
  BY <1>3, TurnIs
<1>5. j \in 0..Span /\ 0 \in 0..j /\ q.first \in Nat /\ 1 <= q.first /\ q.last \in Nat
      /\ Len(ordered) \in Nat
  BY <1>1, LenProperties DEF TypeOK, Question, Tick
<1>6. f[j] <= f[k] /\ f[0] <= f[j] /\ f[j] \in Nat /\ f[k] \in Nat
  BY <1>1, <1>3, <1>4, <1>5, TurnGrows
<1>7. q.last <= Len(ordered)
  BY <1>5 DEF Answerable, QuestionsKnown
<1>8. f[j] \in 1..Len(ordered)
  BY <1>1, <1>3, <1>4, <1>5, <1>6, <1>7
<1>9. ~(f[j] > Len(ordered) - History)
  BY <1>2, <1>3, <1>8 DEF Kept
<1> QED
  BY <1>4, <1>5, <1>6, <1>9

LEMMA ResendDrops ==
  ASSUME TypeOK, QuestionsKnown, NEW q \in asked, Resend(q), member' # member
  PROVE  q.first <= Len(ordered) - History
<1>1. Answerable(q) /\ \E k \in Turns(q) : ~Found(q, k)
  BY DEF Resend
<1> QED
  BY <1>1, LookedUp

-----------------------------------------------------------------------------
(* Theorems *)

\* The variables of host, network and clients keep their types.
THEOREM Types == Spec => []TypeOK
<1>1. IInv => TypeOK
  BY DEF IInv
<1> QED
  BY <1>1, InitInv, StepInv, PTL DEF Spec

\* Every client has applied the first of the host's ticks, in order and each with the
\* actions the host gave it (tryPopCtx, collectActions_part4, resendMissingActions).
THEOREM Same == Spec => []SameTicks
<1>1. IInv => SameTicks
  BY DEF IInv
<1> QED
  BY <1>1, InitInv, StepInv, PTL DEF Spec

\* A client whose pong the host has taken has applied every tick (packets 29 and 2A).
THEOREM Come == Spec => []AllCome
<1>1. IInv => AllCome
  BY DEF IInv
<1> QED
  BY <1>1, InitInv, StepInv, PTL DEF Spec

\* A player is dropped for a question only if the host no longer keeps the first tick it
\* asks for (resendMissingActions): no jump over idle ticks leads the loop past what is
\* kept, and no question asks for ticks to come.
THEOREM Dropped == Spec => DroppedBehind
<1>1. Init => QuestionsKnown
  BY DEF Init, QuestionsKnown
<1>2. IInv /\ QuestionsKnown /\ [Next]_vars => QuestionsKnown'
  BY QuestionsStep
<1>3. IInv /\ QuestionsKnown /\ [Next]_vars =>
        [\A q \in asked :
           Resend(q) /\ member' # member => q.first <= Len(ordered) - History]_vars
  BY ResendDrops DEF IInv
<1> QED
  BY <1>1, <1>2, <1>3, InitInv, StepInv, PTL DEF Spec, DroppedBehind

\* The ticks, with their ring, questions and answers, are an ordered delivery to every
\* client (OrderedDelivery).
THEOREM Implements == Spec => ImplementsOrderedDelivery
<1>1. Init => Ordered!Init
  BY DEF Init, Ordered!Init
<1>2. IInv /\ IInv' /\ [Next]_vars => [Ordered!Next]_Ordered!vars
  BY OrderedStep
<1> QED
  BY InitInv, StepInv, <1>1, <1>2, PTL DEF Spec, ImplementsOrderedDelivery, Ordered!Spec
=============================================================================
