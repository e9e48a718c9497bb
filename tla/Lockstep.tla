------------------------------- MODULE Lockstep -------------------------------
(***************************************************************************)
(* CNetworkCommunication: the ticks of the game in lockstep.  The host     *)
(* orders the actions of every tick, keeps them for a while, applies them  *)
(* and sends them to all.  Each client queues what it receives, puts it in *)
(* a ring by its tick, applies one tick after the other, and asks for what *)
(* it misses; the host answers from what it keeps, and a player whose      *)
(* question it cannot answer is dropped from the session.                  *)
(*                                                                         *)
(* Datagrams are lost, repeated, late and out of order: one that was sent  *)
(* may be received any number of times, or never.  Ring, queue and history *)
(* are in the binary and modelled by how the code uses them.               *)
(***************************************************************************)
EXTENDS Integers, Sequences, FiniteSets

CONSTANTS
  Client,
  Acts,        \* what the actions of a tick may be
  Idle,        \* no action
  Ring,        \* ticks in GameActionCtxArr, 0x60
  Span,        \* the most ticks an answer, or a run of idle ticks, goes over, 0x20
  History,     \* ticks the host keeps
  MaxTick,     \* bound: the last tick
  MaxAsked,    \* bound: questions under way
  Room,        \* bound: entries of a client's queue
  SyncAt,      \* bound: the ticks at which the host may wait for all
  Impatient    \* bound: the clients that may be found silent, or find the host so

ASSUME IdleAssumption == Idle \in Acts
ASSUME NumbersAssumption ==
  /\ Ring \in Nat \ {0} /\ Span \in Nat \ {0} /\ History \in Nat \ {0}
  /\ MaxTick \in Nat /\ MaxAsked \in Nat \ {0} /\ Room \in Nat /\ SyncAt \subseteq Nat

Tick == Nat \ {0}

\* DataMessage_1: the actions of one tick, or a run of idle ticks.
Item == [first : Tick, last : Nat, acts : Acts]
Context == [tick : Tick, acts : Acts]
Datagram == [to : Client, items : SUBSET Item, again : BOOLEAN]
Question == [from : Client, first : Tick, last : Nat]

VARIABLES
  ordered,     \* the host: the actions of every tick so far
  syncing,     \* the host waits for all to come to its tick (fF51C is 3)
  mask,        \* _playerMask, while it waits
  net,         \* packets 1 sent to clients
  asked,       \* packets 3 on their way to the host
  pongs,       \* packets 2A on their way to the host
  member,      \* per client: "in" the session, "dropped" by the host, "left"
  queue,       \* per client: gameActionCtxQueue
  ring,        \* per client: gameActionCtxArr, ticks to be applied
  start,       \* per client: startGameTick
  high,        \* per client: ff730_highTick
  done         \* per client: the actions it has applied

clientVars == <<queue, ring, start, high, done>>
vars == <<ordered, syncing, mask, net, asked, pongs, member, clientVars>>

Init ==
  /\ ordered = << >>
  /\ syncing = FALSE
  /\ mask = {}
  /\ net = {}
  /\ asked = {}
  /\ pongs = {}
  /\ member = [c \in Client |-> "in"]
  /\ queue = [c \in Client |-> {}]
  /\ ring = [c \in Client |-> {}]
  /\ start = [c \in Client |-> 1]
  /\ high = [c \in Client |-> 0]
  /\ done = [c \in Client |-> << >>]

Members == {c \in Client : member[c] = "in"}

-----------------------------------------------------------------------------
(* The host orders a tick *)

\* What the host keeps of the ticks o.
Kept(o, t) == t \in 1..Len(o) /\ t > Len(o) - History

IdleRun(o, a, b) == \A t \in a..b : Kept(o, t) /\ o[t] = Idle

\* Mutant: the run reaches one tick too far back.
RunBefore_over(o, t) ==
  {a \in 1..t - 1 : /\ a < t - 1 /\ t - a <= Span /\ IdleRun(o, a + 1, t - 1)
                    /\ a = 1 \/ t - a = Span \/ ~IdleRun(o, a, t - 1)}

\* Where the longest run of idle ticks that ends before t begins, if it has two ticks
\* or more.
RunBefore(o, t) ==
  {a \in 1..t - 1 : /\ a < t - 1 /\ t - a <= Span /\ IdleRun(o, a, t - 1)
                    /\ a = 1 \/ t - a = Span \/ ~IdleRun(o, a - 1, t - 1)}

\* Where the longest run that begins after t ends.
RunAfter(o, t) ==
  {b \in t + 2..Len(o) : /\ b - t <= Span /\ IdleRun(o, t + 1, b)
                         /\ b = Len(o) \/ b - t = Span \/ ~IdleRun(o, t + 1, b + 1)}

Of(o, t) == [first |-> t, last |-> t, acts |-> o[t]]
Run(a, b) == [first |-> a, last |-> b, acts |-> Idle]

\* collectActions_part3: a tick is sent to all, with the idle ones before it once more.
\* The host's own copy never leaves it and is applied at once.
OrderTick(acts) ==
  LET o == Append(ordered, acts)
      t == Len(o)
      items == {Of(o, t)} \cup {Run(a, t - 1) : a \in RunBefore(o, t)}
  IN /\ ~syncing /\ Len(ordered) < MaxTick
     /\ ordered' = o
     /\ net' = net \cup {[to |-> c, items |-> items, again |-> FALSE] : c \in Members}
     /\ UNCHANGED <<syncing, mask, asked, pongs, member, clientVars>>

-----------------------------------------------------------------------------
(* The clients *)

\* dataCallback, packet 1: what there is no room for is dropped.
Receive(c, d) ==
  /\ d \in net /\ d.to = c /\ c \in Members
  /\ \E some \in {{i \in d.items : i.first = i.last}, d.items} :
       /\ Cardinality(queue[c] \cup some) <= Room
       /\ some # d.items => Cardinality(queue[c] \cup d.items) > Room
       /\ queue' = [queue EXCEPT ![c] = @ \cup some]
  /\ UNCHANGED <<ordered, syncing, mask, net, asked, pongs, member, ring, start, high, done>>

\* The ticks in the queue of c that it has not applied.
Arrivals(c) ==
  UNION {{[tick |-> t, acts |-> i.acts] : t \in {k \in i.first..i.last : k >= start[c]}} :
           i \in queue[c]}

SameCell(x, y) == x.tick % Ring = y.tick % Ring

\* addCtx and addCtx2, in any order: a tick comes into its cell, in place of what was
\* there.  Whether one beyond the ring does, the code does not tell: it may.
Drained(c) ==
  LET all == ring[c] \cup Arrivals(c)
  IN {r \in SUBSET all :
        /\ \A x, y \in r : SameCell(x, y) => x = y
        /\ \A x \in all : \E y \in r : SameCell(x, y)
        /\ \A x \in Arrivals(c) : x.tick < start[c] + Ring =>
             \E y \in r \cap Arrivals(c) : SameCell(x, y) /\ (y = x \/ y.tick >= start[c] + Ring)}

\* The highest tick c knows of.
Highest(c) ==
  LET known == {high[c]} \cup {i.last : i \in queue[c]}
  IN CHOOSE h \in known : \A k \in known : k <= h

\* GameActionCtxArr::tryPopCtx
Due(r, t) == {x \in r : x.tick = t}

\* Mutant: c asks one tick further than it knows of.
Missing_beyond(r, t, h) ==
  IF r # {} THEN {<<t, t>>} ELSE IF t < h THEN {<<t, h + 1>>} ELSE {}

\* What to ask for when tick t is not there.
Missing(r, t, h) ==
  IF r # {} THEN {<<t, t>>} ELSE IF t < h THEN {<<t, h>>} ELSE {}

\* A question of c is on its way; others may be lost.  Bound: MaxAsked are under way.
Ask(c, a, b) ==
  \E others \in SUBSET asked :
    /\ asked' = others \cup {[from |-> c, first |-> a, last |-> b]}
    /\ Cardinality(asked') <= MaxAsked
    /\ others = asked \/ Cardinality(asked) = MaxAsked

\* collectActions on a client: the queue is put into the ring, and the next tick is
\* applied if it is there.  If not, c asks for it.
Collect(c) ==
  /\ c \in Members
  /\ queue' = [queue EXCEPT ![c] = {}]
  /\ high' = [high EXCEPT ![c] = Highest(c)]
  /\ \E r \in Drained(c) :
       \/ \E x \in Due(r, start[c]) :
            /\ ring' = [ring EXCEPT ![c] = {y \in r \ {x} : y.tick > start[c]}]
            /\ start' = [start EXCEPT ![c] = @ + 1]
            /\ done' = [done EXCEPT ![c] = Append(@, x.acts)]
            /\ UNCHANGED asked
       \/ /\ Due(r, start[c]) = {}
          /\ ring' = [ring EXCEPT ![c] = r]
          /\ \/ Missing(r, start[c], Highest(c)) = {} /\ UNCHANGED asked
             \/ \E m \in Missing(r, start[c], Highest(c)) : Ask(c, m[1], m[2])
          /\ UNCHANGED <<start, done>>
  /\ UNCHANGED <<ordered, syncing, mask, net, pongs, member>>

\* With Epic Online Services a client that hears nothing for a second asks for its next
\* tick, whether there is one or not.
Poll(c) ==
  /\ c \in Members /\ queue[c] = {} /\ Due(ring[c], start[c]) = {}
  /\ Ask(c, start[c], start[c])
  /\ UNCHANGED <<ordered, syncing, mask, net, pongs, member, clientVars>>

-----------------------------------------------------------------------------
(* The host answers *)

\* Where the loop of resendMissingActions is after k turns: a run of idle ticks is
\* jumped over, up to its last.
Turn(q) ==
  LET at[k \in 0..Span] ==
        IF k = 0 THEN q.first
        ELSE LET t == at[k - 1] IN IF RunAfter(ordered, t) = {} THEN t + 1
                                   ELSE CHOOSE b \in RunAfter(ordered, t) : TRUE
  IN at

\* Mutant: the last tick asked for is left out.
Turns_short(q) == {k \in 0..Span - 1 : Turn(q)[k] < q.last}

\* The turns in which a tick is looked up.
Turns(q) == {k \in 0..Span - 1 : Turn(q)[k] <= q.last}

Found(q, k) == \A j \in 0..k : Kept(ordered, Turn(q)[j])

Answer(q, t) ==
  [to |-> q.from, again |-> TRUE,
   items |-> {Of(ordered, t)} \cup {Run(t + 1, b) : b \in RunAfter(ordered, t)}]

\* A question about ticks to come is passed over.
Answerable(q) == q.first <= Len(ordered)

\* resendMissingActions: DumpPlayer when a tick is not kept any more.
Resend(q) ==
  /\ q \in asked /\ q.from \in Members /\ Answerable(q)
  /\ net' = net \cup {Answer(q, Turn(q)[k]) : k \in {j \in Turns(q) : Found(q, j)}}
  /\ member' = IF \A k \in Turns(q) : Found(q, k) THEN member
               ELSE [member EXCEPT ![q.from] = "dropped"]
  /\ UNCHANGED <<ordered, syncing, mask, asked, pongs, clientVars>>

\* collectActions_part1 and part2: 35 seconds without a packet of c, or of the host.
Silence(c) ==
  /\ c \in Impatient \cap Members
  /\ \E how \in {"dropped", "left"} : member' = [member EXCEPT ![c] = how]
  /\ UNCHANGED <<ordered, syncing, mask, net, asked, pongs, clientVars>>

-----------------------------------------------------------------------------
(* The host waits for all to come to its tick *)

\* Whoever sets fF51C to 3 is in the binary.
BeginSync ==
  /\ ~syncing /\ Len(ordered) \in SyncAt
  /\ syncing' = TRUE
  /\ mask' = {}
  /\ UNCHANGED <<ordered, net, asked, pongs, member, clientVars>>

\* Packet 29, sent each second, and the answer to it: the last tick c has applied.
Pong(c) ==
  /\ syncing /\ c \in Members
  /\ pongs' = pongs \cup {[from |-> c, tick |-> start[c] - 1]}
  /\ UNCHANGED <<ordered, syncing, mask, net, asked, member, clientVars>>

\* Mutant: any pong will do.
InTime_any(a) == TRUE

InTime(a) == a.tick = Len(ordered)

\* dataCallback, packet 2A
ReceivePong(a) ==
  /\ a \in pongs /\ a.from \in Members /\ InTime(a)
  /\ mask' = mask \cup {a.from}
  /\ UNCHANGED <<ordered, syncing, net, asked, pongs, member, clientVars>>

\* collectActions_part3: all have answered, or 15 seconds have passed.
EndSync(timeout) ==
  /\ syncing
  /\ timeout \/ Members \subseteq mask
  /\ syncing' = FALSE
  /\ UNCHANGED <<ordered, mask, net, asked, pongs, member, clientVars>>

-----------------------------------------------------------------------------

Next ==
  \/ \E acts \in Acts : OrderTick(acts)
  \/ \E c \in Client : Collect(c) \/ Poll(c) \/ Silence(c) \/ Pong(c)
  \/ \E d \in net : Receive(d.to, d)
  \/ \E q \in asked : Resend(q)
  \/ \E a \in pongs : ReceivePong(a)
  \/ BeginSync
  \/ \E timeout \in BOOLEAN : EndSync(timeout)

Spec == Init /\ [][Next]_vars

\* Fairness: games go on collecting, and the network is fair-lossy: a question that is
\* asked again and again gets through, and so does one of the answers to it, which a
\* tick beyond the ring does not displace every time.  Nothing is assumed of the first
\* sending of a tick.
Apply(c) == Collect(c) /\ start' # start
AnswerNext(c) == \E q \in asked : q.from = c /\ q.first = start[c] /\ Resend(q)
ReceiveAnswer(c) ==
  \E d \in net :
    /\ d.to = c /\ d.again /\ Receive(c, d)
    /\ \E i \in queue'[c] \ queue[c] : i.first <= start[c] /\ start[c] <= i.last

Fairness ==
  \A c \in Client :
    /\ WF_vars(Collect(c)) /\ SF_vars(Apply(c))
    /\ SF_vars(AnswerNext(c)) /\ SF_vars(ReceiveAnswer(c))

FairSpec == Spec /\ Fairness
-----------------------------------------------------------------------------
(* Properties *)

\* The variables have their types: ticks are counted from 1, and queues and rings hold
\* items and contexts (DataMessage_1, GameActionCtx).
TypeOK ==
  /\ ordered \in Seq(Acts)
  /\ syncing \in BOOLEAN
  /\ mask \subseteq Client
  /\ net \subseteq Datagram
  /\ asked \subseteq Question
  /\ pongs \subseteq [from : Client, tick : Nat]
  /\ member \in [Client -> {"in", "dropped", "left"}]
  /\ queue \in [Client -> SUBSET Item]
  /\ ring \in [Client -> SUBSET Context]
  /\ start \in [Client -> Tick]
  /\ high \in [Client -> Nat]
  /\ done \in [Client -> Seq(Acts)]

\* Every client has applied the host's ticks in their order, each once and each with
\* the actions the host gave it, whatever is lost, repeated or comes out of turn, and
\* however many ticks it is behind the ring.
SameTicks ==
  \A c \in Client :
    /\ start[c] <= Len(ordered) + 1
    /\ done[c] = SubSeq(ordered, 1, start[c] - 1)

\* A client that is taken to have come to the host's tick has applied every tick.
AllCome == syncing => \A c \in mask : start[c] = Len(ordered) + 1

\* A player is dropped for a question only if it is about a tick the host no longer
\* keeps; never because the question is about ticks to come.
DroppedBehind ==
  [][\A q \in asked :
       Resend(q) /\ member' # member => q.first <= Len(ordered) - History]_vars

\* A client that knows of a later tick comes to apply a tick, or is out of the session.
\* (It would not ask for the last one it knows of, had that come too early for the ring.)
CatchesUp ==
  \A c \in Client : \A t \in 1..MaxTick :
    high[c] > t ~> start[c] > t \/ c \notin Members

\* The ticks are an ordered delivery to every client.
Ordered == INSTANCE OrderedDelivery WITH
  Receivers <- Client,
  Payload <- Acts,
  sent <- [c \in Client |-> ordered],
  got <- done,
  broken <- [c \in Client |-> FALSE]
ImplementsOrderedDelivery == Ordered!Spec
=============================================================================
