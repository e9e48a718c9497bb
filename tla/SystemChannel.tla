---------------------------- MODULE SystemChannel ----------------------------
(***************************************************************************)
(* The system messages the session host sends to its clients: "a player    *)
(* was created", "a player left", "these are the players".  The host gives *)
(* every message a number that counts per player slot, keeps it in a table *)
(* of Cap entries (with an overflow queue), resends it until the client    *)
(* acknowledges it or its time is up, and the client handles the messages  *)
(* in the order of their numbers.                                          *)
(*                                                                         *)
(* Three host threads act here: the service provider thread (join, leave,  *)
(* acknowledgements), the deliver thread, and the game thread (kick).  The *)
(* network loses, duplicates, delays and reorders: a datagram once sent    *)
(* may be received any number of times, or never.                          *)
(***************************************************************************)
EXTENDS Integers, Sequences, FiniteSets, HandleList

CONSTANTS
  Players,     \* clients by the id the host gives them; each joins at most once
  NoPlayer,    \* an empty slot of the player list
  NSlots,      \* slots 1..NSlots are for clients (slot 0 is the host's own)
  Cap,         \* entries of f26F_packetSendToAllArr (50 in the code)
  MaxCopies,   \* bound: copies of one number the client's list may hold
  Leavers,     \* bound: the clients that may ask to leave
  Kicked,      \* bound: the clients the host may kick
  FreedReaders \* bound: the clients whose reads of freed entries are followed

ASSUME NoPlayerAssumption == NoPlayer \notin Players
ASSUME NSlotsAssumption == NSlots \in Nat
ASSUME CapAssumption == Cap \in Nat
ASSUME MaxCopiesAssumption == MaxCopies \in Nat
ASSUME BoundsAssumption ==
  Leavers \subseteq Players /\ Kicked \subseteq Players /\ FreedReaders \subseteq Players

Slots == 1..NSlots
\* The two threads of the host that remove players: the service provider thread
\* answers requests, the game thread kicks.
Threads == {"listen", "game"}
PlayerList == [Slots -> Players \cup {NoPlayer}]

\* The three bodies a system message can have.
Body ==
  [ty : {"Create"}, slot : Slots, who : Players]
    \cup [ty : {"Leave"}, who : Players]
    \cup [ty : {"List"}, list : PlayerList]

Packet == [slot : Slots, id : Nat, body : Body, sent : BOOLEAN]
Datagram == [to : Players, id : Nat, body : Body]
Ack == [from : Players, id : Nat]

VARIABLES
  \* the host
  list,        \* f24_playerList: who is joined in each slot
  nextId,      \* f5A_ackPacketCount_perPlayerSlot: next number of each slot
  inflight,    \* f26F_packetSendToAllArr
  overflow,    \* f337_packetSendQueue
  pending,     \* per thread: a player it has removed whose Leave is not yet scheduled
  wakes,       \* the deliver thread has an event to wake for, or its sleep has an end
  \* the network
  net, acks,
  \* the clients
  conn,        \* session state of each client
  pid,         \* slot part of the id the host gave the client, 0 before that
  next,        \* f15E_nextAckIdx
  queue,       \* f257_toHandleList, as far as it can be reached from `first'
  freed,       \* `first' points at an entry that was freed
  view,        \* f24_playerList of the client
  \* history, read by properties only
  log,         \* what was scheduled for each player, log[p][i+1] under number i
  handled,     \* what each client has handled
  tainted,     \* the slot still had messages of its last player at the join
  excused      \* numbers lost in one of the ways the code is known to lose them

hostVars == <<list, nextId, inflight, overflow, pending, wakes>>
clientVars == <<conn, next, queue, freed, view, handled>>
vars == <<list, nextId, inflight, overflow, pending, wakes, net, acks, conn, pid, next,
          queue, freed, view, log, handled, tainted, excused>>

Init ==
  /\ list = [s \in Slots |-> NoPlayer]
  /\ nextId = [s \in Slots |-> 0]
  /\ inflight = {}
  /\ overflow = << >>
  /\ pending = [t \in Threads |-> NoPlayer]
  /\ wakes = TRUE
  /\ net = {}
  /\ acks = {}
  /\ conn = [p \in Players |-> "out"]
  /\ pid = [p \in Players |-> 0]
  /\ next = [p \in Players |-> 0]
  /\ queue = [p \in Players |-> << >>]
  /\ freed = [p \in Players |-> FALSE]
  /\ view = [p \in Players |-> [s \in Slots |-> NoPlayer]]
  /\ log = [p \in Players |-> << >>]
  /\ handled = [p \in Players |-> << >>]
  /\ tainted = [p \in Players |-> FALSE]
  /\ excused = [p \in Players |-> {}]

-----------------------------------------------------------------------------
(* The host schedules messages. *)

Joined(l, p) == \E s \in Slots : l[s] = p

\* ScheduledPacket_initWithPlayer for every joined player of l.
Scheduled(l, body) ==
  {[slot |-> s, id |-> nextId[s], body |-> body, sent |-> FALSE] :
     s \in {t \in Slots : l[t] # NoPlayer}}

\* The loop over the player list schedules in slot order.
InSlotOrder(pkts) ==
  {q \in UNION {[1..n -> pkts] : n \in 0..NSlots} :
     /\ \A i, j \in DOMAIN q : i < j => q[i].slot < q[j].slot
     /\ \A x \in pkts : \E i \in DOMAIN q : q[i] = x}

\* queuePacketToSend: the free entries of the table take packets from the head of
\* the queue, n of them.
Fill(n, arr, q) ==
  /\ n = Len(q) \/ Cardinality(arr) + n >= Cap
  /\ n = 0 \/ Cardinality(arr) + n <= Cap

Refill(arr, q) ==
  \E n \in 0..Len(q) :
    /\ Fill(n, arr, q)
    /\ inflight' = arr \cup {q[i] : i \in 1..n}
    /\ overflow' = SubSeq(q, n + 1, Len(q))

\* Mutant: the numbers of free slots go up too.
Numbered_free(l) == [s \in Slots |-> nextId[s] + 1]

\* log' and nextId' when the joined players of l are sent body.
Numbered(l) == [s \in Slots |-> IF l[s] = NoPlayer THEN nextId[s] ELSE nextId[s] + 1]
Logged(l, body) ==
  [p \in Players |-> IF Joined(l, p) THEN Append(log[p], body) ELSE log[p]]

\* handlePacket_7_JoinPlayer: the first free slot goes to p, the others are told
\* of p, and p is sent the player list.  The reply is read in Connect.
Join(p) ==
  /\ pending["listen"] = NoPlayer
  /\ pid[p] = 0
  /\ \E s \in Slots :
       LET l == [list EXCEPT ![s] = p]
           plist == [ty |-> "List", list |-> l]
           create == [ty |-> "Create", slot |-> s, who |-> p]
       IN /\ list[s] = NoPlayer
          /\ \A t \in Slots : t < s => list[t] # NoPlayer
          /\ list' = l
          /\ pid' = [pid EXCEPT ![p] = s]
          /\ nextId' = [Numbered(list) EXCEPT ![s] = nextId[s] + 1]
          /\ log' = [Logged(list, create) EXCEPT ![p] = Append(log[p], plist)]
          /\ \E q \in InSlotOrder(Scheduled(list, create)) :
               Refill(inflight,
                      overflow \o Append(q, [slot |-> s, id |-> nextId[s],
                                             body |-> plist, sent |-> FALSE]))
          /\ tainted' = [tainted EXCEPT ![p] =
               \/ \E x \in inflight : x.slot = s
               \/ \E i \in DOMAIN overflow : overflow[i].slot = s]
          /\ wakes' = TRUE
  /\ UNCHANGED <<pending, net, acks, clientVars, excused>>

\* Mutant: releasePacketSendArr, the messages of every player are dropped.
Released_all(s) == {}

\* releasePacketSendArr_forPlayer: the table only, the overflow queue keeps its own.
Released(s) == {x \in inflight : x.slot # s}

\* Thread t removes p and gives up the lock to notify the game.
Remove(t, p) ==
  /\ pending[t] = NoPlayer
  /\ list' = [list EXCEPT ![pid[p]] = NoPlayer]
  /\ nextId' = [nextId EXCEPT ![pid[p]] = 0]
  /\ inflight' = Released(pid[p])
  /\ pending' = [pending EXCEPT ![t] = p]
  /\ UNCHANGED <<overflow, wakes, net, acks, pid, clientVars, log, tainted, excused>>

\* The host's answer to p's request to leave, sent once and not acknowledged.
Echo(p) == [to |-> p, id |-> 0, body |-> [ty |-> "Leave", who |-> p]]

\* handlePacket_A_DestroyPlayer: a client that is leaving asks for it.  A host that
\* no longer knows the player answers all the same.
DestroyPlayer(p) ==
  /\ conn[p] \in {"leaving", "gone"}
  /\ pid[p] # 0
  /\ \/ list[pid[p]] = p /\ Remove("listen", p)
     \/ /\ list[pid[p]] # p /\ pending["listen"] = NoPlayer
        /\ net' = net \cup {Echo(p)}
        /\ UNCHANGED <<hostVars, acks, pid, clientVars, log, tainted, excused>>

\* destroyPlayer: the game kicks p.
Kick(p) ==
  /\ p \in Kicked
  /\ Joined(list, p)
  /\ Remove("game", p)

\* Thread t has the lock again and schedules the Leave.
ScheduleLeave(t) ==
  LET p == pending[t]
      bye == [ty |-> "Leave", who |-> p]
  IN /\ p # NoPlayer
     /\ pending' = [pending EXCEPT ![t] = NoPlayer]
     /\ net' = IF t = "listen" THEN net \cup {Echo(p)} ELSE net
     /\ nextId' = Numbered(list)
     /\ log' = Logged(list, bye)
     /\ \E q \in InSlotOrder(Scheduled(list, bye)) : Refill(inflight, overflow \o q)
     /\ wakes' = (wakes \/ Scheduled(list, bye) # {})
     /\ UNCHANGED <<list, acks, pid, clientVars, tainted, excused>>

-----------------------------------------------------------------------------
(* The host's deliver thread and the acknowledgements. *)

\* SendDeliverThread, one wake-up: the table is refilled, the packets in due are sent
\* (a packet never sent is always due), those in old have had their 60 seconds and are
\* dropped.  It sleeps until the next packet of the table is due, without end if the
\* table is empty by then.  An event or a guaranteed message may wake it any time.
DeliverThese(due, old) ==
  /\ \E n \in 0..Len(overflow) :
       LET arr == inflight \cup {overflow[i] : i \in 1..n}
           out == due \cup {x \in arr : ~x.sent}
       IN /\ Fill(n, inflight, overflow)
          /\ overflow' = SubSeq(overflow, n + 1, Len(overflow))
          /\ inflight' = (arr \ (out \cup old)) \cup {[x EXCEPT !.sent = TRUE] : x \in out}
          /\ wakes' = (inflight' # {})
          /\ net' = net \cup {[to |-> list[x.slot], id |-> x.id, body |-> x.body] :
                                x \in {y \in out : list[y.slot] # NoPlayer}}
          /\ excused' = [p \in Players |->
               excused[p] \cup {x.id : x \in {y \in old : list[y.slot] = p}}]
  /\ UNCHANGED <<list, nextId, pending, acks, pid, clientVars, log, tainted>>

Sent == {x \in inflight : x.sent}

Deliver ==
  \E due \in SUBSET Sent : \E old \in SUBSET (Sent \ due) : DeliverThese(due, old)

\* The numbers an acknowledgement of i carries: AckPacketsCountArr has 50 entries
\* and only the first is ever written, so the others read 0.
AckedIds(i) == {i, 0}

\* handlePacket_C.
HandleAck(a) ==
  /\ a \in acks /\ pending["listen"] = NoPlayer
  /\ pid[a.from] # 0 /\ list[pid[a.from]] = a.from
  /\ LET gone == {x \in inflight : x.slot = pid[a.from] /\ x.id \in AckedIds(a.id)}
     IN /\ inflight' = inflight \ gone
        /\ excused' = [excused EXCEPT ![a.from] =
             @ \cup {x.id : x \in {y \in gone : y.id = 0 /\ next[a.from] = 0
                                                /\ ~Holds(queue[a.from], 0)}}]
  /\ UNCHANGED <<list, nextId, overflow, pending, wakes, net, acks, pid, clientVars,
                 log, tainted>>

-----------------------------------------------------------------------------
(* The clients. *)

Connected(p) == conn[p] \in {"in", "leaving"}

\* JoinSession_proc: the reply to the join request names p's id and slot.
Connect(p) ==
  /\ conn[p] = "out" /\ pid[p] # 0
  /\ conn' = [conn EXCEPT ![p] = "in"]
  /\ view' = [view EXCEPT ![p][pid[p]] = p]
  /\ UNCHANGED <<hostVars, net, acks, pid, next, queue, freed, log, handled,
                 tainted, excused>>

\* DestroyPlayer on a client: it asks to leave and waits at most 4 seconds.
AskToLeave(p) ==
  /\ p \in Leavers
  /\ conn[p] = "in"
  /\ conn' = [conn EXCEPT ![p] = "leaving"]
  /\ UNCHANGED <<hostVars, net, acks, pid, next, queue, freed, view, log,
                 handled, tainted, excused>>

StopWaiting(p) ==
  /\ conn[p] = "leaving"
  /\ conn' = [conn EXCEPT ![p] = "gone"]
  /\ UNCHANGED <<hostVars, net, acks, pid, next, queue, freed, view, log,
                 handled, tainted, excused>>

\* Mutant: the number of the first entry is not compared.
Ready_any(p) == queue[p] # << >> /\ ~freed[p]

Ready(p) == queue[p] # << >> /\ ~freed[p] /\ Head(queue[p]).id = next[p]

\* Bound: a number that the list already holds MaxCopies times is not read again.
Fits(p, i) == Cardinality({k \in DOMAIN queue[p] : queue[p][k].id = i}) < MaxCopies

\* Mutant: a message is listed as the next one whatever its number.
AddToHandle_asNext(p, q, i, body) ==
  /\ Fits(p, i)
  /\ queue' = [queue EXCEPT ![p] = Insert(q, next[p], body)]
  /\ excused' = excused

\* handlePacket_1_2_9_B_E puts message m in the list of p, under the number i.
\* What Insert makes unreachable is lost to the client.
AddToHandle(p, q, i, body) ==
  /\ Fits(p, i)
  /\ queue' = [queue EXCEPT ![p] = Insert(q, i, body)]
  /\ excused' = [excused EXCEPT ![p] =
       @ \cup {n \in {i} \cup {queue[p][k].id : k \in DOMAIN queue[p]} :
                 ~Holds(Insert(q, i, body), n)}]

Acknowledge(p, i) == acks' = acks \cup {[from |-> p, id |-> i]}

\* A Create or a List: listed unless it was handled before, acknowledged either way.
ReceiveUpdate(p, m) ==
  /\ m.body.ty \in {"Create", "List"}
  /\ IF m.id >= next[p]
     THEN AddToHandle(p, queue[p], m.id, m.body)
     ELSE UNCHANGED <<queue, excused>>
  /\ Acknowledge(p, m.id)

\* A Leave of somebody else: if p knows that player and the message is new it is
\* listed and acknowledged.  Otherwise the number acknowledged is 0.
ReceiveLeave(p, m) ==
  /\ m.body.ty = "Leave" /\ m.body.who # p
  /\ IF Joined(view[p], m.body.who) /\ m.id >= next[p]
     THEN /\ AddToHandle(p, queue[p], m.id, m.body)
          /\ Acknowledge(p, m.id)
     ELSE /\ Acknowledge(p, 0)
          /\ UNCHANGED <<queue, excused>>

\* p's own Leave overtakes everything: the list is emptied and the message
\* becomes the next one to handle.  It is not acknowledged.
ReceiveOwnLeave(p, m) ==
  /\ m.body.ty = "Leave" /\ m.body.who = p
  /\ Joined(view[p], p)
  /\ queue' = [queue EXCEPT ![p] = Insert(<< >>, next[p], m.body)]
  /\ UNCHANGED <<acks, excused>>

\* ReadSPMessage reads the socket only when no listed message is ready.
Receive(p, m) ==
  /\ m \in net /\ m.to = p
  /\ Connected(p) /\ ~Ready(p) /\ ~freed[p]
  /\ ReceiveUpdate(p, m) \/ ReceiveLeave(p, m) \/ ReceiveOwnLeave(p, m)
  /\ UNCHANGED <<hostVars, net, conn, pid, next, freed, view, log, handled, tainted>>

\* Mutant: a Leave is ignored.
Applied_noLeave(l, body) ==
  CASE body.ty = "Create" -> [l EXCEPT ![body.slot] = body.who]
    [] body.ty = "List" -> [s \in Slots |->
         IF body.list[s] = NoPlayer THEN l[s] ELSE body.list[s]]
    [] body.ty = "Leave" -> l

\* processSPMessages: the effect of a message on the player list of p.
Applied(l, body) ==
  CASE body.ty = "Create" -> [l EXCEPT ![body.slot] = body.who]
    [] body.ty = "List" -> [s \in Slots |->
         IF body.list[s] = NoPlayer THEN l[s] ELSE body.list[s]]
    [] body.ty = "Leave" -> [s \in Slots |->
         IF l[s] = body.who THEN NoPlayer ELSE l[s]]

\* popReceivedPacketToHandle and the case of processSPMessages for the message.
Handle(p) ==
  /\ Connected(p) /\ Ready(p)
  /\ LET e == Head(queue[p]) IN
       /\ next' = [next EXCEPT ![p] = @ + 1]
       /\ queue' = [queue EXCEPT ![p] = Popped(@)]
       /\ freed' = [freed EXCEPT ![p] = e.prev]
       /\ handled' = [handled EXCEPT ![p] = Append(@, e.body)]
       /\ view' = [view EXCEPT ![p] = Applied(@, e.body)]
       /\ conn' = [conn EXCEPT ![p] =
            IF e.body = [ty |-> "Leave", who |-> p] THEN "gone" ELSE @]
  /\ UNCHANGED <<hostVars, net, acks, pid, log, tainted, excused>>

\* Undefined behaviour: p reads a freed entry.  It may find a number that never
\* matches (no step), or memory reused for a later message whose number does.
\* Bound: no further than the number of messages scheduled.
HandleFreed(p) ==
  /\ p \in FreedReaders
  /\ Connected(p) /\ freed[p]
  /\ next[p] < Len(log[p])
  /\ next' = [next EXCEPT ![p] = @ + 1]
  /\ \E i \in DOMAIN log[p] :
       /\ handled' = [handled EXCEPT ![p] = Append(@, log[p][i])]
       /\ view' = [view EXCEPT ![p] = Applied(@, log[p][i])]
  /\ UNCHANGED <<hostVars, net, acks, conn, pid, queue, freed, log, tainted, excused>>

-----------------------------------------------------------------------------

Next ==
  \/ \E p \in Players :
       \/ Join(p) \/ DestroyPlayer(p) \/ Kick(p)
       \/ Connect(p) \/ AskToLeave(p) \/ StopWaiting(p) \/ Handle(p) \/ HandleFreed(p)
       \/ \E m \in net : Receive(p, m)
  \/ \E t \in Threads : ScheduleLeave(t)
  \/ \E a \in acks : HandleAck(a)
  \/ Deliver

Spec == Init /\ [][Next]_vars

\* The channel of p was never mixed with that of the last player of its slot, and
\* p never read a freed entry.
Sound(p) == ~tainted[p] /\ ~freed[p]

\* The next message of p is the leave of a player p does not know.  It is never
\* listed (handlePacket_1_2_9_B_E asks for a known player), so p can go no further.
Stuck(p) ==
  /\ next[p] < Len(log[p])
  /\ log[p][next[p] + 1].ty = "Leave"
  /\ ~Joined(view[p], log[p][next[p] + 1].who)

\* The deliver thread sleeps without end, and a packet for p waits in the overflow queue:
\* the last wake-up found the table full, and dropped all of it.
Starved(p) == ~wakes /\ \E k \in DOMAIN overflow : overflow[k].slot = pid[p]

\* Fairness.  The deliver thread runs for as long as it wakes: of what waits in the
\* overflow queue nothing is assumed once it sleeps without end.  The network is
\* fair-lossy: a packet that is sent again and again is received, as is an
\* acknowledgement that is.  One that will never be acknowledged runs out of its 60
\* seconds, which makes room in the table.
\* Nothing is assumed of joining, leaving and kicking.
\* Each assumption is weak or strong fairness of an action A, written out as "A can be
\* taken only for a time, or it is taken again and again"; Can... says when it can.
Resend == DeliverThese(Sent, {})
Unanswerable(x) ==
  LET p == list[x.slot]
  IN p = NoPlayer \/ conn[p] \in {"leaving", "gone"} \/ ~Sound(p) \/ Stuck(p)
Expire == LET old == {x \in Sent : Unanswerable(x)} IN old # {} /\ DeliverThese({}, old)
AckOf(p) == \E a \in acks : a.from = p /\ HandleAck(a)
Oldest(p) == {x \in Sent : x.slot = pid[p] /\ \A y \in Sent : y.slot = x.slot => x.id <= y.id}
ReceiveNext(p) ==
  \E x \in Oldest(p) : \E m \in net : m.id = x.id /\ m.body = x.body /\ Receive(p, m)

CanConnect(p) == conn[p] = "out" /\ pid[p] # 0
CanHandle(p) == Connected(p) /\ Ready(p)
CanAck(p) ==
  /\ pending["listen"] = NoPlayer /\ pid[p] # 0 /\ list[pid[p]] = p
  /\ \E a \in acks : a.from = p /\ \E x \in inflight : x.slot = pid[p] /\ x.id \in AckedIds(a.id)
CanResend ==
  \/ \E x \in inflight : ~x.sent
  \/ wakes /\ overflow # << >> /\ Cardinality(inflight) < Cap
  \/ \E x \in Sent : /\ list[x.slot] # NoPlayer
                      /\ [to |-> list[x.slot], id |-> x.id, body |-> x.body] \notin net

Fairness ==
  /\ []<>~CanResend \/ []<><<Resend>>_vars
  /\ []<>(\A x \in Sent : ~Unanswerable(x)) \/ []<><<Expire>>_vars
  /\ \A t \in Threads : []<>(pending[t] = NoPlayer) \/ []<><<ScheduleLeave(t)>>_vars
  /\ \A p \in Players :
       /\ []<>~CanAck(p) \/ []<><<AckOf(p)>>_vars
       /\ []<>~CanConnect(p) \/ []<><<Connect(p)>>_vars
       /\ []<>~CanHandle(p) \/ []<><<Handle(p)>>_vars
       /\ SF_vars(ReceiveNext(p))

FairSpec == Spec /\ Fairness

-----------------------------------------------------------------------------
(* Properties *)

\* Numbers never go below 0, every entry of a table, list or log is a message of the
\* protocol, and every player list names players in slots (the structures of
\* protocol.h and structs.h).
TypeOK ==
  /\ list \in PlayerList
  /\ nextId \in [Slots -> Nat]
  /\ inflight \subseteq Packet
  /\ overflow \in Seq(Packet)
  /\ pending \in [Threads -> Players \cup {NoPlayer}]
  /\ wakes \in BOOLEAN
  /\ net \subseteq Datagram
  /\ acks \subseteq Ack
  /\ conn \in [Players -> {"out", "in", "leaving", "gone"}]
  /\ pid \in [Players -> {0} \cup Slots]
  /\ next \in [Players -> Nat]
  /\ queue \in [Players -> Seq([id : Nat, body : Body, prev : BOOLEAN])]
  /\ freed \in [Players -> BOOLEAN]
  /\ view \in [Players -> PlayerList]
  /\ log \in [Players -> Seq(Body)]
  /\ handled \in [Players -> Seq(Body)]
  /\ tainted \in [Players -> BOOLEAN]
  /\ excused \in [Players -> SUBSET Nat]

\* The packets the host still keeps for p.
Kept(p) ==
  {x \in inflight \cup {overflow[k] : k \in DOMAIN overflow} : x.slot = pid[p]}

\* A client handles exactly the messages scheduled for it, in their order and each
\* once, however the network reorders, repeats and loses them: handlePacket_1_2_9_B_E
\* and popReceivedPacketToHandle together.
InOrder ==
  \A p \in Players : (Sound(p) /\ conn[p] \in {"out", "in"}) =>
    /\ next[p] <= Len(log[p])
    /\ handled[p] = SubSeq(log[p], 1, next[p])

\* A client that has handled all there is for it has the host's player list: the
\* list sent to a newcomer and the changes scheduled around its join miss nothing
\* and repeat nothing, also across a kick that interrupts itself.
AgreesWhenCaughtUp ==
  \A p \in Players :
    (/\ Sound(p) /\ conn[p] = "in" /\ Joined(list, p) /\ next[p] = Len(log[p])
      /\ \A t \in Threads : pending[t] = NoPlayer)
      => view[p] = list

\* The only ways to lose a message are the three that `excused' records (60 seconds
\* without an answer, an insertion that unlinks it, an acknowledgement read as one of
\* number 0).  Every other message not yet handled is kept by the host or the client.
LostOnlyIfExcused ==
  \A p \in Players : \A i \in 0..Len(log[p]) - 1 :
    (Sound(p) /\ conn[p] \in {"out", "in"} /\ Joined(list, p) /\ i >= next[p])
      => \/ i \in excused[p]
         \/ Holds(queue[p], i)
         \/ \E x \in Kept(p) : x.id = i

\* A client that stays catches up, unless a message was lost to it, it is stuck behind a
\* leave it cannot accept, or what it waits for is left in the overflow queue by a deliver
\* thread that sleeps without end.
CatchesUp ==
  \A p \in Players :
    (conn[p] = "in") ~>
      \/ next[p] = Len(log[p])
      \/ conn[p] # "in" \/ ~Joined(list, p)
      \/ ~Sound(p) \/ excused[p] # {} \/ Stuck(p) \/ Starved(p)

\* The system channel is an ordered delivery to each client for as long as the
\* client stays and its channel is sound.
Ordered == INSTANCE OrderedDelivery WITH
  Receivers <- Players,
  Payload <- Body,
  sent <- log,
  got <- handled,
  broken <- [p \in Players |-> ~Sound(p) \/ conn[p] \in {"leaving", "gone"}]
ImplementsOrderedDelivery == Ordered!Spec
=============================================================================
