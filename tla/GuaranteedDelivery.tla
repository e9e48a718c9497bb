-------------------------- MODULE GuaranteedDelivery --------------------------
(***************************************************************************)
(* Guaranteed messages between the players of a session: the packets       *)
(* MyPacket_D_Guaranteed and MyPacket_10_GuaranteedProgress.  The sender   *)
(* keeps a header per message with one packet per destination, resends     *)
(* every packet until its destination has reported all blocks, and then    *)
(* reports to the game.  The receiver stores what arrives, answers each    *)
(* packet, and hands complete messages to the game in the order of the     *)
(* sender's count.  Clients talk to each other through the host.           *)
(*                                                                         *)
(* Each node runs a listen thread, which receives, and a deliver thread,   *)
(* which sends and resends.  They share dataLock but let go of it while    *)
(* they call the game, and go on with pointers they took before.           *)
(*                                                                         *)
(* The network loses, duplicates, delays and reorders.  Who is joined is   *)
(* told by the system messages of SystemChannel, at any later time.        *)
(***************************************************************************)
EXTENDS Integers, Sequences, FiniteSets, SequencesExt, FiniteSetsExt

CONSTANTS
  Host, Clients,
  Newcomers,   \* the clients that join later; the others have been told of each other
  Slot,        \* bound: the slot of f24_playerList each player gets
  Senders,     \* bound: the players that send guaranteed messages
  MaxSends,    \* bound: guaranteed messages of each sender
  Sizes,       \* bound: the sizes of messages, in blocks of 420 bytes
  Leavers      \* bound: the clients that may leave or be kicked

ASSUME PlayersAssumption ==
  /\ Host \notin Clients /\ IsFiniteSet(Clients)
  /\ Newcomers \subseteq Clients /\ Leavers \subseteq Clients
  /\ Slot \in [Clients \cup {Host} -> Nat]
  \* A newcomer may take the slot of a leaver, but no two newcomers the same one.
  /\ \A m, n \in Clients \cup {Host} :
       (Slot[m] = Slot[n] /\ (m \in Newcomers <=> n \in Newcomers)) => m = n
ASSUME SendersAssumption == Senders \subseteq Clients \cup {Host}
ASSUME MaxSendsAssumption == MaxSends \in Nat
\* One chunk of at most 8 blocks; the step to a second chunk is not modelled.
ASSUME SizesAssumption == Sizes \subseteq 1..7

Nodes == Clients \cup {Host}
Blocks == 0..7
Slots == {Slot[n] : n \in Nodes}

VARIABLES
  waiting,     \* clients that have not joined yet
  knows,       \* knows[n]: the players joined in n's f24_playerList, {} out of session
  told,        \* told[n]: players n has been sent a Create or List message about
  scheduled,   \* guaranteedScheduledCount of f226_curPlayer
  sendCount,   \* sendCount[n][s]: f2C_packet_D_Guaranteed_sendScheduled_count of slot s
  recvCount,   \* recvCount[n][s]: f30_receivedScheduled_count of slot s
  headers,     \* f25F_deliverHeadersQueue
  received,    \* f267_receivedDeliverQueue
  handing,     \* nodes whose listen thread is in the loop that hands messages over
  calls,       \* calls of the game's message handler that have not returned
  wakes,       \* nodes whose deliver thread has an event or a timer to wake it
  corrupt,     \* nodes that used freed memory, which are not followed any further
  data,        \* MyPacket_D_Guaranteed in the network
  progress,    \* MyPacket_10_GuaranteedProgress in the network
  \* history, read by properties only
  sent,        \* sent[<<n, m>>]: the messages n scheduled for m, in order
  got,         \* got[<<n, m>>]: the messages of n that m handed to its game
  skewed,      \* <<n, m>>: m counted a message of an earlier player of n's slot for n
  held,        \* <<n, m, g>>: m has had all of message g of n
  reports      \* what the senders' games were told

members == <<waiting, knows, told>>
network == <<data, progress>>
threads == <<handing, calls, wakes, corrupt>>
history == <<sent, got, skewed, held, reports>>
vars == <<members, scheduled, sendCount, recvCount, headers, received, threads, network, history>>

\* guaranteedScheduledCount of a message, its number among those of its sender.
Numbers == 0..MaxSends - 1
Message == [g : Numbers, size : Sizes]
Outgoing == [to : Nodes, i : Nat, have : SUBSET Blocks]
Header == [g : Numbers, size : Sizes, num : Nat, done : Nat, failed : Nat,
           packets : SUBSET Outgoing]
Received == [from : Nodes, g : Numbers, i : Nat, size : Sizes, blocks : SUBSET Blocks]
\* `at' is the node the datagram is on its way to.
Data == [at : Nodes, from : Nodes, to : Nodes, g : Numbers, i : Nat, size : Sizes, block : Blocks]
Progress == [at : Nodes, from : Nodes, to : Nodes, g : Numbers, i : Nat, blocks : SUBSET Blocks]
\* f4_type 1 and 3 of MyGuarateedData: "part success" and "failed".
Report == [by : Nodes, g : Numbers, type : {1, 3}, num : Nat, done : Nat, failed : Nat]
\* A message g of `from' is handed over, or the fate of the node's own message told.
Call == [by : Nodes, thread : {"listen", "deliver"}, from : Nodes, g : Numbers]

Init ==
  /\ waiting = Newcomers
  /\ knows = [n \in Nodes |-> IF n \in Newcomers THEN {} ELSE Nodes \ Newcomers]
  /\ told = [n \in Nodes |-> {}]
  /\ scheduled = [n \in Nodes |-> 0]
  /\ sendCount = [n \in Nodes |-> [s \in Slots |-> 0]]
  /\ recvCount = [n \in Nodes |-> [s \in Slots |-> 0]]
  /\ headers = [n \in Nodes |-> << >>]
  /\ received = [n \in Nodes |-> << >>]
  /\ handing = {} /\ calls = {} /\ wakes = {} /\ corrupt = {}
  /\ data = {}
  /\ progress = {}
  /\ sent = [nm \in Nodes \X Nodes |-> << >>]
  /\ got = [nm \in Nodes \X Nodes |-> << >>]
  /\ skewed = {}
  /\ held = {}
  /\ reports = {}

InGame(n, thread) == \E c \in calls : c.by = n /\ c.thread = thread
ListenIdle(n) == n \notin corrupt /\ n \notin handing /\ ~InGame(n, "listen")

-----------------------------------------------------------------------------
(* The players of the session. *)

\* Mutant: the counts are not reset.
Restarted_not(counts, n, m) == counts

\* n counts with the player in the slot of m from 0.
Restarted(counts, n, m) == [counts EXCEPT ![n][Slot[m]] = 0]

\* handlePacket_7_JoinPlayer: the host lets c in, counts with it from 0, and schedules
\* the messages that tell the others of c, and c of everybody.
Join(c) ==
  /\ c \in waiting /\ Host \notin corrupt
  /\ \A m \in knows[Host] : Slot[m] # Slot[c]
  /\ waiting' = waiting \ {c}
  /\ knows' = [knows EXCEPT ![Host] = @ \cup {c}, ![c] = {c}]
  /\ told' = [n \in Nodes |->
       IF n = c THEN knows[Host] ELSE IF n \in knows[Host] \ {Host} THEN told[n] \cup {c}
       ELSE told[n]]
  /\ sendCount' = Restarted(sendCount, Host, c)
  /\ recvCount' = Restarted(recvCount, Host, c)
  /\ wakes' = wakes \cup {Host}
  /\ UNCHANGED <<scheduled, headers, received, handing, calls, corrupt, network, history>>

\* processSPMessages, Create and List: n starts to count with m at 0.
Learn(n, m) ==
  /\ knows[n] # {} /\ m \in told[n] \ knows[n]
  /\ \A q \in knows[n] : Slot[q] # Slot[m]
  /\ ListenIdle(n)
  /\ knows' = [knows EXCEPT ![n] = @ \cup {m}]
  /\ told' = [told EXCEPT ![n] = @ \ {m}]
  /\ sendCount' = Restarted(sendCount, n, m)
  /\ recvCount' = Restarted(recvCount, n, m)
  /\ UNCHANGED <<waiting, scheduled, headers, received, threads, network, history>>

\* The player m is cleared from the list of n.
Clear(n, m) ==
  /\ knows' = [knows EXCEPT ![n] = @ \ {m}]
  /\ sendCount' = Restarted(sendCount, n, m)
  /\ recvCount' = Restarted(recvCount, n, m)

\* The host removes c: c asked to leave (the listen thread) or is kicked (any time).
\* The Leave messages it schedules wake its deliver thread.
HostRemoves(c) ==
  /\ c \in Leavers /\ c \in knows[Host] /\ Host \notin corrupt
  /\ Clear(Host, c)
  /\ wakes' = wakes \cup {m \in {Host} : knows[Host] # {Host, c}}
  /\ UNCHANGED <<waiting, told, scheduled, headers, received, handing, calls, corrupt, network, history>>

\* processSPMessages, Leave: n hears that m has gone.
Forget(n, m) ==
  /\ n # Host /\ m # n /\ m \in knows[n] \ knows[Host]
  /\ ListenIdle(n)
  /\ Clear(n, m)
  /\ UNCHANGED <<waiting, told, scheduled, headers, received, threads, network, history>>

\* releaseDeliverQueues: c is out of the session, whether the host knows it or not.
\* Its deliver thread has to end for this, its listen thread may be inside the game.
EndSession(c) ==
  /\ c \in Leavers /\ knows[c] # {}
  /\ c \notin corrupt /\ ~InGame(c, "deliver")
  /\ knows' = [knows EXCEPT ![c] = {}]
  /\ told' = [told EXCEPT ![c] = {}]
  /\ headers' = [headers EXCEPT ![c] = << >>]
  /\ received' = [received EXCEPT ![c] = << >>]
  /\ UNCHANGED <<waiting, scheduled, sendCount, recvCount, threads, network, history>>

-----------------------------------------------------------------------------
(* The sender. *)

\* Every destination has a count of its own.
Counted(n, to) ==
  [s \in Slots |-> IF \E m \in to : Slot[m] = s THEN sendCount[n][s] + 1 ELSE sendCount[n][s]]

\* The next message of n, of so many blocks, with a packet for every player in `to'.
NewHeader(n, to, size) ==
  [g |-> scheduled[n], size |-> size, num |-> Cardinality(to), done |-> 0, failed |-> 0,
   packets |-> {[to |-> m, i |-> sendCount[n][Slot[m]], have |-> {}] : m \in to}]

SendTo(n, to, size) ==
  /\ headers' = [headers EXCEPT ![n] = Append(@, NewHeader(n, to, size))]
  /\ sendCount' = [sendCount EXCEPT ![n] = Counted(n, to)]
  /\ sent' = [nm \in Nodes \X Nodes |->
       IF nm[1] = n /\ nm[2] \in to
       THEN Append(sent[nm], [g |-> scheduled[n], size |-> size]) ELSE sent[nm]]

\* AddGuaranteedPacketToMessageQueue: to one player, or to all the others.
SendData(n) ==
  /\ n \in Senders /\ scheduled[n] < MaxSends /\ n \notin corrupt
  /\ \E to \in {{m} : m \in knows[n] \ {n}} \cup {knows[n] \ {n}} :
       to # {} /\ \E size \in Sizes : SendTo(n, to, size)
  /\ scheduled' = [scheduled EXCEPT ![n] = @ + 1]
  /\ wakes' = wakes \cup {n}
  /\ UNCHANGED <<members, recvCount, received, handing, calls, corrupt, network,
                 got, skewed, held, reports>>

\* Mutant: the host, too, sends to the host.
Via_host(n, to) == Host

\* BullfrogNET::SendMessage: a client sends everything to the host.
Via(n, to) == IF n = Host THEN to ELSE Host

\* processDeliverHeaders copies the number of the chunk's first block into every
\* packet of the chunk, f48_blockIdx = f34_curBlockIdx.
BlockNumber(b) == 0

\* The packet for a player who is not joined any more, the first in the order of slots.
Lost(n, h) ==
  LET lost == {x \in h.packets : x.to \notin knows[n]}
  IN {x \in lost : \A y \in lost : Slot[x.to] <= Slot[y.to]}

\* The packets of h a pass comes to: it leaves the header at the first lost one.
Visited(n, h) ==
  {x \in h.packets : x.to \in knows[n] /\ \A y \in Lost(n, h) : Slot[x.to] < Slot[y.to]}

Outbound(n, h) ==
  {[at |-> Via(n, x.to), from |-> n, to |-> x.to, g |-> h.g, i |-> x.i,
    size |-> h.size, block |-> BlockNumber(b)] : x \in Visited(n, h), b \in 0..h.size - 1}

\* Mutant: the lost packet is not counted as ended.
Gone_uncounted(n, h) == [h EXCEPT !.packets = @ \ Lost(n, h)]

\* Mutant: the lost packet is counted as received.
Gone_received(n, h) ==
  IF Lost(n, h) = {} THEN h
  ELSE [h EXCEPT !.done = @ + 1, !.packets = @ \ Lost(n, h)]

\* The lost packet ends without success.
Gone(n, h) ==
  IF Lost(n, h) = {} THEN h
  ELSE [h EXCEPT !.failed = @ + 1, !.packets = @ \ Lost(n, h)]

Ended(h) == h.done + h.failed >= h.num

ReportOf(n, type, h) ==
  [by |-> n, g |-> h.g, type |-> type, num |-> h.num, done |-> h.done, failed |-> h.failed]

\* The headers a pass comes to before it first calls the game.
Reached(n) ==
  LET Ends(k) == Lost(n, headers[n][k]) # {} /\ Ended(Gone(n, headers[n][k]))
  IN {k \in DOMAIN headers[n] : \A j \in 1..k - 1 : ~Ends(j)}

\* processDeliverHeaders, one pass of the deliver thread over the headers.  Which
\* packets go out depends on their 500 ms and on the 100000 bytes per second.  At the
\* first header that ends, the lock is released and the game told; the pass then starts
\* again.  The time to sleep counts the packets visited, and timers of system messages:
\* where it found none the thread sleeps until the next event.
Pass(n, out) ==
  LET hs == [k \in DOMAIN headers[n] |->
               IF k \in Reached(n) THEN Gone(n, headers[n][k]) ELSE headers[n][k]]
      over == {k \in Reached(n) : Lost(n, headers[n][k]) # {} /\ Ended(hs[k])}
      lost == \E k \in Reached(n) : Lost(n, headers[n][k]) # {}
      visited == \E k \in Reached(n) : Visited(n, headers[n][k]) # {}
  IN /\ n \in wakes /\ n \notin corrupt /\ ~InGame(n, "deliver")
     /\ knows[n] # {}
     /\ data' = data \cup out
     /\ headers' = [headers EXCEPT ![n] = hs]
     /\ reports' = reports \cup {ReportOf(n, 3, hs[k]) : k \in over}
     /\ calls' = calls \cup
          {[by |-> n, thread |-> "deliver", from |-> n, g |-> hs[k].g] : k \in over}
     /\ wakes' \in {wakes, IF visited \/ over # {} \/ (n = Host /\ lost /\ knows[n] # {n})
                           THEN wakes ELSE wakes \ {n}}
     /\ UNCHANGED <<members, scheduled, sendCount, recvCount, received, handing, corrupt,
                    progress, sent, got, skewed, held>>

AllOutbound(n) == UNION {Outbound(n, headers[n][k]) : k \in Reached(n)}

DeliverThread(n) == \E out \in SUBSET (AllOutbound(n) \ data) : Pass(n, out)

\* Either thread returns from telling the game a fate, and removes the header, which
\* the other thread may have told and freed meanwhile.
Told(c) ==
  LET at == {k \in DOMAIN headers[c.by] : headers[c.by][k].g = c.g}
  IN /\ c.from = c.by /\ c.by \notin corrupt
     /\ calls' = calls \ {c}
     /\ IF at = {}
        THEN corrupt' = corrupt \cup {c.by} /\ UNCHANGED headers
        ELSE /\ \E k \in at : headers' = [headers EXCEPT ![c.by] = RemoveAt(@, k)]
             /\ UNCHANGED corrupt
     /\ UNCHANGED <<members, scheduled, sendCount, recvCount, received, handing, wakes,
                    network, history>>

-----------------------------------------------------------------------------
(* The receiver. *)

\* f14_partSize >= f18_totalSize.
Complete(x) == Cardinality(x.blocks) >= x.size

\* Mutant: an entry is handed over whatever its place in the sender's count.
ReadyAt_any(n, q, k) ==
  /\ Complete(q[k])
  /\ q[k].from \in knows[n]

\* A complete message of a joined sender whose turn it is.
ReadyAt(n, q, k) ==
  /\ Complete(q[k])
  /\ q[k].from \in knows[n]
  /\ q[k].i = recvCount[n][Slot[q[k].from]]

Ready(n, q) == {k \in DOMAIN q : ReadyAt(n, q, k)}

Old(n, d) == d.i < recvCount[n][Slot[d.from]]

SameMessage(x, d) == x.from = d.from /\ x.g = d.g /\ x.i = d.i
Stored(n, d) == {k \in DOMAIN received[n] : SameMessage(received[n][k], d)}

\* The answer to packet d, with the blocks that have arrived.
Answer(n, d, blocks) ==
  [at |-> Via(n, d.from), from |-> n, to |-> d.from, g |-> d.g, i |-> d.i, blocks |-> blocks]

\* handlePacket_D_locked up to the answer.  A packet below the count is answered as
\* if all blocks were there; a message is stored when its first block arrives.
Store(n, d) ==
  \/ /\ Old(n, d)
     /\ progress' = progress \cup {Answer(n, d, Blocks)}
     /\ UNCHANGED received
  \/ /\ ~Old(n, d) /\ Stored(n, d) # {}
     /\ \E k \in Stored(n, d) :
          LET x == received[n][k]
          IN IF Complete(x)
             THEN /\ progress' = progress \cup {Answer(n, d, Blocks)}
                  /\ UNCHANGED received
             ELSE /\ progress' = progress \cup {Answer(n, d, x.blocks \cup {d.block})}
                  /\ received' = [received EXCEPT ![n][k].blocks = @ \cup {d.block}]
  \/ /\ ~Old(n, d) /\ Stored(n, d) = {} /\ d.block = 0
     /\ received' = [received EXCEPT ![n] = Append(@,
          [from |-> d.from, g |-> d.g, i |-> d.i, size |-> d.size, blocks |-> {0}])]
     /\ progress' = progress \cup {Answer(n, d, {0})}

\* handlePacket_D_locked: pass the packet on, or store and answer it and enter the
\* loop that hands messages to the game.
ReceiveData(n, d) ==
  /\ d.at = n /\ ListenIdle(n)
  /\ d.from \in knows[n]
  /\ IF d.to # n
     THEN /\ n = Host => d.to \in knows[Host]
          /\ data' = data \cup {[d EXCEPT !.at = Via(n, d.to)]}
          /\ UNCHANGED <<received, handing, progress, held>>
     ELSE /\ Store(n, d)
          /\ handing' = IF Ready(n, received'[n]) # {} THEN handing \cup {n} ELSE handing
          /\ held' = held \cup {<<x.from, n, x.g>> :
                                  x \in {y \in ToSet(received'[n]) : Complete(y)}}
          /\ UNCHANGED data
  /\ UNCHANGED <<members, scheduled, sendCount, recvCount, headers, calls, wakes, corrupt,
                 sent, got, skewed, reports>>

\* One round of the loop: the first ready message goes to the game, without the lock.
HandOver(n) ==
  /\ n \in handing /\ n \notin corrupt /\ ~InGame(n, "listen")
  /\ IF Ready(n, received[n]) = {}
     THEN handing' = handing \ {n} /\ UNCHANGED <<calls, got>>
     ELSE LET x == received[n][Min(Ready(n, received[n]))]
          IN /\ got' = [got EXCEPT ![<<x.from, n>>] = Append(@, [g |-> x.g, size |-> x.size])]
             /\ calls' = calls \cup {[by |-> n, thread |-> "listen", from |-> x.from, g |-> x.g]}
             /\ UNCHANGED handing
  /\ UNCHANGED <<members, scheduled, sendCount, recvCount, headers, received, wakes, corrupt,
                 network, sent, skewed, held, reports>>

\* The game returns: the entry is removed and the count of the sender's slot goes up,
\* whoever has the slot by now.  A session ended meanwhile has freed the entry.
HandedOver(c) ==
  LET n == c.by
      at == {k \in DOMAIN received[n] : received[n][k].from = c.from /\ received[n][k].g = c.g}
  IN /\ c.from # n /\ n \notin corrupt
     /\ calls' = calls \ {c}
     /\ IF at = {}
        THEN corrupt' = corrupt \cup {n} /\ UNCHANGED <<received, recvCount, skewed>>
        ELSE /\ \E k \in at : received' = [received EXCEPT ![n] = RemoveAt(@, k)]
             /\ recvCount' = [recvCount EXCEPT ![n][Slot[c.from]] = @ + 1]
             /\ skewed' = skewed \cup
                  {<<m, n>> : m \in {q \in knows[n] : q # c.from /\ Slot[q] = Slot[c.from]}}
             /\ UNCHANGED corrupt
     /\ UNCHANGED <<members, scheduled, sendCount, headers, handing, wakes, network,
                    sent, got, held, reports>>

-----------------------------------------------------------------------------
(* The sender again. *)

\* The packet x of header h when a says which blocks arrived.
Merged(h, x, a) ==
  LET have == x.have \cup (a.blocks \cap 0..h.size - 1)
  IN IF Cardinality(have) >= h.size
     THEN [h EXCEPT !.packets = @ \ {x}, !.done = @ + 1]
     ELSE [h EXCEPT !.packets = (@ \ {x}) \cup {[x EXCEPT !.have = have]}]

\* handlePacket_10 and handlePacket_10_handleData: the first ended header is told to the
\* game, even one that the deliver thread is just telling it.
ReceiveProgress(n, a) ==
  /\ a.at = n /\ ListenIdle(n)
  /\ a.from \in knows[n]
  /\ IF a.to # n
     THEN /\ n = Host => a.to \in knows[Host]
          /\ progress' = progress \cup {[a EXCEPT !.at = Via(n, a.to)]}
          /\ UNCHANGED <<headers, calls, reports>>
     ELSE \E k \in DOMAIN headers[n] : \E x \in headers[n][k].packets :
            /\ headers[n][k].g = a.g
            /\ x.to = a.from /\ x.i = a.i
            /\ LET hs == [headers[n] EXCEPT ![k] = Merged(@, x, a)]
                   over == {j \in DOMAIN hs : Ended(hs[j])}
                   first == {j \in over : \A l \in over : j <= l}
               IN /\ headers' = [headers EXCEPT ![n] = hs]
                  /\ reports' = reports \cup {ReportOf(n, 1, hs[j]) : j \in first}
                  /\ calls' = calls \cup
                       {[by |-> n, thread |-> "listen", from |-> n, g |-> hs[j].g] : j \in first}
            /\ UNCHANGED progress
  /\ UNCHANGED <<members, scheduled, sendCount, recvCount, received, handing, wakes, corrupt,
                 data, sent, got, skewed, held>>

-----------------------------------------------------------------------------

Next ==
  \/ \E c \in Clients : Join(c) \/ HostRemoves(c) \/ EndSession(c)
  \/ \E n \in Nodes :
       \/ \E m \in Nodes : Learn(n, m) \/ Forget(n, m)
       \/ SendData(n) \/ DeliverThread(n) \/ HandOver(n)
       \/ \E d \in data : ReceiveData(n, d)
       \/ \E a \in progress : ReceiveProgress(n, a)
  \/ \E c \in calls : Told(c) \/ HandedOver(c)

Spec == Init /\ [][Next]_vars

\* Fairness.  The threads of the nodes keep running, the system messages arrive at
\* those who stay, and the network is fair-lossy: a packet that is sent again for as
\* long as it is outstanding gets through, and so does an answer to it.
Outstanding(s, r, g) ==
  \E k \in DOMAIN headers[s] : headers[s][k].g = g /\ \E x \in headers[s][k].packets : x.to = r

PassAll(n) == Pass(n, AllOutbound(n) \ data)
ReceiveResent(n, s, r) ==
  \E d \in data : d.from = s /\ d.to = r /\ Outstanding(s, r, d.g) /\ ReceiveData(n, d)
ReceiveAnswer(n, s, r) ==
  \E a \in progress : a.from = r /\ a.to = s /\ Outstanding(s, r, a.g) /\ ReceiveProgress(n, a)

Return(n) == \E c \in calls : c.by = n /\ (Told(c) \/ HandedOver(c))

Fairness ==
  \A n \in Nodes :
    /\ WF_vars(PassAll(n)) /\ WF_vars(HandOver(n)) /\ WF_vars(Return(n))
    /\ \A m \in Nodes : WF_vars(Learn(n, m)) /\ WF_vars(Forget(n, m))
    /\ \A s \in Senders, r \in Nodes :
         WF_vars(ReceiveResent(n, s, r)) /\ WF_vars(ReceiveAnswer(n, s, r))

FairSpec == Spec /\ Fairness

-----------------------------------------------------------------------------
(* Properties *)

\* Headers, stored messages and packets are well formed, and counts never go below 0
\* (MyDeliverHeader, MyReceivedHeader, MyPacket_D_Guaranteed).
TypeOK ==
  /\ waiting \subseteq Newcomers
  /\ knows \in [Nodes -> SUBSET Nodes]
  /\ told \in [Nodes -> SUBSET Nodes]
  /\ scheduled \in [Nodes -> Nat]
  /\ sendCount \in [Nodes -> [Slots -> Nat]]
  /\ recvCount \in [Nodes -> [Slots -> Nat]]
  /\ headers \in [Nodes -> Seq(Header)]
  /\ received \in [Nodes -> Seq(Received)]
  /\ handing \subseteq Nodes /\ wakes \subseteq Nodes /\ corrupt \subseteq Nodes
  /\ calls \subseteq Call
  /\ data \subseteq Data
  /\ progress \subseteq Progress
  /\ sent \in [Nodes \X Nodes -> Seq(Message)]
  /\ got \in [Nodes \X Nodes -> Seq(Message)]
  /\ skewed \subseteq Nodes \X Nodes
  /\ held \subseteq Nodes \X Nodes \X Numbers
  /\ reports \subseteq Report

\* m's game is inside the call that hands it a message of n.
Handing(n, m) == \E c \in calls : c.by = m /\ c.from = n

\* The counts of sender and receiver stay in step over joins, leaves and resends: a
\* player has handed over exactly the first recvCount messages of another one's
\* count, and no stored message is below it (handlePacket_D_locked).  Only a message
\* of an earlier player of the slot, counted too late, breaks this.
CountsAgree ==
  \A n, m \in Nodes : (m # n /\ n \in knows[m] /\ m \in knows[n] /\ <<n, m>> \notin skewed) =>
    /\ sendCount[n][Slot[m]] = Len(sent[<<n, m>>])
    /\ recvCount[m][Slot[n]] + (IF Handing(n, m) THEN 1 ELSE 0) = Len(got[<<n, m>>])
    /\ Len(got[<<n, m>>]) <= Len(sent[<<n, m>>])
    /\ \A x \in ToSet(received[m]) : x.from = n =>
         /\ recvCount[m][Slot[n]] <= x.i /\ x.i < sendCount[n][Slot[m]]
         /\ sent[<<n, m>>][x.i + 1].g = x.g

\* The players that had all of message g of n, or that no longer count with n.
Holders(n, g) == {m \in Nodes : <<n, m, g>> \in held \/ <<n, m>> \in skewed}

\* No player is counted as having received a message that has not all of it, neither
\* in a header nor in what the game is told (handlePacket_10, processDeliverHeaders).
ReceivedIsHeld ==
  /\ \A n \in Nodes : \A h \in ToSet(headers[n]) : h.done <= Cardinality(Holders(n, h.g))
  /\ \A r \in reports : r.done <= Cardinality(Holders(r.by, r.g))

\* Both threads of n tell the game of one header, or one of them has freed it already.
Clashes(n) ==
  \E c1 \in {c \in calls : c.by = n /\ c.from = n} :
    \/ \E c2 \in calls \ {c1} : c2.by = n /\ c2.from = n /\ c2.g = c1.g
    \/ \A h \in ToSet(headers[n]) : h.g # c1.g

\* Every destination of a message is still waited for, has received it or is gone, and
\* a header for which nothing is waited for is just being told to the game: none is
\* left behind, though handlePacket_10_handleData looks only at the first one, but
\* where the two threads clash over a header.
NothingForgotten ==
  \A n \in Nodes \ corrupt : ~Clashes(n) =>
    \A h \in ToSet(headers[n]) :
      /\ Cardinality(h.packets) = h.num - h.done - h.failed
      /\ Ended(h) => \E c \in calls : c.by = n /\ c.from = n /\ c.g = h.g

\* The game is told once whether a message failed ("3: failed") or not ("1: part success").
ToldOnce ==
  \A r1, r2 \in reports : (r1.by = r2.by /\ r1.g = r2.g) => r1 = r2

OutOfSession(m) == m \notin knows[Host] \/ knows[m] = {} \/ m \in corrupt

\* The deliver thread of s has found nothing to wait for and sleeps.
Sleeps(s) == s \notin wakes

Single(q, k) == Len(q) >= k /\ \A j \in 1..k : q[j].size = 1

\* A message of one block gets to the game of every player who stays, unless a longer
\* one is before it, the sender's thread sleeps, or the count of the slot is wrong.
GetsThrough ==
  \A s \in Senders, r \in Nodes : \A k \in 1..MaxSends :
    Single(sent[<<s, r>>], k) ~>
      \/ Len(got[<<s, r>>]) >= k
      \/ r \notin knows[s] \/ OutOfSession(s) \/ OutOfSession(r) \/ OutOfSession(Host)
      \/ Sleeps(s) \/ <<s, r>> \in skewed

\* The sender's game is told the fate of a message of one block, unless a destination
\* is out of the session and the sender does not know, or its thread sleeps.  A longer
\* message before it is no obstacle: packets are answered out of turn.
FateIsTold ==
  \A s \in Senders : \A g \in 0..MaxSends - 1 :
    (\E h \in ToSet(headers[s]) : h.g = g /\ h.size = 1) ~>
      \/ \E r \in reports : r.by = s /\ r.g = g
      \/ OutOfSession(s) \/ OutOfSession(Host) \/ Sleeps(s)
      \/ \E m \in knows[s] : OutOfSession(m)

\* Between every two players the messages are an ordered delivery, until a message of
\* an earlier player of the sender's slot is counted too late.
Ordered == INSTANCE OrderedDelivery WITH
  Receivers <- Nodes \X Nodes,
  Payload <- Message,
  sent <- sent,
  got <- got,
  broken <- [nm \in Nodes \X Nodes |-> nm \in skewed]
ImplementsOrderedDelivery == Ordered!Spec
=============================================================================
