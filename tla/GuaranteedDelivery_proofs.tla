----------------------- MODULE GuaranteedDelivery_proofs -----------------------
(***************************************************************************)
(* Theorems about GuaranteedDelivery, for any number of players, senders   *)
(* and messages: the state keeps its types, the counts of sender and       *)
(* receiver stay in step, between every two players the messages are an    *)
(* ordered delivery, no destination of a message is forgotten, and nobody  *)
(* is counted as having received what he has not.                          *)
(*                                                                         *)
(* The inductive invariant is the conjunction of Meeting (who has met      *)
(* whom), Sending (headers and packets carry what was sent), Storing (so   *)
(* do stored messages), Calling (each thread is in one call at a time),    *)
(* Quiet (strangers have nothing of each other) and Counting (the counts   *)
(* and the message being handed over); Telling and Answering are added for *)
(* the last two theorems.                                                  *)
(***************************************************************************)
EXTENDS GuaranteedDelivery, SequenceTheorems, FiniteSetTheorems, LeastElement_proofs

-----------------------------------------------------------------------------
(* Facts about the operators. *)

LEMMA NodesFinite == IsFiniteSet(Nodes) /\ Host \in Nodes
  BY PlayersAssumption, FS_AddElement DEF Nodes

\* What is left of a list after one of its elements is removed.
LEMMA Removed ==
  ASSUME NEW S, NEW q \in Seq(S), NEW k \in DOMAIN q
  PROVE  /\ RemoveAt(q, k) \in Seq(S)
         /\ Len(RemoveAt(q, k)) = Len(q) - 1
         /\ \A j \in 1..Len(q) - 1 :
              RemoveAt(q, k)[j] = IF j < k THEN q[j] ELSE q[j + 1]
<1>1. Len(q) \in Nat /\ k \in 1..Len(q) /\ \A j \in 1..Len(q) : q[j] \in S
  BY LenProperties, ElementOfSeq
<1>2. PICK n : n = Len(q)
  OBVIOUS
<1>3. PICK a : a = SubSeq(q, 1, k - 1)
  OBVIOUS
<1>4. PICK b : b = SubSeq(q, k + 1, n)
  OBVIOUS
<1>5. n \in Nat /\ k \in 1..n /\ \A j \in 1..n : q[j] \in S
  BY <1>1, <1>2
<1>6. a \in Seq(S) /\ Len(a) = k - 1 /\ \A j \in 1..k - 1 : a[j] = q[j]
  <2>1. /\ SubSeq(q, 1, k - 1) \in Seq(S)
        /\ Len(SubSeq(q, 1, k - 1)) = IF 1 <= k - 1 THEN (k - 1) - 1 + 1 ELSE 0
        /\ \A j \in 1..(k - 1) - 1 + 1 : SubSeq(q, 1, k - 1)[j] = q[1 + j - 1]
    <3>1. \A j \in 1..k - 1 : q[j] \in S
      BY <1>5
    <3>2. 1 \in Int /\ k - 1 \in Int
      BY <1>5
    <3> QED
      BY <3>1, <3>2, SubSeqProperties
  <2>2. (k - 1) - 1 + 1 = k - 1 /\ \A j \in 1..k - 1 : 1 + j - 1 = j
    BY <1>5
  <2>3. 1 <= k - 1 \/ k - 1 = 0
    BY <1>5
  <2> QED
    BY <1>3, <2>1, <2>2, <2>3
<1>7. b \in Seq(S) /\ Len(b) = n - k /\ \A j \in 1..n - k : b[j] = q[k + j]
  <2>1. /\ SubSeq(q, k + 1, n) \in Seq(S)
        /\ Len(SubSeq(q, k + 1, n)) = IF k + 1 <= n THEN n - (k + 1) + 1 ELSE 0
        /\ \A j \in 1..n - (k + 1) + 1 : SubSeq(q, k + 1, n)[j] = q[k + 1 + j - 1]
    <3>1. \A j \in k + 1..n : q[j] \in S
      BY <1>5
    <3>2. k + 1 \in Int /\ n \in Int
      BY <1>5
    <3> QED
      BY <3>1, <3>2, SubSeqProperties
  <2>2. n - (k + 1) + 1 = n - k /\ \A j \in 1..n - k : k + 1 + j - 1 = k + j
    BY <1>5
  <2>3. k + 1 <= n \/ n - k = 0
    BY <1>5
  <2> QED
    BY <1>4, <2>1, <2>2, <2>3
<1>8. /\ a \o b \in Seq(S) /\ Len(a \o b) = n - 1
      /\ \A j \in 1..n - 1 : (a \o b)[j] = IF j <= k - 1 THEN a[j] ELSE b[j - (k - 1)]
  <2>1. /\ a \o b \in Seq(S) /\ Len(a \o b) = Len(a) + Len(b)
        /\ \A j \in 1..Len(a) + Len(b) :
             (a \o b)[j] = IF j <= Len(a) THEN a[j] ELSE b[j - Len(a)]
    BY <1>6, <1>7, ConcatProperties
  <2>2. Len(a) + Len(b) = n - 1
    BY <1>5, <1>6, <1>7
  <2> QED
    BY <1>6, <2>1, <2>2
<1>9. ASSUME NEW j \in 1..n - 1 PROVE (a \o b)[j] = IF j < k THEN q[j] ELSE q[j + 1]
  <2>1. CASE j < k
    BY <1>5, <1>6, <1>8, <2>1
  <2>2. CASE ~(j < k)
    <3>1. j - (k - 1) \in 1..n - k /\ k + (j - (k - 1)) = j + 1 /\ ~(j <= k - 1)
      BY <1>5, <2>2
    <3>2. b[j - (k - 1)] = q[j + 1]
      BY <1>7, <3>1
    <3> QED
      BY <1>8, <2>2, <3>1, <3>2
  <2> QED
    BY <2>1, <2>2
<1>10. RemoveAt(q, k) = a \o b
  BY <1>2, <1>3, <1>4 DEF RemoveAt
<1> QED
  BY <1>2, <1>8, <1>9, <1>10

LEMMA RestartedIs ==
  ASSUME NEW counts \in [Nodes -> [Slots -> Nat]], NEW n \in Nodes, NEW m \in Nodes
  PROVE  /\ Restarted(counts, n, m) \in [Nodes -> [Slots -> Nat]]
         /\ \A x \in Nodes : \A s \in Slots :
              Restarted(counts, n, m)[x][s] = IF x = n /\ s = Slot[m] THEN 0 ELSE counts[x][s]
<1>1. Slot[m] \in Slots
  BY DEF Slots
<1> QED
  BY <1>1 DEF Restarted

LEMMA OneUp ==
  ASSUME NEW counts \in [Nodes -> [Slots -> Nat]], NEW n \in Nodes, NEW s \in Slots
  PROVE  /\ [counts EXCEPT ![n][s] = @ + 1] \in [Nodes -> [Slots -> Nat]]
         /\ \A x \in Nodes : \A t \in Slots :
              [counts EXCEPT ![n][s] = @ + 1][x][t] =
                IF x = n /\ t = s THEN counts[x][t] + 1 ELSE counts[x][t]
<1>1. PICK row : row = [counts[n] EXCEPT ![s] = @ + 1]
  OBVIOUS
<1>2. row \in [Slots -> Nat] /\ row[s] = counts[n][s] + 1
      /\ \A t \in Slots \ {s} : row[t] = counts[n][t]
  BY <1>1
<1>3. [counts EXCEPT ![n][s] = @ + 1] = [counts EXCEPT ![n] = row]
  BY <1>1
<1> QED
  BY <1>2, <1>3

LEMMA ViaNode == \A n, to \in Nodes : Via(n, to) \in Nodes
  BY NodesFinite DEF Via

\* A pass changes of a header what it counts, and takes packets away.
LEMMA GoneIs ==
  ASSUME NEW n, NEW h \in Header
  PROVE  /\ Gone(n, h) \in Header
         /\ Gone(n, h).g = h.g /\ Gone(n, h).size = h.size /\ Gone(n, h).num = h.num
         /\ Gone(n, h).done = h.done
         /\ Gone(n, h).packets = h.packets \ Lost(n, h)
         /\ Gone(n, h).failed = IF Lost(n, h) = {} THEN h.failed ELSE h.failed + 1
<1>1. CASE Lost(n, h) = {}
  BY <1>1 DEF Gone
<1>2. CASE Lost(n, h) # {}
  <2>1. Gone(n, h) = [h EXCEPT !.failed = @ + 1, !.packets = @ \ Lost(n, h)]
    BY <1>2 DEF Gone
  <2>2. /\ h.failed + 1 \in Nat /\ h.packets \ Lost(n, h) \in SUBSET Outgoing
        /\ h.g \in Numbers /\ h.size \in Sizes /\ h.num \in Nat /\ h.done \in Nat
    BY DEF Header
  <2>3. Gone(n, h) = [g |-> h.g, size |-> h.size, num |-> h.num, done |-> h.done,
                      failed |-> h.failed + 1, packets |-> h.packets \ Lost(n, h)]
    BY <2>1 DEF Header
  <2>4. Gone(n, h) \in Header
    BY <2>2, <2>3 DEF Header
  <2> QED
    BY <1>2, <2>3, <2>4
<1> QED
  BY <1>1, <1>2

Merging(h, x, a) == x.have \cup (a.blocks \cap 0..h.size - 1)

LEMMA MergedIs ==
  ASSUME NEW h \in Header, NEW x \in h.packets, NEW a \in Progress
  PROVE  /\ Merged(h, x, a) \in Header
         /\ Merged(h, x, a).g = h.g /\ Merged(h, x, a).size = h.size
         /\ Merged(h, x, a).num = h.num /\ Merged(h, x, a).failed = h.failed
         /\ \/ /\ Cardinality(Merging(h, x, a)) >= h.size
               /\ Merged(h, x, a).done = h.done + 1
               /\ Merged(h, x, a).packets = h.packets \ {x}
            \/ /\ ~(Cardinality(Merging(h, x, a)) >= h.size)
               /\ Merged(h, x, a).done = h.done
               /\ Merged(h, x, a).packets =
                    (h.packets \ {x}) \cup {[to |-> x.to, i |-> x.i, have |-> Merging(h, x, a)]}
<1>1. x \in Outgoing /\ Merging(h, x, a) \in SUBSET Blocks
  BY DEF Header, Outgoing, Progress, Merging
<1>2. [x EXCEPT !.have = Merging(h, x, a)] = [to |-> x.to, i |-> x.i, have |-> Merging(h, x, a)]
  BY <1>1 DEF Outgoing
<1>3. [to |-> x.to, i |-> x.i, have |-> Merging(h, x, a)] \in Outgoing
  BY <1>1 DEF Outgoing
<1>4. CASE Cardinality(Merging(h, x, a)) >= h.size
  <2>1. Merged(h, x, a) = [h EXCEPT !.packets = @ \ {x}, !.done = @ + 1]
    BY <1>4 DEF Merged, Merging
  <2>2. /\ h.done + 1 \in Nat /\ h.packets \ {x} \in SUBSET Outgoing
        /\ h.g \in Numbers /\ h.size \in Sizes /\ h.num \in Nat /\ h.failed \in Nat
    BY DEF Header
  <2>3. Merged(h, x, a) = [g |-> h.g, size |-> h.size, num |-> h.num, done |-> h.done + 1,
                           failed |-> h.failed, packets |-> h.packets \ {x}]
    BY <2>1 DEF Header
  <2>4. Merged(h, x, a) \in Header
    BY <2>2, <2>3 DEF Header
  <2> QED
    BY <1>4, <2>3, <2>4
<1>5. CASE ~(Cardinality(Merging(h, x, a)) >= h.size)
  <2>1. Merged(h, x, a) = [h EXCEPT !.packets =
          (@ \ {x}) \cup {[to |-> x.to, i |-> x.i, have |-> Merging(h, x, a)]}]
    BY <1>2, <1>5 DEF Merged, Merging
  <2> QED
    BY <1>3, <1>5, <2>1 DEF Header
<1> QED
  BY <1>4, <1>5

-----------------------------------------------------------------------------
(* Types. *)

LEMMA NodeFacts == Clients \subseteq Nodes /\ Newcomers \subseteq Clients /\ Senders \subseteq Nodes
  BY PlayersAssumption, SendersAssumption DEF Nodes

LEMMA TypeInit == Init => TypeOK
  BY NodeFacts DEF Init, TypeOK

LEMMA JoinType ==
  ASSUME TypeOK, NEW c \in Clients, Join(c)
  PROVE  TypeOK'
<1>1. c \in Nodes /\ Host \in Nodes
  BY NodesFinite, NodeFacts
<1>2. /\ Restarted(sendCount, Host, c) \in [Nodes -> [Slots -> Nat]]
      /\ Restarted(recvCount, Host, c) \in [Nodes -> [Slots -> Nat]]
  BY <1>1, RestartedIs DEF TypeOK
<1>3. /\ waiting' \subseteq Newcomers /\ knows' \in [Nodes -> SUBSET Nodes]
      /\ told' \in [Nodes -> SUBSET Nodes]
      /\ sendCount' \in [Nodes -> [Slots -> Nat]] /\ recvCount' \in [Nodes -> [Slots -> Nat]]
      /\ wakes' \subseteq Nodes
  BY <1>1, <1>2 DEF Join, TypeOK
<1>4. UNCHANGED <<scheduled, headers, received, handing, calls, corrupt, data, progress, sent, got,
                  skewed, held, reports>>
  BY DEF Join, network, history
<1> QED
  BY <1>3, <1>4 DEF TypeOK

LEMMA LearnType ==
  ASSUME TypeOK, NEW n \in Nodes, NEW m \in Nodes, Learn(n, m)
  PROVE  TypeOK'
<1>1. /\ Restarted(sendCount, n, m) \in [Nodes -> [Slots -> Nat]]
      /\ Restarted(recvCount, n, m) \in [Nodes -> [Slots -> Nat]]
  BY RestartedIs DEF TypeOK
<1>2. /\ knows' \in [Nodes -> SUBSET Nodes] /\ told' \in [Nodes -> SUBSET Nodes]
      /\ sendCount' \in [Nodes -> [Slots -> Nat]] /\ recvCount' \in [Nodes -> [Slots -> Nat]]
  BY <1>1 DEF Learn, TypeOK
<1>3. UNCHANGED <<waiting, scheduled, headers, received, handing, calls, wakes, corrupt, data,
                  progress, sent, got, skewed, held, reports>>
  BY DEF Learn, threads, network, history
<1> QED
  BY <1>2, <1>3 DEF TypeOK

LEMMA ClearType ==
  ASSUME TypeOK, NEW n \in Nodes, NEW m \in Nodes, Clear(n, m)
  PROVE  /\ knows' \in [Nodes -> SUBSET Nodes]
         /\ sendCount' \in [Nodes -> [Slots -> Nat]] /\ recvCount' \in [Nodes -> [Slots -> Nat]]
<1>1. /\ Restarted(sendCount, n, m) \in [Nodes -> [Slots -> Nat]]
      /\ Restarted(recvCount, n, m) \in [Nodes -> [Slots -> Nat]]
  BY RestartedIs DEF TypeOK
<1> QED
  BY <1>1 DEF Clear, TypeOK

LEMMA HostRemovesType ==
  ASSUME TypeOK, NEW c \in Clients, HostRemoves(c)
  PROVE  TypeOK'
<1>1. c \in Nodes /\ Host \in Nodes /\ Clear(Host, c)
  BY NodesFinite, NodeFacts DEF HostRemoves
<1>2. /\ UNCHANGED <<waiting, told, scheduled, headers, received, handing, calls, corrupt, data,
                     progress, sent, got, skewed, held, reports>>
      /\ wakes' \subseteq Nodes
  BY <1>1 DEF HostRemoves, network, history, TypeOK
<1> QED
  BY <1>1, <1>2, ClearType DEF TypeOK

LEMMA ForgetType ==
  ASSUME TypeOK, NEW n \in Nodes, NEW m \in Nodes, Forget(n, m)
  PROVE  TypeOK'
<1>1. Clear(n, m)
  BY DEF Forget
<1>2. UNCHANGED <<waiting, told, scheduled, headers, received, handing, calls, wakes, corrupt, data,
                  progress, sent, got, skewed, held, reports>>
  BY DEF Forget, threads, network, history
<1> QED
  BY <1>1, <1>2, ClearType DEF TypeOK

LEMMA EndSessionType ==
  ASSUME TypeOK, NEW c \in Clients, EndSession(c)
  PROVE  TypeOK'
<1>1. << >> \in Seq(Header) /\ << >> \in Seq(Received)
  BY EmptySeq
<1>2. /\ knows' \in [Nodes -> SUBSET Nodes] /\ told' \in [Nodes -> SUBSET Nodes]
      /\ headers' \in [Nodes -> Seq(Header)] /\ received' \in [Nodes -> Seq(Received)]
  BY <1>1 DEF EndSession, TypeOK
<1>3. UNCHANGED <<waiting, scheduled, sendCount, recvCount, handing, calls, wakes, corrupt, data,
                  progress, sent, got, skewed, held, reports>>
  BY DEF EndSession, threads, network, history
<1> QED
  BY <1>2, <1>3 DEF TypeOK

LEMMA NewHeaderType ==
  ASSUME TypeOK, NEW n \in Nodes, scheduled[n] < MaxSends, NEW to \in SUBSET Nodes, NEW size \in Sizes
  PROVE  /\ NewHeader(n, to, size) \in Header
         /\ [g |-> scheduled[n], size |-> size] \in Message
<1>1. scheduled[n] \in Numbers
  BY MaxSendsAssumption DEF TypeOK, Numbers
<1>2. Cardinality(to) \in Nat
  BY NodesFinite, FS_Subset, FS_CardinalityType
<1>3. ASSUME NEW m \in to PROVE [to |-> m, i |-> sendCount[n][Slot[m]], have |-> {}] \in Outgoing
  <2>1. sendCount[n][Slot[m]] \in Nat
    <3>1. m \in Nodes
      OBVIOUS
    <3>2. Slot[m] \in Slots
      BY <3>1 DEF Slots
    <3> QED
      BY <3>1, <3>2 DEF TypeOK
  <2> QED
    BY <2>1 DEF Outgoing
<1> QED
  BY <1>1, <1>2, <1>3 DEF NewHeader, Header, Message

\* Whoever n sends to is another player it knows.
LEMMA Destinations ==
  ASSUME TypeOK, NEW n \in Nodes,
         NEW to \in {{m} : m \in knows[n] \ {n}} \cup {knows[n] \ {n}}
  PROVE  to \in SUBSET Nodes /\ to \subseteq knows[n] /\ n \notin to
<1>1. knows[n] \subseteq Nodes
  BY DEF TypeOK
<1>2. CASE to = knows[n] \ {n}
  BY <1>1, <1>2
<1>3. CASE \E m \in knows[n] \ {n} : to = {m}
  BY <1>1, <1>3
<1> QED
  BY <1>2, <1>3

LEMMA SendDataType ==
  ASSUME TypeOK, NEW n \in Nodes, SendData(n)
  PROVE  TypeOK'
<1>1. PICK to \in SUBSET Nodes, size \in Sizes : SendTo(n, to, size)
  BY Destinations DEF SendData
<1>2. NewHeader(n, to, size) \in Header /\ [g |-> scheduled[n], size |-> size] \in Message
  BY NewHeaderType DEF SendData
<1>3. headers' \in [Nodes -> Seq(Header)]
  BY <1>1, <1>2, AppendProperties DEF SendTo, TypeOK
<1>4. sent' \in [Nodes \X Nodes -> Seq(Message)]
  BY <1>1, <1>2, AppendProperties DEF SendTo, TypeOK
<1>5. Counted(n, to) \in [Slots -> Nat]
  BY DEF Counted, TypeOK
<1>6. /\ sendCount' \in [Nodes -> [Slots -> Nat]] /\ scheduled' \in [Nodes -> Nat]
      /\ wakes' \subseteq Nodes
  BY <1>1, <1>5 DEF SendData, SendTo, TypeOK
<1>7. UNCHANGED <<waiting, knows, told, recvCount, received, handing, calls, corrupt, data, progress,
                  got, skewed, held, reports>>
  BY DEF SendData, members, network
<1> QED
  BY <1>3, <1>4, <1>6, <1>7 DEF TypeOK

\* The list of headers after a pass has come to the reached ones.
PassedList(n) ==
  [k \in DOMAIN headers[n] |->
     IF k \in Reached(n) THEN Gone(n, headers[n][k]) ELSE headers[n][k]]

\* The reached header for which nothing is waited for any more.
Over(n) ==
  {k \in Reached(n) : Lost(n, headers[n][k]) # {} /\ Ended(PassedList(n)[k])}

LEMMA PassIs ==
  ASSUME NEW n, NEW out, Pass(n, out)
  PROVE  /\ n \in wakes /\ n \notin corrupt /\ ~InGame(n, "deliver") /\ knows[n] # {}
         /\ data' = data \cup out
         /\ headers' = [headers EXCEPT ![n] = PassedList(n)]
         /\ reports' = reports \cup {ReportOf(n, 3, PassedList(n)[k]) : k \in Over(n)}
         /\ calls' = calls \cup
              {[by |-> n, thread |-> "deliver", from |-> n, g |-> PassedList(n)[k].g] : k \in Over(n)}
         /\ wakes' \subseteq wakes
         /\ UNCHANGED <<waiting, knows, told, scheduled, sendCount, recvCount, received, handing,
                        corrupt, progress, sent, got, skewed, held>>
BY DEF Pass, PassedList, Over, members

\* Every entry of the list is the header it was, or the same after a pass.
LEMMA PassedListIs ==
  ASSUME TypeOK, NEW n \in Nodes
  PROVE  /\ PassedList(n) \in Seq(Header)
         /\ DOMAIN PassedList(n) = DOMAIN headers[n]
         /\ \A k \in DOMAIN headers[n] :
              /\ headers[n][k] \in Header /\ PassedList(n)[k] \in Header
              /\ PassedList(n)[k] = headers[n][k] \/ PassedList(n)[k] = Gone(n, headers[n][k])
<1>1. /\ headers[n] \in Seq(Header) /\ Len(headers[n]) \in Nat
      /\ DOMAIN headers[n] = 1..Len(headers[n])
  BY LenProperties DEF TypeOK
<1>2. ASSUME NEW k \in DOMAIN headers[n]
      PROVE  /\ headers[n][k] \in Header /\ PassedList(n)[k] \in Header
             /\ PassedList(n)[k] = headers[n][k] \/ PassedList(n)[k] = Gone(n, headers[n][k])
  <2>1. headers[n][k] \in Header
    BY <1>1, ElementOfSeq
  <2>2. Gone(n, headers[n][k]) \in Header
    BY <2>1, GoneIs
  <2> QED
    BY <2>1, <2>2 DEF PassedList
<1>3. PassedList(n) \in [1..Len(headers[n]) -> Header]
  BY <1>1, <1>2 DEF PassedList
<1>4. \A j \in Nat : \A f \in [1..j -> Header] : f \in Seq(Header)
  OBVIOUS
<1>5. PassedList(n) \in Seq(Header)
  BY <1>1, <1>3, <1>4
<1> QED
  BY <1>1, <1>2, <1>3, <1>5

LEMMA OutboundType ==
  ASSUME TypeOK, NEW n \in Nodes, NEW h \in Header
  PROVE  Outbound(n, h) \subseteq Data
<1>1. ASSUME NEW x \in Visited(n, h), NEW b \in 0..h.size - 1
      PROVE  [at |-> Via(n, x.to), from |-> n, to |-> x.to, g |-> h.g, i |-> x.i,
              size |-> h.size, block |-> BlockNumber(b)] \in Data
  <2>1. x \in Outgoing
    BY DEF Visited, Header
  <2>2. x.to \in Nodes /\ x.i \in Nat /\ Via(n, x.to) \in Nodes
    BY <2>1, ViaNode DEF Outgoing
  <2>3. BlockNumber(b) \in Blocks
    BY DEF BlockNumber, Blocks
  <2> QED
    BY <2>2, <2>3 DEF Data, Header
<1> QED
  BY <1>1 DEF Outbound

LEMMA PassType ==
  ASSUME TypeOK, NEW n \in Nodes, NEW out, out \subseteq AllOutbound(n), Pass(n, out)
  PROVE  TypeOK'
<1>1. out \subseteq Data
  BY OutboundType, PassedListIs DEF AllOutbound, Reached
<1>2. /\ data' = data \cup out
      /\ headers' = [headers EXCEPT ![n] = PassedList(n)]
      /\ reports' = reports \cup {ReportOf(n, 3, PassedList(n)[k]) : k \in Over(n)}
      /\ calls' = calls \cup
           {[by |-> n, thread |-> "deliver", from |-> n, g |-> PassedList(n)[k].g] : k \in Over(n)}
      /\ wakes' \subseteq wakes
  BY PassIs
<1>3. PassedList(n) \in Seq(Header)
  BY PassedListIs
<1>4. ASSUME NEW k \in Over(n)
      PROVE  /\ ReportOf(n, 3, PassedList(n)[k]) \in Report
             /\ [by |-> n, thread |-> "deliver", from |-> n, g |-> PassedList(n)[k].g] \in Call
  <2>1. PassedList(n)[k] \in Header
    BY PassedListIs DEF Over, Reached
  <2> QED
    BY <2>1 DEF ReportOf, Report, Call, Header
<1>5. headers' \in [Nodes -> Seq(Header)]
  BY <1>2, <1>3 DEF TypeOK
<1>6. reports' \subseteq Report /\ calls' \subseteq Call
  BY <1>2, <1>4 DEF TypeOK
<1>7. data' \subseteq Data /\ wakes' \subseteq Nodes
  BY <1>1, <1>2 DEF TypeOK
<1>8. UNCHANGED <<waiting, knows, told, scheduled, sendCount, recvCount, received, handing,
                  corrupt, progress, sent, got, skewed, held>>
  BY PassIs
<1> QED
  BY <1>5, <1>6, <1>7, <1>8 DEF TypeOK

\* One header leaves the list of c.by, or the memory of the node is corrupt.
LEMMA ToldIs ==
  ASSUME TypeOK, NEW c \in calls, Told(c)
  PROVE  /\ c \in Call /\ c.from = c.by /\ c.by \notin corrupt
         /\ calls' = calls \ {c}
         /\ \/ /\ \A k \in DOMAIN headers[c.by] : headers[c.by][k].g # c.g
               /\ corrupt' = corrupt \cup {c.by} /\ headers' = headers
            \/ /\ corrupt' = corrupt
               /\ \E k \in DOMAIN headers[c.by] :
                    /\ headers[c.by][k].g = c.g
                    /\ headers' = [headers EXCEPT ![c.by] = RemoveAt(@, k)]
         /\ UNCHANGED <<waiting, knows, told, scheduled, sendCount, recvCount, received, handing,
                        wakes, data, progress, sent, got, skewed, held, reports>>
BY DEF Told, TypeOK, members, network, history

LEMMA ToldType ==
  ASSUME TypeOK, NEW c \in calls, Told(c)
  PROVE  TypeOK'
<1>1. c \in Call /\ c.by \in Nodes /\ headers[c.by] \in Seq(Header)
  BY ToldIs DEF Call, TypeOK
<1>2. headers' \in [Nodes -> Seq(Header)] /\ corrupt' \subseteq Nodes
  <2>1. CASE corrupt' = corrupt \cup {c.by} /\ headers' = headers
    BY <1>1, <2>1 DEF TypeOK
  <2>2. ASSUME corrupt' = corrupt, NEW k \in DOMAIN headers[c.by],
               headers' = [headers EXCEPT ![c.by] = RemoveAt(@, k)]
        PROVE  headers' \in [Nodes -> Seq(Header)] /\ corrupt' \subseteq Nodes
    <3>1. RemoveAt(headers[c.by], k) \in Seq(Header)
      BY <1>1, Removed
    <3> QED
      BY <1>1, <2>2, <3>1 DEF TypeOK
  <2> QED
    BY <2>1, <2>2, ToldIs
<1>3. calls' = calls \ {c}
  BY ToldIs
<1>4. UNCHANGED <<waiting, knows, told, scheduled, sendCount, recvCount, received, handing,
                  wakes, data, progress, sent, got, skewed, held, reports>>
  BY ToldIs
<1> QED
  BY <1>2, <1>3, <1>4 DEF TypeOK

LEMMA AnswerType ==
  ASSUME NEW n \in Nodes, NEW d \in Data, NEW blocks \in SUBSET Blocks
  PROVE  Answer(n, d, blocks) \in Progress
<1>1. d.from \in Nodes /\ d.g \in Numbers /\ d.i \in Nat
  BY DEF Data
<1> QED
  BY <1>1, ViaNode DEF Answer, Progress

LEMMA StoreType ==
  ASSUME TypeOK, NEW n \in Nodes, NEW d \in Data, Store(n, d)
  PROVE  received' \in [Nodes -> Seq(Received)] /\ progress' \subseteq Progress
<1>1. Blocks \in SUBSET Blocks /\ {0} \in SUBSET Blocks /\ d.block \in Blocks
  BY DEF Data, Blocks
<1>2. CASE progress' = progress \cup {Answer(n, d, Blocks)} /\ UNCHANGED received
  BY <1>1, <1>2, AnswerType DEF TypeOK
<1>3. ASSUME NEW k \in Stored(n, d),
             progress' = progress \cup {Answer(n, d, received[n][k].blocks \cup {d.block})},
             received' = [received EXCEPT ![n][k].blocks = @ \cup {d.block}]
      PROVE  received' \in [Nodes -> Seq(Received)] /\ progress' \subseteq Progress
  <2>1. received[n] \in Seq(Received) /\ k \in DOMAIN received[n]
    BY DEF TypeOK, Stored
  <2>2. received[n][k] \in Received
    BY <2>1, ElementOfSeq
  <2>3. received[n][k].blocks \cup {d.block} \in SUBSET Blocks
    BY <1>1, <2>2 DEF Received
  <2>4. [received[n][k] EXCEPT !.blocks = @ \cup {d.block}] \in Received
    BY <2>2, <2>3 DEF Received
  <2>5. [received[n] EXCEPT ![k].blocks = @ \cup {d.block}] \in Seq(Received)
    <3>1. PICK x : x = [received[n][k] EXCEPT !.blocks = @ \cup {d.block}]
      OBVIOUS
    <3>2. [received[n] EXCEPT ![k].blocks = @ \cup {d.block}] = [received[n] EXCEPT ![k] = x]
      BY <3>1
    <3>3. x \in Received
      BY <2>4, <3>1
    <3>4. [received[n] EXCEPT ![k] = x] \in Seq(Received)
      BY <2>1, <3>3, ExceptSeq
    <3> QED
      BY <3>2, <3>4
  <2>6. received' = [received EXCEPT ![n] = [received[n] EXCEPT ![k].blocks = @ \cup {d.block}]]
    BY <1>3
  <2>7. received' \in [Nodes -> Seq(Received)]
    BY <2>5, <2>6 DEF TypeOK
  <2> QED
    BY <1>3, <2>3, <2>7, AnswerType DEF TypeOK
<1>4. CASE /\ received' = [received EXCEPT ![n] = Append(@,
                [from |-> d.from, g |-> d.g, i |-> d.i, size |-> d.size, blocks |-> {0}])]
           /\ progress' = progress \cup {Answer(n, d, {0})}
  <2>1. [from |-> d.from, g |-> d.g, i |-> d.i, size |-> d.size, blocks |-> {0}] \in Received
    BY <1>1 DEF Received, Data
  <2>2. received' \in [Nodes -> Seq(Received)]
    BY <1>4, <2>1, AppendProperties DEF TypeOK
  <2> QED
    BY <1>1, <1>4, <2>2, AnswerType DEF TypeOK
<1> QED
  BY <1>2, <1>3, <1>4 DEF Store

LEMMA ReceiveDataType ==
  ASSUME TypeOK, NEW n \in Nodes, NEW d \in data, ReceiveData(n, d)
  PROVE  TypeOK'
<1>1. d \in Data
  BY DEF TypeOK
<1>2. UNCHANGED <<waiting, knows, told, scheduled, sendCount, recvCount, headers, calls, wakes,
                  corrupt, sent, got, skewed, reports>>
  BY DEF ReceiveData, members
<1>3. ASSUME d.to # n
      PROVE  /\ data' \subseteq Data
             /\ UNCHANGED <<received, handing, progress, held>>
  <2>1. d.to \in Nodes
    BY <1>1 DEF Data
  <2>2. Via(n, d.to) \in Nodes
    BY <2>1, ViaNode
  <2>3. [d EXCEPT !.at = Via(n, d.to)] \in Data
    BY <1>1, <2>2 DEF Data
  <2> QED
    BY <1>3, <2>3 DEF ReceiveData, TypeOK
<1>4. ASSUME d.to = n
      PROVE  /\ received' \in [Nodes -> Seq(Received)] /\ progress' \subseteq Progress
             /\ handing' \subseteq Nodes /\ held' \subseteq Nodes \X Nodes \X Numbers
             /\ data' = data
  <2>1. /\ Store(n, d)
        /\ handing' = IF Ready(n, received'[n]) # {} THEN handing \cup {n} ELSE handing
        /\ held' = held \cup {<<x.from, n, x.g>> : x \in {y \in ToSet(received'[n]) : Complete(y)}}
        /\ data' = data
    BY <1>4 DEF ReceiveData
  <2>2. received' \in [Nodes -> Seq(Received)] /\ progress' \subseteq Progress
    BY <1>1, <2>1, StoreType
  <2>3. ToSet(received'[n]) \subseteq Received
    BY <2>2, ElementOfSeq DEF ToSet
  <2>4. \A x \in Received : x.from \in Nodes /\ x.g \in Numbers
    BY DEF Received
  <2>5. held' \subseteq Nodes \X Nodes \X Numbers
    BY <2>1, <2>3, <2>4 DEF TypeOK
  <2> QED
    BY <2>1, <2>2, <2>5 DEF TypeOK
<1> QED
  BY <1>2, <1>3, <1>4 DEF TypeOK

\* The first of the ready messages, which is handed over.
First(n) == received[n][Min(Ready(n, received[n]))]

LEMMA FirstReady ==
  ASSUME TypeOK, NEW n \in Nodes, Ready(n, received[n]) # {}
  PROVE  /\ Min(Ready(n, received[n])) \in Ready(n, received[n])
         /\ First(n) \in Received
         /\ First(n) \in ToSet(received[n])
<1>1. received[n] \in Seq(Received) /\ DOMAIN received[n] \subseteq Nat
  BY LenProperties DEF TypeOK
<1>2. Ready(n, received[n]) \in SUBSET Nat
  BY <1>1 DEF Ready
<1>3. \E k \in Ready(n, received[n]) : \A j \in Ready(n, received[n]) : k <= j
  BY <1>2, LeastElement
<1>4. Min(Ready(n, received[n])) \in Ready(n, received[n])
  BY <1>3 DEF Min
<1>5. Min(Ready(n, received[n])) \in DOMAIN received[n]
  BY <1>4 DEF Ready
<1> QED
  BY <1>1, <1>4, <1>5, ElementOfSeq DEF First, ToSet

LEMMA HandOverIs ==
  ASSUME NEW n, HandOver(n)
  PROVE  /\ n \in handing /\ n \notin corrupt /\ ~InGame(n, "listen")
         /\ UNCHANGED <<waiting, knows, told, scheduled, sendCount, recvCount, headers, received, wakes,
                        corrupt, data, progress, sent, skewed, held, reports>>
         /\ \/ handing' = handing \ {n} /\ calls' = calls /\ got' = got
            \/ /\ Ready(n, received[n]) # {}
               /\ got' = [got EXCEPT ![<<First(n).from, n>>] =
                            Append(@, [g |-> First(n).g, size |-> First(n).size])]
               /\ calls' = calls \cup
                    {[by |-> n, thread |-> "listen", from |-> First(n).from, g |-> First(n).g]}
               /\ handing' = handing
BY DEF HandOver, First, members, network

LEMMA HandOverType ==
  ASSUME TypeOK, NEW n \in Nodes, HandOver(n)
  PROVE  TypeOK'
<1>1. /\ UNCHANGED <<waiting, knows, told, scheduled, sendCount, recvCount, headers, received, wakes,
                     corrupt, data, progress, sent, skewed, held, reports>>
      /\ handing' \subseteq Nodes
  BY HandOverIs DEF TypeOK
<1>2. got' \in [Nodes \X Nodes -> Seq(Message)] /\ calls' \subseteq Call
  <2>1. CASE calls' = calls /\ got' = got
    BY <2>1 DEF TypeOK
  <2>2. ASSUME Ready(n, received[n]) # {},
               got' = [got EXCEPT ![<<First(n).from, n>>] =
                         Append(@, [g |-> First(n).g, size |-> First(n).size])],
               calls' = calls \cup
                 {[by |-> n, thread |-> "listen", from |-> First(n).from, g |-> First(n).g]}
        PROVE  got' \in [Nodes \X Nodes -> Seq(Message)] /\ calls' \subseteq Call
    <3>1. First(n) \in Received
      BY <2>2, FirstReady
    <3>2. /\ First(n).from \in Nodes
          /\ [g |-> First(n).g, size |-> First(n).size] \in Message
          /\ [by |-> n, thread |-> "listen", from |-> First(n).from, g |-> First(n).g] \in Call
      BY <3>1 DEF Received, Message, Call
    <3>3. got[<<First(n).from, n>>] \in Seq(Message)
      BY <3>2 DEF TypeOK
    <3>4. Append(got[<<First(n).from, n>>], [g |-> First(n).g, size |-> First(n).size]) \in Seq(Message)
      BY <3>2, <3>3, AppendProperties
    <3> QED
      BY <2>2, <3>2, <3>4 DEF TypeOK
  <2> QED
    BY <2>1, <2>2, HandOverIs
<1> QED
  BY <1>1, <1>2 DEF TypeOK

LEMMA HandedOverIs ==
  ASSUME TypeOK, NEW c \in calls, HandedOver(c)
  PROVE  /\ c \in Call /\ c.from # c.by /\ c.by \notin corrupt
         /\ calls' = calls \ {c}
         /\ UNCHANGED <<waiting, knows, told, scheduled, sendCount, headers, handing, wakes, data,
                        progress, sent, got, held, reports>>
         /\ \/ /\ \A k \in DOMAIN received[c.by] :
                     ~(received[c.by][k].from = c.from /\ received[c.by][k].g = c.g)
               /\ corrupt' = corrupt \cup {c.by}
               /\ UNCHANGED <<received, recvCount, skewed>>
            \/ /\ corrupt' = corrupt
               /\ \E k \in DOMAIN received[c.by] :
                    /\ received[c.by][k].from = c.from /\ received[c.by][k].g = c.g
                    /\ received' = [received EXCEPT ![c.by] = RemoveAt(@, k)]
               /\ recvCount' = [recvCount EXCEPT ![c.by][Slot[c.from]] = @ + 1]
               /\ skewed' = skewed \cup
                    {<<m, c.by>> : m \in {q \in knows[c.by] : q # c.from /\ Slot[q] = Slot[c.from]}}
BY DEF HandedOver, TypeOK, members, network

LEMMA HandedOverType ==
  ASSUME TypeOK, NEW c \in calls, HandedOver(c)
  PROVE  TypeOK'
<1>1. c \in Call /\ c.by \in Nodes /\ c.from \in Nodes /\ received[c.by] \in Seq(Received)
  BY HandedOverIs DEF Call, TypeOK
<1>2. Slot[c.from] \in Slots
  BY <1>1 DEF Slots
<1>3. /\ received' \in [Nodes -> Seq(Received)] /\ corrupt' \subseteq Nodes
      /\ recvCount' \in [Nodes -> [Slots -> Nat]] /\ skewed' \subseteq Nodes \X Nodes
  <2>1. CASE corrupt' = corrupt \cup {c.by} /\ UNCHANGED <<received, recvCount, skewed>>
    BY <1>1, <2>1 DEF TypeOK
  <2>2. ASSUME corrupt' = corrupt, NEW k \in DOMAIN received[c.by],
               received' = [received EXCEPT ![c.by] = RemoveAt(@, k)],
               recvCount' = [recvCount EXCEPT ![c.by][Slot[c.from]] = @ + 1],
               skewed' = skewed \cup
                 {<<m, c.by>> : m \in {q \in knows[c.by] : q # c.from /\ Slot[q] = Slot[c.from]}}
        PROVE  /\ received' \in [Nodes -> Seq(Received)] /\ corrupt' \subseteq Nodes
               /\ recvCount' \in [Nodes -> [Slots -> Nat]] /\ skewed' \subseteq Nodes \X Nodes
    <3>1. RemoveAt(received[c.by], k) \in Seq(Received)
      BY <1>1, Removed
    <3>2. received' \in [Nodes -> Seq(Received)]
      BY <1>1, <2>2, <3>1 DEF TypeOK
    <3>3. recvCount' \in [Nodes -> [Slots -> Nat]]
      <4>1. recvCount \in [Nodes -> [Slots -> Nat]]
        BY DEF TypeOK
      <4> QED
        BY <1>1, <1>2, <2>2, <4>1, OneUp
    <3>4. knows[c.by] \subseteq Nodes
      BY <1>1 DEF TypeOK
    <3>5. skewed' \subseteq Nodes \X Nodes
      <4>1. PICK Q : Q = {q \in knows[c.by] : q # c.from /\ Slot[q] = Slot[c.from]}
        OBVIOUS
      <4>2. Q \subseteq Nodes
        BY <3>4, <4>1
      <4>3. \A m \in Q : <<m, c.by>> \in Nodes \X Nodes
        BY <1>1, <4>2
      <4>4. skewed' = skewed \cup {<<m, c.by>> : m \in Q}
        BY <2>2, <4>1
      <4> QED
        BY <4>3, <4>4 DEF TypeOK
    <3> QED
      BY <2>2, <3>2, <3>3, <3>5 DEF TypeOK
  <2> QED
    BY <2>1, <2>2, HandedOverIs
<1>4. calls' = calls \ {c}
  BY HandedOverIs
<1>5. UNCHANGED <<waiting, knows, told, scheduled, sendCount, headers, handing, wakes, data,
                  progress, sent, got, held, reports>>
  BY HandedOverIs
<1> QED
  BY <1>3, <1>4, <1>5 DEF TypeOK

\* The headers of n when the answer a is for packet x of header k, and the ended ones.
AnsweredList(n, k, x, a) == [headers[n] EXCEPT ![k] = Merged(@, x, a)]
EndedOnes(hs) == {j \in DOMAIN hs : Ended(hs[j])}
FirstEnded(hs) == {j \in EndedOnes(hs) : \A l \in EndedOnes(hs) : j <= l}

LEMMA ReceiveProgressIs ==
  ASSUME NEW n, NEW a, ReceiveProgress(n, a)
  PROVE  /\ a.at = n /\ ListenIdle(n) /\ a.from \in knows[n]
         /\ \/ /\ a.to # n /\ (n = Host => a.to \in knows[Host])
               /\ progress' = progress \cup {[a EXCEPT !.at = Via(n, a.to)]}
               /\ UNCHANGED <<headers, calls, reports>>
            \/ /\ a.to = n /\ progress' = progress
               /\ \E k \in DOMAIN headers[n] : \E x \in headers[n][k].packets :
                    /\ headers[n][k].g = a.g /\ x.to = a.from /\ x.i = a.i
                    /\ headers' = [headers EXCEPT ![n] = AnsweredList(n, k, x, a)]
                    /\ reports' = reports \cup
                         {ReportOf(n, 1, AnsweredList(n, k, x, a)[j]) :
                            j \in FirstEnded(AnsweredList(n, k, x, a))}
                    /\ calls' = calls \cup
                         {[by |-> n, thread |-> "listen", from |-> n, g |-> AnsweredList(n, k, x, a)[j].g] :
                            j \in FirstEnded(AnsweredList(n, k, x, a))}
         /\ UNCHANGED <<waiting, knows, told, scheduled, sendCount, recvCount, received, handing, wakes,
                        corrupt, data, sent, got, skewed, held>>
BY DEF ReceiveProgress, AnsweredList, EndedOnes, FirstEnded, members

LEMMA AnsweredType ==
  ASSUME TypeOK, NEW n \in Nodes, NEW k \in DOMAIN headers[n],
         NEW x \in headers[n][k].packets, NEW a \in Progress
  PROVE  /\ headers[n] \in Seq(Header) /\ headers[n][k] \in Header
         /\ Merged(headers[n][k], x, a) \in Header
         /\ AnsweredList(n, k, x, a) \in Seq(Header)
         /\ DOMAIN AnsweredList(n, k, x, a) = DOMAIN headers[n]
         /\ \A j \in DOMAIN headers[n] :
              /\ AnsweredList(n, k, x, a)[j] \in Header
              /\ AnsweredList(n, k, x, a)[j] =
                   IF j = k THEN Merged(headers[n][k], x, a) ELSE headers[n][j]
<1>1. headers[n] \in Seq(Header)
  BY DEF TypeOK
<1>2. \A j \in DOMAIN headers[n] : headers[n][j] \in Header
  BY <1>1, ElementOfSeq
<1>3. Merged(headers[n][k], x, a) \in Header
  BY <1>2, MergedIs
<1>4. PICK y : y = Merged(headers[n][k], x, a)
  OBVIOUS
<1>5. AnsweredList(n, k, x, a) = [headers[n] EXCEPT ![k] = y]
  BY <1>4 DEF AnsweredList
<1>6. [headers[n] EXCEPT ![k] = y] \in Seq(Header)
  BY <1>1, <1>3, <1>4, ExceptSeq
<1> QED
  BY <1>1, <1>2, <1>3, <1>4, <1>5, <1>6

LEMMA ReceiveProgressType ==
  ASSUME TypeOK, NEW n \in Nodes, NEW a \in progress, ReceiveProgress(n, a)
  PROVE  TypeOK'
<1>1. a \in Progress
  BY DEF TypeOK
<1>2. UNCHANGED <<waiting, knows, told, scheduled, sendCount, recvCount, received, handing, wakes,
                  corrupt, data, sent, got, skewed, held>>
  BY ReceiveProgressIs
<1>3. ASSUME progress' = progress \cup {[a EXCEPT !.at = Via(n, a.to)]},
             UNCHANGED <<headers, calls, reports>>
      PROVE  TypeOK'
  <2>1. a.to \in Nodes
    BY <1>1 DEF Progress
  <2>2. Via(n, a.to) \in Nodes
    BY <2>1, ViaNode
  <2>3. [a EXCEPT !.at = Via(n, a.to)] \in Progress
    BY <1>1, <2>2 DEF Progress
  <2>4. progress' \subseteq Progress
    BY <1>3, <2>3 DEF TypeOK
  <2> QED
    BY <1>2, <1>3, <2>4 DEF TypeOK
<1>4. ASSUME progress' = progress, NEW k \in DOMAIN headers[n], NEW x \in headers[n][k].packets,
             headers' = [headers EXCEPT ![n] = AnsweredList(n, k, x, a)],
             reports' = reports \cup {ReportOf(n, 1, AnsweredList(n, k, x, a)[j]) :
                                        j \in FirstEnded(AnsweredList(n, k, x, a))},
             calls' = calls \cup
               {[by |-> n, thread |-> "listen", from |-> n, g |-> AnsweredList(n, k, x, a)[j].g] :
                  j \in FirstEnded(AnsweredList(n, k, x, a))}
      PROVE  TypeOK'
  <2>1. PICK hs : hs = AnsweredList(n, k, x, a)
    OBVIOUS
  <2>2. hs \in Seq(Header) /\ \A j \in DOMAIN hs : hs[j] \in Header
    BY <1>1, <2>1, AnsweredType
  <2>3. ASSUME NEW j \in FirstEnded(hs)
        PROVE  /\ ReportOf(n, 1, hs[j]) \in Report
               /\ [by |-> n, thread |-> "listen", from |-> n, g |-> hs[j].g] \in Call
    <3>1. hs[j] \in Header
      BY <2>2 DEF FirstEnded, EndedOnes
    <3>2. ReportOf(n, 1, hs[j]) \in Report
      BY <3>1 DEF ReportOf, Report, Header
    <3>3. [by |-> n, thread |-> "listen", from |-> n, g |-> hs[j].g] \in Call
      BY <3>1 DEF Call, Header
    <3> QED
      BY <3>2, <3>3
  <2>4. reports' \subseteq Report
    BY <1>4, <2>1, <2>3 DEF TypeOK
  <2>6. calls' \subseteq Call
    BY <1>4, <2>1, <2>3 DEF TypeOK
  <2>5. headers' \in [Nodes -> Seq(Header)]
    BY <1>4, <2>1, <2>2 DEF TypeOK
  <2> QED
    BY <1>2, <1>4, <2>4, <2>5, <2>6 DEF TypeOK
<1> QED
  BY <1>3, <1>4, ReceiveProgressIs

LEMMA TypeStep ==
  ASSUME TypeOK, [Next]_vars
  PROVE  TypeOK'
<1>1. CASE UNCHANGED vars
  BY <1>1 DEF vars, members, threads, network, history, TypeOK
<1>2. ASSUME NEW c \in Clients, Join(c) \/ HostRemoves(c) \/ EndSession(c)
      PROVE  TypeOK'
  BY <1>2, JoinType, HostRemovesType, EndSessionType
<1>3. ASSUME NEW n \in Nodes, NEW m \in Nodes, Learn(n, m) \/ Forget(n, m)
      PROVE  TypeOK'
  BY <1>3, LearnType, ForgetType
<1>4. ASSUME NEW n \in Nodes, SendData(n) \/ DeliverThread(n) \/ HandOver(n)
      PROVE  TypeOK'
  BY <1>4, SendDataType, PassType, HandOverType DEF DeliverThread
<1>5. ASSUME NEW n \in Nodes, NEW d \in data, ReceiveData(n, d)
      PROVE  TypeOK'
  BY <1>5, ReceiveDataType
<1>6. ASSUME NEW n \in Nodes, NEW a \in progress, ReceiveProgress(n, a)
      PROVE  TypeOK'
  BY <1>6, ReceiveProgressType
<1>7. ASSUME NEW c \in calls, Told(c) \/ HandedOver(c)
      PROVE  TypeOK'
  BY <1>7, ToldType, HandedOverType
<1> QED
  BY <1>1, <1>2, <1>3, <1>4, <1>5, <1>6, <1>7 DEF Next

\* Headers, stored messages and packets are well formed, and counts never go below 0
\* (MyDeliverHeader, MyReceivedHeader, MyPacket_D_Guaranteed).
THEOREM Types == Spec => []TypeOK
  BY TypeInit, TypeStep, PTL DEF Spec

-----------------------------------------------------------------------------
(* Who has met whom. *)

\* n has never counted with m: it may still be told of m, or one of them may still join.
Unmet(n, m) == n # m /\ (m \in told[n] \/ n \in waiting \/ m \in waiting)

\* The players of a list have different slots, who waits is on no list, and two that
\* have not met have sent each other nothing.
Meeting ==
  /\ Host \in knows[Host] /\ \A n \in Nodes : knows[n] = {} \/ n \in knows[n]
  /\ \A n \in Nodes : \A p, q \in knows[n] : Slot[p] = Slot[q] => p = q
  /\ \A c \in waiting : knows[c] = {} /\ \A n \in Nodes : c \notin told[n]
  /\ \A n, m \in Nodes : Unmet(n, m) => m \notin knows[n] /\ sent[<<n, m>>] = << >>

LEMMA SameSlot ==
  ASSUME Meeting, NEW n \in Nodes, NEW p \in knows[n], NEW q \in knows[n], Slot[p] = Slot[q]
  PROVE  p = q
  BY DEF Meeting

\* n puts m on its list or takes it off, and counts with m from 0.
Regroups(n, m) ==
  /\ n # m /\ knows[n] # {} /\ knows'[n] # {}
  /\ \A q \in knows[n] \ {m} : Slot[q] # Slot[m]
  /\ knows'[n] \ {m} = knows[n] \ {m}
  /\ m \in knows'[n] => Unmet(n, m)
  /\ \A x \in Nodes \ {n} : knows'[x] = knows[x] \/ (x \in waiting /\ knows'[x] = {x})
  /\ sendCount' = Restarted(sendCount, n, m) /\ recvCount' = Restarted(recvCount, n, m)
  /\ \A c \in waiting' : c \in waiting /\ knows'[c] = {}
  /\ UNCHANGED <<scheduled, headers, received, handing, calls, corrupt, data, progress,
                 sent, got, skewed, held, reports>>

LEMMA JoinRegroups ==
  ASSUME TypeOK, Meeting, NEW c \in Clients, Join(c)
  PROVE  Regroups(Host, c)
<1>1. c \in Nodes /\ Host \in Nodes /\ Host # c
  BY NodesFinite, NodeFacts, PlayersAssumption
<1>2. /\ c \in waiting /\ \A m \in knows[Host] : Slot[m] # Slot[c]
      /\ waiting' = waiting \ {c}
      /\ knows' = [knows EXCEPT ![Host] = @ \cup {c}, ![c] = {c}]
      /\ sendCount' = Restarted(sendCount, Host, c) /\ recvCount' = Restarted(recvCount, Host, c)
      /\ UNCHANGED <<scheduled, headers, received, handing, calls, corrupt, data, progress,
                     sent, got, skewed, held, reports>>
  BY DEF Join, network, history
<1>3. /\ knows'[Host] = knows[Host] \cup {c} /\ knows'[c] = {c}
      /\ \A x \in Nodes \ {Host, c} : knows'[x] = knows[x]
  BY <1>1, <1>2 DEF TypeOK
<1>4. Unmet(Host, c)
  BY <1>1, <1>2 DEF Unmet
<1>5. waiting \subseteq Nodes /\ Host \notin waiting
  BY <1>1, NodeFacts, PlayersAssumption DEF TypeOK
<1>6. Host \in knows[Host] /\ \A d \in waiting : knows[d] = {}
  BY DEF Meeting
<1>7. \A d \in waiting' : d \in waiting /\ knows'[d] = {}
  BY <1>2, <1>3, <1>5, <1>6
<1> QED
  BY <1>1, <1>2, <1>3, <1>4, <1>6, <1>7 DEF Regroups

LEMMA LearnRegroups ==
  ASSUME TypeOK, Meeting, NEW n \in Nodes, NEW m \in Nodes, Learn(n, m)
  PROVE  Regroups(n, m)
<1>1. /\ knows[n] # {} /\ m \in told[n] /\ m \notin knows[n]
      /\ \A q \in knows[n] : Slot[q] # Slot[m]
      /\ waiting' = waiting
      /\ knows' = [knows EXCEPT ![n] = @ \cup {m}]
      /\ sendCount' = Restarted(sendCount, n, m) /\ recvCount' = Restarted(recvCount, n, m)
      /\ UNCHANGED <<scheduled, headers, received, handing, calls, corrupt, data, progress,
                     sent, got, skewed, held, reports>>
  BY DEF Learn, threads, network, history
<1>2. knows'[n] = knows[n] \cup {m} /\ \A x \in Nodes \ {n} : knows'[x] = knows[x]
  BY <1>1 DEF TypeOK
<1>3. \A c \in waiting : knows[c] = {} /\ c \in Nodes
  BY NodeFacts DEF Meeting, TypeOK
<1>4. n # m /\ Unmet(n, m)
  <2>1. n \in knows[n]
    BY <1>1 DEF Meeting
  <2> QED
    BY <1>1, <2>1 DEF Unmet
<1>5. \A c \in waiting' : c \in waiting /\ knows'[c] = {}
  BY <1>1, <1>2, <1>3
<1> QED
  BY <1>1, <1>2, <1>4, <1>5 DEF Regroups

\* n takes m off its list.
LEMMA ClearRegroups ==
  ASSUME TypeOK, Meeting, NEW n \in Nodes, NEW m \in knows[n], n # m, Clear(n, m),
         UNCHANGED <<waiting, scheduled, headers, received, handing, calls, corrupt, data, progress,
                     sent, got, skewed, held, reports>>
  PROVE  Regroups(n, m)
<1>1. /\ knows' = [knows EXCEPT ![n] = @ \ {m}]
      /\ sendCount' = Restarted(sendCount, n, m) /\ recvCount' = Restarted(recvCount, n, m)
  BY DEF Clear
<1>2. knows'[n] = knows[n] \ {m} /\ \A x \in Nodes \ {n} : knows'[x] = knows[x]
  BY <1>1 DEF TypeOK
<1>3. \A c \in waiting : knows[c] = {} /\ c \in Nodes
  BY NodeFacts DEF Meeting, TypeOK
<1>4. n \in knows[n]
  BY DEF Meeting
<1>5. \A c \in waiting' : c \in waiting /\ knows'[c] = {}
  BY <1>2, <1>3
<1>6. knows[n] # {} /\ knows'[n] # {}
  BY <1>2, <1>4
<1>7. m \in Nodes /\ \A q \in knows[n] \ {m} : Slot[q] # Slot[m]
  BY DEF Meeting, TypeOK
<1> QED
  BY <1>1, <1>2, <1>5, <1>6, <1>7 DEF Regroups

LEMMA HostRemovesRegroups ==
  ASSUME TypeOK, Meeting, NEW c \in Clients, HostRemoves(c)
  PROVE  Regroups(Host, c)
<1>1. Host \in Nodes /\ Host # c
  BY NodesFinite, PlayersAssumption
<1>2. /\ c \in knows[Host] /\ Clear(Host, c)
      /\ UNCHANGED <<waiting, scheduled, headers, received, handing, calls, corrupt, data, progress,
                     sent, got, skewed, held, reports>>
  BY DEF HostRemoves, network, history
<1> QED
  BY <1>1, <1>2, ClearRegroups

LEMMA ForgetRegroups ==
  ASSUME TypeOK, Meeting, NEW n \in Nodes, NEW m \in Nodes, Forget(n, m)
  PROVE  Regroups(n, m)
<1>1. /\ n # m /\ m \in knows[n] /\ Clear(n, m)
      /\ UNCHANGED <<waiting, scheduled, headers, received, handing, calls, corrupt, data, progress,
                     sent, got, skewed, held, reports>>
  BY DEF Forget, threads, network, history
<1> QED
  BY <1>1, ClearRegroups

\* Every step is one of these.
LEMMA Steps ==
  ASSUME TypeOK, Meeting, [Next]_vars
  PROVE  \/ UNCHANGED vars
         \/ \E n \in Nodes : \E m \in Nodes : Regroups(n, m)
         \/ \E c \in Clients : EndSession(c)
         \/ \E n \in Nodes : SendData(n)
         \/ \E n \in Nodes : \E out \in SUBSET AllOutbound(n) : Pass(n, out)
         \/ \E e \in calls : Told(e)
         \/ \E n \in Nodes : \E d \in data : ReceiveData(n, d)
         \/ \E n \in Nodes : HandOver(n)
         \/ \E e \in calls : HandedOver(e)
         \/ \E n \in Nodes : \E a \in progress : ReceiveProgress(n, a)
<1>1. \A c \in Clients : c \in Nodes
  BY NodeFacts
<1>2. Host \in Nodes
  BY NodesFinite
<1>3. ASSUME NEW c \in Clients, Join(c) \/ HostRemoves(c) PROVE Regroups(Host, c)
  BY <1>3, JoinRegroups, HostRemovesRegroups
<1>4. ASSUME NEW n \in Nodes, NEW m \in Nodes, Learn(n, m) \/ Forget(n, m) PROVE Regroups(n, m)
  BY <1>4, LearnRegroups, ForgetRegroups
<1>5. ASSUME NEW n \in Nodes, DeliverThread(n)
      PROVE  \E out \in SUBSET AllOutbound(n) : Pass(n, out)
  BY <1>5 DEF DeliverThread
<1> QED
  BY <1>1, <1>2, <1>3, <1>4, <1>5 DEF Next

\* Only these change who waits or what a node has been told.
LEMMA MembersStay ==
  ASSUME [Next]_vars
  PROVE  \/ UNCHANGED <<waiting, told>>
         \/ \E c \in Clients : Join(c) \/ EndSession(c)
         \/ \E n, m \in Nodes : Learn(n, m)
<1>1. ASSUME NEW c \in Clients, HostRemoves(c) PROVE UNCHANGED <<waiting, told>>
  BY <1>1 DEF HostRemoves
<1>2. ASSUME NEW n \in Nodes, NEW m \in Nodes, Forget(n, m) PROVE UNCHANGED <<waiting, told>>
  BY <1>2 DEF Forget
<1>3. ASSUME NEW n \in Nodes, SendData(n) \/ DeliverThread(n) \/ HandOver(n)
      PROVE  UNCHANGED <<waiting, told>>
  BY <1>3 DEF SendData, DeliverThread, Pass, HandOver, members
<1>4. ASSUME NEW n \in Nodes, NEW d, ReceiveData(n, d) PROVE UNCHANGED <<waiting, told>>
  BY <1>4 DEF ReceiveData, members
<1>5. ASSUME NEW n \in Nodes, NEW a, ReceiveProgress(n, a) PROVE UNCHANGED <<waiting, told>>
  BY <1>5 DEF ReceiveProgress, members
<1>6. ASSUME NEW e, Told(e) \/ HandedOver(e) PROVE UNCHANGED <<waiting, told>>
  BY <1>6 DEF Told, HandedOver, members
<1>7. CASE UNCHANGED vars
  BY <1>7 DEF vars, members
<1> QED
  BY <1>1, <1>2, <1>3, <1>4, <1>5, <1>6, <1>7 DEF Next

\* Two that have not met after a step had not met before it.
LEMMA UnmetBefore ==
  ASSUME TypeOK, Meeting, [Next]_vars, NEW n \in Nodes, NEW m \in Nodes, Unmet(n, m)'
  PROVE  Unmet(n, m)
<1>1. CASE UNCHANGED <<waiting, told>>
  BY <1>1 DEF Unmet
<1>2. ASSUME NEW c \in Clients, Join(c) PROVE Unmet(n, m)
  <2>1. /\ c \in waiting /\ waiting' = waiting \ {c}
        /\ told' = [x \in Nodes |->
             IF x = c THEN knows[Host] ELSE IF x \in knows[Host] \ {Host} THEN told[x] \cup {c}
             ELSE told[x]]
    BY <1>2 DEF Join
  <2> QED
    BY <2>1 DEF Unmet
<1>3. ASSUME NEW c \in Clients, EndSession(c) PROVE Unmet(n, m)
  <2>1. waiting' = waiting /\ told' = [told EXCEPT ![c] = {}]
    BY <1>3 DEF EndSession
  <2> QED
    BY <2>1 DEF Unmet, TypeOK
<1>4. ASSUME NEW x \in Nodes, NEW y \in Nodes, Learn(x, y) PROVE Unmet(n, m)
  <2>1. waiting' = waiting /\ told' = [told EXCEPT ![x] = @ \ {y}]
    BY <1>4 DEF Learn
  <2> QED
    BY <2>1 DEF Unmet, TypeOK
<1> QED
  BY <1>1, <1>2, <1>3, <1>4, MembersStay

LEMMA MeetingInit == Init => Meeting
<1>1. SUFFICES ASSUME Init PROVE Meeting
  OBVIOUS
<1>2. /\ waiting = Newcomers
      /\ knows = [n \in Nodes |-> IF n \in Newcomers THEN {} ELSE Nodes \ Newcomers]
      /\ told = [n \in Nodes |-> {}]
      /\ sent = [nm \in Nodes \X Nodes |-> << >>]
  BY <1>1 DEF Init
<1>3. Host \in Nodes /\ Host \notin Newcomers /\ Newcomers \subseteq Nodes
  BY NodesFinite, NodeFacts, PlayersAssumption
<1>4. \A n \in Nodes : \A p, q \in knows[n] : Slot[p] = Slot[q] => p = q
  BY <1>2, PlayersAssumption DEF Nodes
<1> QED
  BY <1>2, <1>3, <1>4 DEF Meeting, Unmet

\* To whom a message is sent, the sender knows.
LEMMA SentTo ==
  ASSUME TypeOK, NEW n \in Nodes, SendData(n)
  PROVE  \E to \in SUBSET Nodes : \E size \in Sizes :
           /\ to \subseteq knows[n] /\ n \notin to /\ to # {}
           /\ SendTo(n, to, size)
BY Destinations DEF SendData

\* A regrouping leaves these in order.
LEMMA MeetingLists ==
  ASSUME TypeOK, Meeting, NEW n \in Nodes, NEW m \in Nodes, Regroups(n, m),
         \A x \in Nodes : knows'[x] = {} \/ x \in knows'[x]
  PROVE  \A x \in Nodes : \A p, q \in knows'[x] : Slot[p] = Slot[q] => p = q
<1>1. /\ \A q \in knows[n] \ {m} : Slot[q] # Slot[m]
      /\ knows'[n] \ {m} = knows[n] \ {m}
      /\ \A x \in Nodes \ {n} : knows'[x] = knows[x] \/ knows'[x] = {x}
  BY DEF Regroups
<1>2. \A x \in Nodes : \A p, q \in knows[x] : Slot[p] = Slot[q] => p = q
  BY DEF Meeting
<1>3. \A p \in knows'[n] : p = m \/ p \in knows[n] \ {m}
  BY <1>1
<1>4. ASSUME NEW p \in knows'[n], NEW q \in knows'[n], Slot[p] = Slot[q] PROVE p = q
  BY <1>1, <1>2, <1>3, <1>4
<1> QED
  BY <1>1, <1>2, <1>4

LEMMA MeetingStep ==
  ASSUME TypeOK, TypeOK', Meeting, [Next]_vars
  PROVE  Meeting'
<1> DEFINE Listed == /\ Host \in knows[Host] /\ \A n \in Nodes : knows[n] = {} \/ n \in knows[n]
                     /\ \A n \in Nodes : \A p, q \in knows[n] : Slot[p] = Slot[q] => p = q
           Out == \A c \in waiting : knows[c] = {} /\ \A n \in Nodes : c \notin told[n]
           Apart == \A n, m \in Nodes : Unmet(n, m) => m \notin knows[n] /\ sent[<<n, m>>] = << >>
<1>1. Listed /\ Out /\ Apart
  BY DEF Meeting
<1>2. Host \in Nodes /\ Host \notin Clients /\ Clients \subseteq Nodes /\ waiting \subseteq Clients
  BY NodesFinite, NodeFacts, PlayersAssumption DEF TypeOK
<1>3. \A n, m \in Nodes : Unmet(n, m)' => Unmet(n, m)
  BY UnmetBefore
<1>4. CASE UNCHANGED <<knows, told, waiting, sent>>
  BY <1>1, <1>4 DEF Meeting, Unmet
<1>5. ASSUME NEW c \in Clients, Join(c) PROVE Meeting'
  <2>1. /\ c \in waiting /\ waiting' = waiting \ {c}
        /\ knows' = [knows EXCEPT ![Host] = @ \cup {c}, ![c] = {c}]
        /\ told' = [n \in Nodes |->
             IF n = c THEN knows[Host] ELSE IF n \in knows[Host] \ {Host} THEN told[n] \cup {c}
             ELSE told[n]]
        /\ sent' = sent
    BY <1>5 DEF Join, history
  <2>2. /\ knows'[Host] = knows[Host] \cup {c} /\ knows'[c] = {c}
        /\ \A x \in Nodes \ {Host, c} : knows'[x] = knows[x]
    BY <1>2, <2>1 DEF TypeOK
  <2>3. \A x \in Nodes : knows'[x] = {} \/ x \in knows'[x]
    BY <1>1, <2>2
  <2>4. Listed'
    BY <1>1, <1>2, <1>5, <2>2, <2>3, JoinRegroups, MeetingLists
  <2>5. \A d \in waiting : d \in Nodes /\ d # Host /\ d \notin knows[Host]
    BY <1>1, <1>2 DEF Unmet
  <2>6. Out'
    BY <1>1, <2>1, <2>2, <2>5
  <2>7. ASSUME NEW n \in Nodes, NEW m \in Nodes, Unmet(n, m)' PROVE m \notin knows'[n]
    <3>1. Unmet(n, m) /\ m \notin knows[n] /\ n # m
      BY <1>1, <1>3, <2>7 DEF Unmet
    <3>2. CASE n = c
      BY <2>2, <3>1, <3>2
    <3>3. CASE n = Host /\ m = c
      <4>1. m \notin told'[n] /\ n \notin waiting' /\ m \notin waiting'
        BY <1>1, <1>2, <2>1, <3>3
      <4> QED
        BY <2>7, <4>1 DEF Unmet
    <3> QED
      BY <2>2, <3>1, <3>2, <3>3
  <2>8. Apart'
    BY <1>1, <1>3, <2>1, <2>7
  <2> QED
    BY <2>4, <2>6, <2>8 DEF Meeting
<1>6. ASSUME NEW x \in Nodes, NEW y \in Nodes, Learn(x, y) PROVE Meeting'
  <2>1. /\ knows[x] # {} /\ y \in told[x]
        /\ waiting' = waiting /\ told' = [told EXCEPT ![x] = @ \ {y}]
        /\ knows' = [knows EXCEPT ![x] = @ \cup {y}]
        /\ sent' = sent
    BY <1>6 DEF Learn, history
  <2>2. knows'[x] = knows[x] \cup {y} /\ \A n \in Nodes \ {x} : knows'[n] = knows[n]
    BY <2>1 DEF TypeOK
  <2>3. told'[x] = told[x] \ {y} /\ \A n \in Nodes \ {x} : told'[n] = told[n]
    BY <2>1 DEF TypeOK
  <2>4. \A n \in Nodes : knows'[n] = {} \/ n \in knows'[n]
    BY <1>1, <2>1, <2>2
  <2>5. Listed'
    BY <1>1, <1>2, <1>6, <2>2, <2>4, LearnRegroups, MeetingLists
  <2>6. Out'
    BY <1>1, <1>2, <2>1, <2>2, <2>3
  <2>7. ASSUME NEW n \in Nodes, NEW m \in Nodes, Unmet(n, m)' PROVE m \notin knows'[n]
    <3>1. m \notin knows[n]
      BY <1>1, <1>3, <2>7
    <3>2. CASE n = x /\ m = y
      <4>1. m \notin told'[n] /\ n \notin waiting' /\ m \notin waiting'
        BY <1>1, <2>1, <2>3, <3>2
      <4> QED
        BY <2>7, <4>1 DEF Unmet
    <3> QED
      BY <2>2, <3>1, <3>2
  <2>8. Apart'
    BY <1>1, <1>3, <2>1, <2>7
  <2> QED
    BY <2>5, <2>6, <2>8 DEF Meeting
<1>7. ASSUME NEW x \in Nodes, NEW y \in Nodes, x # y, y \in knows[x], Clear(x, y),
             UNCHANGED <<waiting, told, sent>>
      PROVE  Meeting'
  <2>1. knows'[x] = knows[x] \ {y} /\ \A n \in Nodes \ {x} : knows'[n] = knows[n]
    BY <1>7 DEF Clear, TypeOK
  <2>2. \A n \in Nodes : knows'[n] \subseteq knows[n]
    BY <2>1
  <2>3. \A n \in Nodes : knows'[n] = {} \/ n \in knows'[n]
    BY <1>1, <1>7, <2>1
  <2>4. Host \in knows'[Host]
    BY <1>1, <1>2, <1>7, <2>1
  <2>5. Listed'
    BY <1>1, <2>2, <2>3, <2>4
  <2>6. Out'
    BY <1>1, <1>2, <1>7, <2>2
  <2>7. Apart'
    BY <1>1, <1>3, <1>7, <2>2
  <2> QED
    BY <2>5, <2>6, <2>7 DEF Meeting
<1>8. ASSUME NEW c \in Clients, HostRemoves(c) PROVE Meeting'
  BY <1>2, <1>7, <1>8 DEF HostRemoves, history
<1>9. ASSUME NEW x \in Nodes, NEW y \in Nodes, Forget(x, y) PROVE Meeting'
  BY <1>7, <1>9 DEF Forget, history
<1>10. ASSUME NEW c \in Clients, EndSession(c) PROVE Meeting'
  <2>1. /\ waiting' = waiting /\ sent' = sent
        /\ knows' = [knows EXCEPT ![c] = {}] /\ told' = [told EXCEPT ![c] = {}]
    BY <1>10 DEF EndSession, history
  <2>2. /\ knows'[c] = {} /\ told'[c] = {}
        /\ \A n \in Nodes \ {c} : knows'[n] = knows[n] /\ told'[n] = told[n]
    BY <2>1 DEF TypeOK
  <2>3. Listed'
    BY <1>1, <1>2, <2>2
  <2>4. Out'
    BY <1>1, <1>2, <2>1, <2>2
  <2>5. Apart'
    BY <1>1, <1>3, <2>1, <2>2
  <2> QED
    BY <2>3, <2>4, <2>5 DEF Meeting
<1>11. ASSUME NEW n \in Nodes, SendData(n) PROVE Meeting'
  <2>1. PICK to \in SUBSET Nodes, size \in Sizes : to \subseteq knows[n] /\ SendTo(n, to, size)
    BY <1>11, SentTo
  <2>2. UNCHANGED <<knows, told, waiting>>
    BY <1>11 DEF SendData, members
  <2>3. ASSUME NEW x \in Nodes, NEW y \in Nodes, y \notin knows[x]
        PROVE  sent'[<<x, y>>] = sent[<<x, y>>]
    BY <2>1, <2>3 DEF SendTo
  <2>4. Apart'
    BY <1>1, <1>3, <2>2, <2>3
  <2>5. Listed' /\ Out'
    BY <1>1, <2>2
  <2> QED
    BY <2>4, <2>5 DEF Meeting
<1>12. ASSUME NEW n \in Nodes, DeliverThread(n) \/ HandOver(n) PROVE Meeting'
  BY <1>4, <1>12 DEF DeliverThread, Pass, HandOver, members
<1>13. ASSUME NEW n \in Nodes, NEW d, ReceiveData(n, d) PROVE Meeting'
  BY <1>4, <1>13 DEF ReceiveData, members
<1>14. ASSUME NEW n \in Nodes, NEW a, ReceiveProgress(n, a) PROVE Meeting'
  BY <1>4, <1>14 DEF ReceiveProgress, members
<1>15. ASSUME NEW e, Told(e) \/ HandedOver(e) PROVE Meeting'
  BY <1>4, <1>15 DEF Told, HandedOver, members, history
<1>16. CASE UNCHANGED vars
  BY <1>4, <1>16 DEF vars, members, history
<1> QED
  BY <1>5, <1>6, <1>8, <1>9, <1>10, <1>11, <1>12, <1>13, <1>14, <1>15, <1>16 DEF Next

-----------------------------------------------------------------------------
(* What is sent, and what headers and packets carry. *)

\* The number i of what n scheduled for m is message g of that size.
Carries(n, m, i, g, size) ==
  /\ n # m /\ i < Len(sent[<<n, m>>])
  /\ sent[<<n, m>>][i + 1] = [g |-> g, size |-> size]

\* A header waits for different players, one packet for each, and has counted the others.
HeaderFits(n, h) ==
  /\ h.g < scheduled[n]
  /\ \A x \in h.packets : Carries(n, x.to, x.i, h.g, h.size)
  /\ \A x, y \in h.packets : Slot[x.to] = Slot[y.to] => x = y
  /\ IsFiniteSet(h.packets)
  /\ Cardinality(h.packets) + h.done + h.failed = h.num

CountsSent ==
  \A n \in Nodes : \A m \in knows[n] \ {n} : sendCount[n][Slot[m]] = Len(sent[<<n, m>>])
Ascending ==
  \A n, m \in Nodes : \A j \in 1..Len(sent[<<n, m>>]) :
    /\ sent[<<n, m>>][j].g < scheduled[n]
    /\ \A k \in 1..j - 1 : sent[<<n, m>>][k].g < sent[<<n, m>>][j].g
HeadersFit == \A n \in Nodes : \A k \in DOMAIN headers[n] : HeaderFits(n, headers[n][k])
HeadersDiffer ==
  \A n \in Nodes : \A j, k \in DOMAIN headers[n] : headers[n][j].g = headers[n][k].g => j = k
DataFits == \A d \in data : Carries(d.from, d.to, d.i, d.g, d.size) /\ d.block = 0

Sending == CountsSent /\ Ascending /\ HeadersFit /\ HeadersDiffer /\ DataFits

\* What was sent stays.
LEMMA SentToNone ==
  ASSUME NEW n, NEW to, NEW size, SendTo(n, to, size), NEW x \in Nodes, NEW y \in Nodes,
         x # n \/ y \notin to
  PROVE  sent'[<<x, y>>] = sent[<<x, y>>]
  BY DEF SendTo

LEMMA SentToOneIs ==
  ASSUME NEW n \in Nodes, NEW to \in SUBSET Nodes, NEW size, SendTo(n, to, size), NEW y \in to
  PROVE  sent'[<<n, y>>] = Append(sent[<<n, y>>], [g |-> scheduled[n], size |-> size])
  BY DEF SendTo

\* The next message of n goes to y.
Sends(n, y, size) ==
  /\ Len(sent[<<n, y>>]) \in Nat
  /\ Len(sent'[<<n, y>>]) = Len(sent[<<n, y>>]) + 1
  /\ sent'[<<n, y>>][Len(sent[<<n, y>>]) + 1] = [g |-> scheduled[n], size |-> size]
  /\ \A j \in 1..Len(sent[<<n, y>>]) : sent'[<<n, y>>][j] = sent[<<n, y>>][j]

LEMMA SentToOne ==
  ASSUME TypeOK, NEW n \in Nodes, NEW to \in SUBSET Nodes, NEW size \in Sizes,
         scheduled[n] < MaxSends, SendTo(n, to, size), NEW y \in to
  PROVE  Sends(n, y, size)
<1>1. PICK s : s = sent[<<n, y>>]
  OBVIOUS
<1>2. s \in Seq(Message) /\ Len(s) \in Nat
  BY <1>1, LenProperties DEF TypeOK
<1>3. PICK l : l = [g |-> scheduled[n], size |-> size]
  OBVIOUS
<1>4. l \in Message
  BY <1>3, NewHeaderType
<1>5. sent'[<<n, y>>] = Append(s, l)
  BY <1>1, <1>3, SentToOneIs
<1>6. /\ Len(Append(s, l)) = Len(s) + 1 /\ Append(s, l)[Len(s) + 1] = l
      /\ \A j \in 1..Len(s) : Append(s, l)[j] = s[j]
  BY <1>2, <1>4, AppendProperties
<1>7. PICK t : t = sent'[<<n, y>>]
  OBVIOUS
<1>8. /\ Len(s) \in Nat /\ Len(t) = Len(s) + 1 /\ t[Len(s) + 1] = l
      /\ \A j \in 1..Len(s) : t[j] = s[j]
  BY <1>2, <1>5, <1>6, <1>7
<1> QED
  BY <1>1, <1>3, <1>7, <1>8 DEF Sends

LEMMA SentStays ==
  ASSUME TypeOK, Meeting, [Next]_vars, \A n \in Nodes : ~SendData(n)
  PROVE  sent' = sent
<1>1. CASE UNCHANGED vars
  BY <1>1 DEF vars, history
<1>2. ASSUME NEW n \in Nodes, NEW m \in Nodes, Regroups(n, m) PROVE sent' = sent
  BY <1>2 DEF Regroups
<1>3. ASSUME NEW c, EndSession(c) PROVE sent' = sent
  BY <1>3 DEF EndSession, history
<1>4. ASSUME NEW n, NEW out, Pass(n, out) PROVE sent' = sent
  BY <1>4 DEF Pass
<1>5. ASSUME NEW e, Told(e) \/ HandedOver(e) PROVE sent' = sent
  BY <1>5 DEF Told, HandedOver, history
<1>6. ASSUME NEW n, NEW d, ReceiveData(n, d) PROVE sent' = sent
  BY <1>6 DEF ReceiveData
<1>7. ASSUME NEW n, HandOver(n) PROVE sent' = sent
  BY <1>7 DEF HandOver
<1>8. ASSUME NEW n, NEW a, ReceiveProgress(n, a) PROVE sent' = sent
  BY <1>8 DEF ReceiveProgress
<1> QED
  BY <1>1, <1>2, <1>3, <1>4, <1>5, <1>6, <1>7, <1>8, Steps

LEMMA SentGrows ==
  ASSUME TypeOK, Meeting, [Next]_vars, NEW x \in Nodes, NEW y \in Nodes
  PROVE  /\ Len(sent[<<x, y>>]) \in Nat /\ Len(sent'[<<x, y>>]) \in Nat
         /\ Len(sent[<<x, y>>]) <= Len(sent'[<<x, y>>])
         /\ \A j \in 1..Len(sent[<<x, y>>]) : sent'[<<x, y>>][j] = sent[<<x, y>>][j]
<1>1. Len(sent[<<x, y>>]) \in Nat
  BY LenProperties DEF TypeOK
<1>2. CASE \A n \in Nodes : ~SendData(n)
  BY <1>1, <1>2, SentStays
<1>3. ASSUME NEW n \in Nodes, SendData(n)
      PROVE  /\ Len(sent'[<<x, y>>]) \in Nat
             /\ Len(sent[<<x, y>>]) <= Len(sent'[<<x, y>>])
             /\ \A j \in 1..Len(sent[<<x, y>>]) : sent'[<<x, y>>][j] = sent[<<x, y>>][j]
  <2>1. PICK to \in SUBSET Nodes, size \in Sizes : SendTo(n, to, size)
    BY <1>3, SentTo
  <2>2. scheduled[n] < MaxSends
    BY <1>3 DEF SendData
  <2>3. CASE x # n \/ y \notin to
    BY <1>1, <2>1, <2>3, SentToNone
  <2>4. CASE x = n /\ y \in to
    <3>0. y \in to
      BY <2>4
    <3>1. Sends(n, y, size)
      BY <2>1, <2>2, <3>0, SentToOne
    <3>2. /\ Len(sent'[<<n, y>>]) = Len(sent[<<n, y>>]) + 1
          /\ \A j \in 1..Len(sent[<<n, y>>]) : sent'[<<n, y>>][j] = sent[<<n, y>>][j]
      BY <3>1 DEF Sends
    <3> QED
      BY <1>1, <2>4, <3>2
  <2> QED
    BY <2>3, <2>4
<1> QED
  BY <1>1, <1>2, <1>3

LEMMA CarriesOn ==
  ASSUME TypeOK, Meeting, [Next]_vars, NEW n \in Nodes, NEW m \in Nodes, NEW i \in Nat,
         NEW g, NEW size, Carries(n, m, i, g, size)
  PROVE  Carries(n, m, i, g, size)'
<1>1. /\ Len(sent[<<n, m>>]) \in Nat /\ Len(sent'[<<n, m>>]) \in Nat
      /\ Len(sent[<<n, m>>]) <= Len(sent'[<<n, m>>])
      /\ \A j \in 1..Len(sent[<<n, m>>]) : sent'[<<n, m>>][j] = sent[<<n, m>>][j]
  BY SentGrows
<1>2. i + 1 \in 1..Len(sent[<<n, m>>])
  BY <1>1 DEF Carries
<1> QED
  BY <1>1, <1>2 DEF Carries

\* The numbers of messages only go up.
LEMMA ScheduledGrows ==
  ASSUME TypeOK, Meeting, [Next]_vars, NEW n \in Nodes
  PROVE  /\ scheduled[n] \in Nat /\ scheduled'[n] \in Nat /\ scheduled[n] <= scheduled'[n]
         /\ (~SendData(n)) => scheduled'[n] = scheduled[n]
<1>1. scheduled[n] \in Nat
  BY DEF TypeOK
<1>2. CASE UNCHANGED vars
  BY <1>1, <1>2 DEF vars
<1>3. ASSUME NEW x \in Nodes, NEW y \in Nodes, Regroups(x, y) PROVE scheduled' = scheduled
  BY <1>3 DEF Regroups
<1>4. ASSUME NEW c, EndSession(c) PROVE scheduled' = scheduled
  BY <1>4 DEF EndSession
<1>5. ASSUME NEW x, NEW out, Pass(x, out) PROVE scheduled' = scheduled
  BY <1>5 DEF Pass
<1>6. ASSUME NEW e, Told(e) \/ HandedOver(e) PROVE scheduled' = scheduled
  BY <1>6 DEF Told, HandedOver
<1>7. ASSUME NEW x, NEW d, ReceiveData(x, d) PROVE scheduled' = scheduled
  BY <1>7 DEF ReceiveData
<1>8. ASSUME NEW x, HandOver(x) PROVE scheduled' = scheduled
  BY <1>8 DEF HandOver
<1>9. ASSUME NEW x, NEW a, ReceiveProgress(x, a) PROVE scheduled' = scheduled
  BY <1>9 DEF ReceiveProgress
<1>10. ASSUME NEW x \in Nodes, SendData(x)
       PROVE  scheduled'[n] = IF x = n THEN scheduled[n] + 1 ELSE scheduled[n]
  BY <1>10 DEF SendData, TypeOK
<1> QED
  BY <1>1, <1>2, <1>3, <1>4, <1>5, <1>6, <1>7, <1>8, <1>9, <1>10, Steps

\* A header that fitted still does.
LEMMA FitsOn ==
  ASSUME TypeOK, Meeting, [Next]_vars, NEW n \in Nodes, NEW h \in Header, HeaderFits(n, h)
  PROVE  HeaderFits(n, h)'
<1>1. h.g \in Nat /\ h.packets \subseteq Outgoing
  BY DEF Header, Numbers
<1>2. \A x \in h.packets : x.to \in Nodes /\ x.i \in Nat
  BY <1>1 DEF Outgoing
<1>3. ASSUME NEW x \in h.packets PROVE Carries(n, x.to, x.i, h.g, h.size)'
  BY <1>2, CarriesOn DEF HeaderFits
<1>4. h.g < scheduled'[n]
  BY <1>1, ScheduledGrows DEF HeaderFits
<1> QED
  BY <1>3, <1>4 DEF HeaderFits

\* At most one packet is lost in a pass.
LEMMA LostOne ==
  ASSUME NEW n \in Nodes, NEW h \in Header, HeaderFits(n, h), Lost(n, h) # {}
  PROVE  \E x \in h.packets : Lost(n, h) = {x} /\ x.to \notin knows[n]
<1>1. PICK x \in Lost(n, h) : TRUE
  OBVIOUS
<1>2. ASSUME NEW y \in h.packets PROVE Slot[y.to] \in Nat
  BY PlayersAssumption DEF Header, Outgoing, Nodes
<1>3. Lost(n, h) \subseteq h.packets /\ \A y \in Lost(n, h) : y.to \notin knows[n]
  BY DEF Lost
<1>4. ASSUME NEW y \in Lost(n, h) PROVE y = x
  <2>1. Slot[x.to] <= Slot[y.to] /\ Slot[y.to] <= Slot[x.to]
    BY <1>1 DEF Lost
  <2>2. Slot[x.to] = Slot[y.to]
    BY <1>1, <1>2, <1>3, <2>1
  <2> QED
    BY <1>1, <1>3, <2>2 DEF HeaderFits
<1> QED
  BY <1>1, <1>3, <1>4

LEMMA GoneFits ==
  ASSUME NEW n \in Nodes, NEW h \in Header, HeaderFits(n, h)
  PROVE  HeaderFits(n, Gone(n, h))
<1>1. CASE Lost(n, h) = {}
  BY <1>1 DEF Gone
<1>2. CASE Lost(n, h) # {}
  <2>1. PICK x \in h.packets : Lost(n, h) = {x}
    BY <1>2, LostOne
  <2>2. PICK z : z = Gone(n, h)
    OBVIOUS
  <2>3. /\ z.g = h.g /\ z.size = h.size /\ z.num = h.num /\ z.done = h.done
        /\ z.packets = h.packets \ {x} /\ z.failed = h.failed + 1
    BY <1>2, <2>1, <2>2, GoneIs
  <2>4. /\ IsFiniteSet(h.packets) /\ Cardinality(h.packets) \in Nat
        /\ Cardinality(h.packets) + h.done + h.failed = h.num
        /\ h.done \in Nat /\ h.failed \in Nat
    BY FS_CardinalityType DEF HeaderFits, Header
  <2>5. IsFiniteSet(z.packets) /\ Cardinality(z.packets) = Cardinality(h.packets) - 1
    BY <2>1, <2>3, <2>4, FS_RemoveElement
  <2>6. Cardinality(z.packets) + z.done + z.failed = z.num
    BY <2>3, <2>4, <2>5
  <2>7. HeaderFits(n, z)
    BY <2>3, <2>5, <2>6 DEF HeaderFits
  <2> QED
    BY <2>2, <2>7
<1> QED
  BY <1>1, <1>2

LEMMA MergedFits ==
  ASSUME NEW n \in Nodes, NEW h \in Header, HeaderFits(n, h), NEW x \in h.packets, NEW a \in Progress
  PROVE  HeaderFits(n, Merged(h, x, a))
<1>1. PICK z : z = Merged(h, x, a)
  OBVIOUS
<1>2. z.g = h.g /\ z.size = h.size /\ z.num = h.num /\ z.failed = h.failed
  BY <1>1, MergedIs
<1>3. /\ IsFiniteSet(h.packets) /\ Cardinality(h.packets) \in Nat
      /\ Cardinality(h.packets) + h.done + h.failed = h.num
      /\ h.done \in Nat /\ h.failed \in Nat
  BY FS_CardinalityType DEF HeaderFits, Header
<1>4. /\ IsFiniteSet(h.packets \ {x})
      /\ Cardinality(h.packets \ {x}) = Cardinality(h.packets) - 1
  BY <1>3, FS_RemoveElement
<1>5. CASE z.done = h.done + 1 /\ z.packets = h.packets \ {x}
  <2>1. Cardinality(z.packets) + z.done + z.failed = z.num
    BY <1>2, <1>3, <1>4, <1>5
  <2>2. HeaderFits(n, z)
    BY <1>2, <1>4, <1>5, <2>1 DEF HeaderFits
  <2> QED
    BY <1>1, <2>2
<1>6. CASE /\ z.done = h.done
           /\ z.packets = (h.packets \ {x}) \cup {[to |-> x.to, i |-> x.i, have |-> Merging(h, x, a)]}
  <2>1. PICK y : y = [to |-> x.to, i |-> x.i, have |-> Merging(h, x, a)]
    OBVIOUS
  <2>2. y.to = x.to /\ y.i = x.i /\ z.packets = (h.packets \ {x}) \cup {y}
    BY <1>6, <2>1
  <2>3. ASSUME NEW w \in h.packets \ {x} PROVE Slot[w.to] # Slot[y.to]
    BY <2>2 DEF HeaderFits
  <2>4. y \notin h.packets \ {x}
    BY <2>3
  <2>5. IsFiniteSet(z.packets) /\ Cardinality(z.packets) = Cardinality(h.packets \ {x}) + 1
    <3>1. PICK S : S = h.packets \ {x}
      OBVIOUS
    <3>2. IsFiniteSet(S) /\ y \notin S
      BY <1>4, <2>4, <3>1
    <3>3. IsFiniteSet(S \cup {y}) /\ Cardinality(S \cup {y}) = Cardinality(S) + 1
      BY <3>2, FS_AddElement
    <3> QED
      BY <2>2, <3>1, <3>3
  <2>6. Cardinality(z.packets) + z.done + z.failed = z.num
    BY <1>2, <1>3, <1>4, <1>6, <2>5
  <2>7. \A w, v \in z.packets : Slot[w.to] = Slot[v.to] => w = v
    <3>1. \A w, v \in h.packets : Slot[w.to] = Slot[v.to] => w = v
      BY DEF HeaderFits
    <3> QED
      BY <2>2, <2>3, <3>1
  <2>8. \A w \in z.packets : Carries(n, w.to, w.i, z.g, z.size)
    BY <1>2, <2>2 DEF HeaderFits
  <2>9. HeaderFits(n, z)
    BY <1>2, <2>5, <2>6, <2>7, <2>8 DEF HeaderFits
  <2> QED
    BY <1>1, <2>9
<1> QED
  BY <1>1, <1>5, <1>6, MergedIs

\* The lists of headers that a step leaves.
LEMMA ListRemoved ==
  ASSUME NEW n, NEW hs \in Seq(Header), NEW k \in DOMAIN hs,
         \A j \in DOMAIN hs : HeaderFits(n, hs[j]),
         \A i, j \in DOMAIN hs : hs[i].g = hs[j].g => i = j
  PROVE  /\ \A j \in DOMAIN RemoveAt(hs, k) :
              /\ HeaderFits(n, RemoveAt(hs, k)[j])
              /\ \E i \in DOMAIN hs : i # k /\ RemoveAt(hs, k)[j] = hs[i]
         /\ \A i, j \in DOMAIN RemoveAt(hs, k) :
              RemoveAt(hs, k)[i].g = RemoveAt(hs, k)[j].g => i = j
<1>1. PICK qs : qs = RemoveAt(hs, k)
  OBVIOUS
<1>2. /\ qs \in Seq(Header) /\ Len(qs) = Len(hs) - 1
      /\ \A j \in 1..Len(hs) - 1 : qs[j] = IF j < k THEN hs[j] ELSE hs[j + 1]
  BY <1>1, Removed
<1>3. Len(hs) \in Nat /\ DOMAIN hs = 1..Len(hs) /\ DOMAIN qs = 1..Len(hs) - 1 /\ k \in 1..Len(hs)
  BY <1>2, LenProperties
<1>4. ASSUME NEW j \in DOMAIN qs
      PROVE  LET i == IF j < k THEN j ELSE j + 1 IN i \in DOMAIN hs /\ i # k /\ qs[j] = hs[i]
  BY <1>2, <1>3
<1>5. \A j \in DOMAIN qs : \E i \in DOMAIN hs : i # k /\ qs[j] = hs[i]
  BY <1>4
<1>6. ASSUME NEW i \in DOMAIN qs, NEW j \in DOMAIN qs, qs[i].g = qs[j].g PROVE i = j
  <2>1. (IF i < k THEN i ELSE i + 1) = (IF j < k THEN j ELSE j + 1)
    BY <1>4, <1>6
  <2> QED
    BY <1>3, <2>1
<1> QED
  BY <1>1, <1>5, <1>6

LEMMA ListPassed ==
  ASSUME TypeOK, HeadersFit, HeadersDiffer, NEW n \in Nodes
  PROVE  /\ \A k \in DOMAIN PassedList(n) : HeaderFits(n, PassedList(n)[k])
         /\ \A j, k \in DOMAIN PassedList(n) : PassedList(n)[j].g = PassedList(n)[k].g => j = k
<1>1. /\ DOMAIN PassedList(n) = DOMAIN headers[n]
      /\ \A k \in DOMAIN headers[n] :
           /\ headers[n][k] \in Header
           /\ PassedList(n)[k] = headers[n][k] \/ PassedList(n)[k] = Gone(n, headers[n][k])
  BY PassedListIs
<1>2. ASSUME NEW k \in DOMAIN headers[n]
      PROVE  HeaderFits(n, PassedList(n)[k]) /\ PassedList(n)[k].g = headers[n][k].g
  <2>1. HeaderFits(n, headers[n][k])
    BY DEF HeadersFit
  <2>2. HeaderFits(n, Gone(n, headers[n][k])) /\ Gone(n, headers[n][k]).g = headers[n][k].g
    BY <1>1, <2>1, GoneFits, GoneIs
  <2> QED
    BY <1>1, <2>1, <2>2
<1> QED
  BY <1>1, <1>2 DEF HeadersDiffer

LEMMA ListAnswered ==
  ASSUME TypeOK, HeadersFit, HeadersDiffer, NEW n \in Nodes, NEW k \in DOMAIN headers[n],
         NEW x \in headers[n][k].packets, NEW a \in Progress
  PROVE  /\ \A j \in DOMAIN AnsweredList(n, k, x, a) : HeaderFits(n, AnsweredList(n, k, x, a)[j])
         /\ \A j \in DOMAIN headers[n] : AnsweredList(n, k, x, a)[j].g = headers[n][j].g
         /\ \A i, j \in DOMAIN AnsweredList(n, k, x, a) :
              AnsweredList(n, k, x, a)[i].g = AnsweredList(n, k, x, a)[j].g => i = j
<1>1. PICK hs : hs = AnsweredList(n, k, x, a)
  OBVIOUS
<1>2. /\ headers[n][k] \in Header /\ DOMAIN hs = DOMAIN headers[n]
      /\ \A j \in DOMAIN headers[n] :
           hs[j] = IF j = k THEN Merged(headers[n][k], x, a) ELSE headers[n][j]
  BY <1>1, AnsweredType
<1>3. HeaderFits(n, Merged(headers[n][k], x, a)) /\ Merged(headers[n][k], x, a).g = headers[n][k].g
  BY <1>2, MergedFits, MergedIs DEF HeadersFit
<1>4. \A j \in DOMAIN headers[n] : HeaderFits(n, hs[j]) /\ hs[j].g = headers[n][j].g
  BY <1>2, <1>3 DEF HeadersFit
<1> QED
  BY <1>1, <1>2, <1>4 DEF HeadersDiffer

\* Where nothing is sent, headers stay apart and fit.
LEMMA HeadersAfter ==
  ASSUME TypeOK, Meeting, HeadersFit, HeadersDiffer, [Next]_vars, NEW n \in Nodes,
         ~SendData(n)
  PROVE  /\ \A k \in DOMAIN headers'[n] : HeaderFits(n, headers'[n][k])
         /\ \A j, k \in DOMAIN headers'[n] : headers'[n][j].g = headers'[n][k].g => j = k
<1> DEFINE Goal == /\ \A k \in DOMAIN headers'[n] : HeaderFits(n, headers'[n][k])
                   /\ \A j, k \in DOMAIN headers'[n] : headers'[n][j].g = headers'[n][k].g => j = k
<1>1. ASSUME headers'[n] = headers[n] PROVE Goal
  BY <1>1 DEF HeadersFit, HeadersDiffer
<1>2. headers[n] \in Seq(Header)
  BY DEF TypeOK
<1> HIDE DEF Goal
<1>3. ASSUME UNCHANGED vars PROVE Goal
  BY <1>1, <1>3 DEF vars
<1>4. ASSUME NEW x \in Nodes, NEW y \in Nodes, Regroups(x, y) PROVE Goal
  BY <1>1, <1>4 DEF Regroups
<1>5. ASSUME NEW c \in Clients, EndSession(c) PROVE Goal
  <2>1. headers' = [headers EXCEPT ![c] = << >>]
    BY <1>5 DEF EndSession
  <2>2. headers'[n] = headers[n] \/ headers'[n] = << >>
    BY <2>1 DEF TypeOK
  <2>3. ASSUME headers'[n] = << >> PROVE Goal
    BY <2>3 DEF Goal
  <2> QED
    BY <1>1, <2>2, <2>3
<1>6. ASSUME NEW x \in Nodes, SendData(x) PROVE Goal
  <2>1. PICK to \in SUBSET Nodes, size \in Sizes : SendTo(x, to, size)
    BY <1>6, SentTo
  <2>2. x # n
    BY <1>6
  <2>3. headers'[n] = headers[n]
    BY <2>1, <2>2 DEF SendTo, TypeOK
  <2> QED
    BY <1>1, <2>3
<1>7. ASSUME NEW x \in Nodes, NEW out, Pass(x, out) PROVE Goal
  <2>1. headers' = [headers EXCEPT ![x] = PassedList(x)]
    BY <1>7, PassIs
  <2>2. headers'[n] = headers[n] \/ headers'[n] = PassedList(n)
    BY <2>1 DEF TypeOK
  <2>3. ASSUME headers'[n] = PassedList(n) PROVE Goal
    BY <2>3, ListPassed DEF Goal
  <2> QED
    BY <1>1, <2>2, <2>3
<1>8. ASSUME NEW e \in calls, Told(e) PROVE Goal
  <2>1. headers' = headers \/ \E k \in DOMAIN headers[e.by] :
                                headers' = [headers EXCEPT ![e.by] = RemoveAt(@, k)]
    BY <1>8, ToldIs
  <2>2. headers'[n] = headers[n] \/ \E k \in DOMAIN headers[n] : headers'[n] = RemoveAt(headers[n], k)
    BY <2>1 DEF TypeOK
  <2>3. ASSUME NEW k \in DOMAIN headers[n], headers'[n] = RemoveAt(headers[n], k) PROVE Goal
    BY <1>2, <2>3, ListRemoved DEF Goal, HeadersFit, HeadersDiffer
  <2> QED
    BY <1>1, <2>2, <2>3
<1>9. ASSUME NEW x, NEW d, ReceiveData(x, d) PROVE Goal
  BY <1>1, <1>9 DEF ReceiveData
<1>10. ASSUME NEW x, HandOver(x) PROVE Goal
  BY <1>1, <1>10 DEF HandOver
<1>11. ASSUME NEW e, HandedOver(e) PROVE Goal
  BY <1>1, <1>11 DEF HandedOver
<1>12. ASSUME NEW x \in Nodes, NEW a \in progress, ReceiveProgress(x, a) PROVE Goal
  <2>1. a \in Progress
    BY DEF TypeOK
  <2>2. \/ headers' = headers
        \/ \E k \in DOMAIN headers[x] : \E y \in headers[x][k].packets :
             headers' = [headers EXCEPT ![x] = AnsweredList(x, k, y, a)]
    BY <1>12, ReceiveProgressIs
  <2>3. ASSUME NEW k \in DOMAIN headers[x], NEW y \in headers[x][k].packets,
               headers' = [headers EXCEPT ![x] = AnsweredList(x, k, y, a)]
        PROVE  Goal
    <3>1. CASE x # n
      BY <1>1, <2>3, <3>1 DEF TypeOK
    <3>2. CASE x = n
      <4>1. headers'[n] = AnsweredList(n, k, y, a)
        BY <2>3, <3>2 DEF TypeOK
      <4> QED
        BY <2>1, <2>3, <3>2, <4>1, ListAnswered DEF Goal
    <3> QED
      BY <3>1, <3>2
  <2> QED
    BY <1>1, <2>2, <2>3
<1>13. Goal
  BY <1>3, <1>4, <1>5, <1>6, <1>7, <1>8, <1>9, <1>10, <1>11, <1>12, Steps
<1> QED
  BY <1>13 DEF Goal

\* As many packets as players are sent to.
LEMMA OneEach ==
  ASSUME TypeOK, NEW n \in Nodes, NEW to \in SUBSET Nodes, NEW size \in Sizes
  PROVE  /\ IsFiniteSet(NewHeader(n, to, size).packets)
         /\ Cardinality(NewHeader(n, to, size).packets) = Cardinality(to)
         /\ Cardinality(to) \in Nat
<1>1. IsFiniteSet(to)
  BY NodesFinite, FS_Subset
<1>2. PICK S : S = {[to |-> m, i |-> sendCount[n][Slot[m]], have |-> {}] : m \in to}
  OBVIOUS
<1>3. PICK f : f = [m \in to |-> [to |-> m, i |-> sendCount[n][Slot[m]], have |-> {}]]
  OBVIOUS
<1>4. f \in [to -> S] /\ (\A p, q \in to : f[p] = f[q] => p = q) /\ (\A x \in S : \E m \in to : f[m] = x)
  BY <1>2, <1>3
<1>5. f \in Bijection(to, S)
  BY <1>4 DEF Bijection, Injection, Surjection, IsInjective
<1>6. IsFiniteSet(S) /\ Cardinality(S) = Cardinality(to)
  BY <1>1, <1>5, FS_Bijection DEF ExistsBijection
<1> QED
  BY <1>1, <1>2, <1>6, FS_CardinalityType DEF NewHeader

\* The header of a message that has just been sent fits.
LEMMA NewFits ==
  ASSUME TypeOK, Meeting, CountsSent, NEW n \in Nodes, NEW to \in SUBSET Nodes, NEW size \in Sizes,
         SendData(n), SendTo(n, to, size), to \subseteq knows[n], n \notin to,
         NEW h, h = NewHeader(n, to, size)
  PROVE  HeaderFits(n, h)'
<1>1. scheduled[n] < MaxSends /\ scheduled[n] \in Nat /\ scheduled'[n] = scheduled[n] + 1
  BY DEF SendData, TypeOK
<1>2. /\ h.g = scheduled[n] /\ h.size = size /\ h.num = Cardinality(to)
      /\ h.done = 0 /\ h.failed = 0
      /\ h.packets = {[to |-> m, i |-> sendCount[n][Slot[m]], have |-> {}] : m \in to}
  BY DEF NewHeader
<1>3. ASSUME NEW x \in h.packets PROVE Carries(n, x.to, x.i, h.g, h.size)'
  <2>1. PICK m \in to : x = [to |-> m, i |-> sendCount[n][Slot[m]], have |-> {}]
    BY <1>2
  <2>2. x.to = m /\ x.i = Len(sent[<<n, m>>])
    BY <2>1 DEF CountsSent
  <2>3. /\ Len(sent[<<n, m>>]) \in Nat
        /\ Len(sent'[<<n, m>>]) = Len(sent[<<n, m>>]) + 1
        /\ sent'[<<n, m>>][Len(sent[<<n, m>>]) + 1] = [g |-> scheduled[n], size |-> size]
        /\ \A j \in 1..Len(sent[<<n, m>>]) : sent'[<<n, m>>][j] = sent[<<n, m>>][j]
    <3>1. Sends(n, m, size)
      BY <1>1, SentToOne
    <3> QED
      BY <3>1 DEF Sends
  <2>4. PICK l : l = Len(sent[<<n, m>>])
    OBVIOUS
  <2>5. l \in Nat /\ Len(sent'[<<n, m>>]) = l + 1 /\ x.i = l /\ x.i < l + 1
    BY <2>2, <2>3, <2>4
  <2>6. n # m
    OBVIOUS
  <2> QED
    BY <1>2, <2>2, <2>3, <2>4, <2>5, <2>6 DEF Carries
<1>4. ASSUME NEW x \in h.packets, NEW y \in h.packets, Slot[x.to] = Slot[y.to] PROVE x = y
  <2>1. PICK m \in to : x = [to |-> m, i |-> sendCount[n][Slot[m]], have |-> {}]
    BY <1>2
  <2>2. PICK q \in to : y = [to |-> q, i |-> sendCount[n][Slot[q]], have |-> {}]
    BY <1>2
  <2>3. m \in knows[n] /\ q \in knows[n] /\ Slot[m] = Slot[q]
    BY <1>4, <2>1, <2>2
  <2> QED
    BY <2>1, <2>2, <2>3, SameSlot
<1>5. IsFiniteSet(h.packets) /\ Cardinality(h.packets) = Cardinality(to) /\ Cardinality(to) \in Nat
  BY OneEach
<1>6. Cardinality(h.packets) + h.done + h.failed = h.num
  BY <1>2, <1>5
<1>7. h.g < scheduled'[n]
  BY <1>1, <1>2
<1> QED
  BY <1>3, <1>4, <1>5, <1>6, <1>7 DEF HeaderFits

LEMMA HeadersStep ==
  ASSUME TypeOK, TypeOK', Meeting, Sending, [Next]_vars
  PROVE  HeadersFit' /\ HeadersDiffer'
<1>1. HeadersFit /\ HeadersDiffer /\ CountsSent
  BY DEF Sending
<1>2. ASSUME NEW n \in Nodes, ~SendData(n)
      PROVE  /\ \A k \in DOMAIN headers'[n] : HeaderFits(n, headers[n][k])'
             /\ \A j, k \in DOMAIN headers'[n] : headers'[n][j].g = headers'[n][k].g => j = k
  <2>1. headers'[n] \in Seq(Header)
    BY DEF TypeOK
  <2>2. ASSUME NEW k \in DOMAIN headers'[n] PROVE HeaderFits(n, headers[n][k])'
    <3>1. PICK h : h = headers'[n][k]
      OBVIOUS
    <3>2. h \in Header /\ HeaderFits(n, h)
      BY <1>1, <1>2, <2>1, <3>1, ElementOfSeq, HeadersAfter
    <3>3. HeaderFits(n, h)'
      BY <3>2, FitsOn
    <3> QED
      BY <3>1, <3>3 DEF HeaderFits, Carries
  <2> QED
    BY <1>1, <1>2, <2>2, HeadersAfter
<1>3. ASSUME NEW n \in Nodes, SendData(n)
      PROVE  /\ \A k \in DOMAIN headers'[n] : HeaderFits(n, headers[n][k])'
             /\ \A j, k \in DOMAIN headers'[n] : headers'[n][j].g = headers'[n][k].g => j = k
  <2>1. PICK to \in SUBSET Nodes, size \in Sizes :
          to \subseteq knows[n] /\ n \notin to /\ SendTo(n, to, size)
    BY <1>3, SentTo
  <2>2. PICK h : h = NewHeader(n, to, size)
    OBVIOUS
  <2>3. scheduled[n] \in Nat /\ scheduled[n] < MaxSends /\ h \in Header /\ h.g = scheduled[n]
    BY <1>3, <2>2, NewHeaderType DEF SendData, NewHeader, TypeOK
  <2>4. PICK hs : hs = headers[n]
    OBVIOUS
  <2>5. hs \in Seq(Header) /\ Len(hs) \in Nat /\ DOMAIN hs = 1..Len(hs)
    BY <2>4, LenProperties DEF TypeOK
  <2>6. headers'[n] = Append(hs, h)
    BY <2>1, <2>2, <2>4 DEF SendTo, TypeOK
  <2>7. /\ DOMAIN headers'[n] = 1..Len(hs) + 1 /\ headers'[n][Len(hs) + 1] = h
        /\ \A k \in 1..Len(hs) : headers'[n][k] = hs[k]
    BY <2>3, <2>5, <2>6, AppendProperties, LenProperties
  <2>8. HeaderFits(n, h)'
    BY <1>1, <1>3, <2>1, <2>2, NewFits
  <2>9. ASSUME NEW k \in 1..Len(hs)
        PROVE  HeaderFits(n, hs[k])' /\ hs[k].g \in Nat /\ hs[k].g < scheduled[n]
    <3>1. hs[k] \in Header /\ HeaderFits(n, hs[k])
      BY <1>1, <2>4, <2>5, ElementOfSeq DEF HeadersFit
    <3>2. HeaderFits(n, hs[k])'
      BY <3>1, FitsOn
    <3> QED
      BY <3>1, <3>2 DEF HeaderFits, Header, Numbers
  <2>10. \A j, k \in 1..Len(hs) : hs[j].g = hs[k].g => j = k
    BY <1>1, <2>4, <2>5 DEF HeadersDiffer
  <2>11. \A k \in DOMAIN headers'[n] : HeaderFits(n, headers[n][k])'
    <3>1. ASSUME NEW k \in DOMAIN headers'[n] PROVE HeaderFits(n, headers[n][k])'
      <4>1. k \in 1..Len(hs) \/ k = Len(hs) + 1
        BY <2>5, <2>7
      <4>2. CASE k \in 1..Len(hs)
        <5>1. headers'[n][k] = hs[k] /\ HeaderFits(n, hs[k])'
          BY <2>7, <2>9, <4>2
        <5> QED
          BY <5>1 DEF HeaderFits, Carries
      <4>3. CASE k = Len(hs) + 1
        <5>1. headers'[n][k] = h /\ HeaderFits(n, h)'
          BY <2>7, <2>8, <4>3
        <5> QED
          BY <5>1 DEF HeaderFits, Carries
      <4> QED
        BY <4>1, <4>2, <4>3
    <3> QED
      BY <3>1
  <2>12. \A j, k \in DOMAIN headers'[n] : headers'[n][j].g = headers'[n][k].g => j = k
    BY <2>3, <2>5, <2>7, <2>9, <2>10
  <2> QED
    BY <2>11, <2>12
<1> QED
  BY <1>2, <1>3 DEF HeadersFit, HeadersDiffer

LEMMA CountsSentStep ==
  ASSUME TypeOK, TypeOK', Meeting, CountsSent, [Next]_vars
  PROVE  CountsSent'
<1>1. CASE UNCHANGED <<knows, sendCount, sent>>
  BY <1>1 DEF CountsSent
<1>2. ASSUME NEW n \in Nodes, NEW m \in Nodes, Regroups(n, m) PROVE CountsSent'
  <2>1. /\ \A q \in knows[n] \ {m} : Slot[q] # Slot[m]
        /\ knows'[n] \ {m} = knows[n] \ {m}
        /\ m \in knows'[n] => Unmet(n, m)
        /\ \A x \in Nodes \ {n} : knows'[x] = knows[x] \/ knows'[x] = {x}
        /\ sendCount' = Restarted(sendCount, n, m) /\ sent' = sent
    BY <1>2 DEF Regroups
  <2>2. \A x \in Nodes : \A s \in Slots :
          sendCount'[x][s] = IF x = n /\ s = Slot[m] THEN 0 ELSE sendCount[x][s]
    <3>1. sendCount \in [Nodes -> [Slots -> Nat]]
      BY DEF TypeOK
    <3>2. \A x \in Nodes : \A s \in Slots :
            Restarted(sendCount, n, m)[x][s] = IF x = n /\ s = Slot[m] THEN 0 ELSE sendCount[x][s]
      BY <3>1, RestartedIs
    <3> QED
      BY <2>1, <3>2
  <2>3. ASSUME NEW x \in Nodes, NEW q \in knows'[x] \ {x}
        PROVE  sendCount'[x][Slot[q]] = Len(sent'[<<x, q>>])
    <3>1. q \in Nodes
      BY DEF TypeOK
    <3>2. Slot[q] \in Slots
      BY <3>1 DEF Slots
    <3>3. CASE x # n
      <4>1. q \in knows[x] \ {x}
        BY <2>1, <3>3
      <4> QED
        BY <2>1, <2>2, <3>2, <3>3, <4>1 DEF CountsSent
    <3>4. CASE x = n /\ q = m
      <4>1. sent[<<n, m>>] = << >>
        BY <2>1, <3>4 DEF Meeting
      <4>2. sendCount'[n][Slot[m]] = 0
        BY <2>2, <3>2, <3>4
      <4> QED
        BY <2>1, <3>4, <4>1, <4>2
    <3>5. CASE x = n /\ q # m
      <4>1. q \in knows[n] \ {n} /\ q \in knows[n] \ {m}
        BY <2>1, <3>5
      <4>2. sendCount'[n][Slot[q]] = sendCount[n][Slot[q]]
        BY <2>1, <2>2, <3>2, <4>1
      <4> QED
        BY <2>1, <3>5, <4>1, <4>2 DEF CountsSent
    <3> QED
      BY <3>3, <3>4, <3>5
  <2> QED
    BY <2>3 DEF CountsSent
<1>3. ASSUME NEW c \in Clients, EndSession(c) PROVE CountsSent'
  <2>1. knows' = [knows EXCEPT ![c] = {}] /\ UNCHANGED <<sendCount, sent>>
    BY <1>3 DEF EndSession, history
  <2>2. \A x \in Nodes : knows'[x] \subseteq knows[x]
    BY <2>1 DEF TypeOK
  <2> QED
    BY <2>1, <2>2 DEF CountsSent
<1>4. ASSUME NEW n \in Nodes, SendData(n) PROVE CountsSent'
  <2>1. PICK to \in SUBSET Nodes, size \in Sizes :
          to \subseteq knows[n] /\ n \notin to /\ SendTo(n, to, size)
    BY <1>4, SentTo
  <2>2. scheduled[n] < MaxSends /\ knows' = knows
    BY <1>4 DEF SendData, members
  <2>3. sendCount' = [sendCount EXCEPT ![n] = Counted(n, to)]
    BY <2>1 DEF SendTo
  <2>4. \A x \in Nodes \ {n} : sendCount'[x] = sendCount[x]
    BY <2>3 DEF TypeOK
  <2>5. \A s \in Slots : sendCount'[n][s] =
          IF \E m \in to : Slot[m] = s THEN sendCount[n][s] + 1 ELSE sendCount[n][s]
    BY <2>3 DEF TypeOK, Counted
  <2>6. ASSUME NEW x \in Nodes, NEW q \in knows[x] \ {x}
        PROVE  sendCount'[x][Slot[q]] = Len(sent'[<<x, q>>])
    <3>1. q \in Nodes
      BY DEF TypeOK
    <3>2. Slot[q] \in Slots
      BY <3>1 DEF Slots
    <3>3. sendCount[x][Slot[q]] = Len(sent[<<x, q>>])
      BY DEF CountsSent
    <3>4. CASE x = n /\ q \in to
      <4>1. /\ Len(sent[<<n, q>>]) \in Nat
            /\ Len(sent'[<<n, q>>]) = Len(sent[<<n, q>>]) + 1
            /\ sent'[<<n, q>>][Len(sent[<<n, q>>]) + 1] = [g |-> scheduled[n], size |-> size]
            /\ \A j \in 1..Len(sent[<<n, q>>]) : sent'[<<n, q>>][j] = sent[<<n, q>>][j]
        <5>1. q \in to /\ SendTo(n, to, size)
          BY <2>1, <3>4
        <5>2. Sends(n, q, size)
          BY <2>2, <5>1, SentToOne
        <5> QED
          BY <5>2 DEF Sends
      <4>2. sendCount'[x][Slot[q]] = sendCount[x][Slot[q]] + 1
        BY <2>5, <3>2, <3>4
      <4> QED
        BY <3>3, <3>4, <4>1, <4>2
    <3>5. CASE ~(x = n /\ q \in to)
      <4>1. sent'[<<x, q>>] = sent[<<x, q>>]
        BY <2>1, <3>1, <3>5, SentToNone
      <4>2. sendCount'[x][Slot[q]] = sendCount[x][Slot[q]]
        <5>1. CASE x # n
          BY <2>4, <5>1
        <5>2. CASE x = n
          <6>1. \A m \in to : Slot[m] # Slot[q]
            BY <2>1, <3>5, <5>2, SameSlot
          <6> QED
            BY <2>5, <3>2, <5>2, <6>1
        <5> QED
          BY <5>1, <5>2
      <4> QED
        BY <3>3, <4>1, <4>2
    <3> QED
      BY <3>4, <3>5
  <2> QED
    BY <2>2, <2>6 DEF CountsSent
<1>5. ASSUME NEW n \in Nodes, NEW out, Pass(n, out) PROVE CountsSent'
  BY <1>1, <1>5, PassIs
<1>6. ASSUME NEW e \in calls, Told(e) \/ HandedOver(e) PROVE CountsSent'
  BY <1>1, <1>6, ToldIs, HandedOverIs
<1>7. ASSUME NEW n \in Nodes, NEW d, ReceiveData(n, d) PROVE CountsSent'
  BY <1>1, <1>7 DEF ReceiveData, members
<1>8. ASSUME NEW n \in Nodes, HandOver(n) PROVE CountsSent'
  BY <1>1, <1>8, HandOverIs
<1>9. ASSUME NEW n \in Nodes, NEW a, ReceiveProgress(n, a) PROVE CountsSent'
  BY <1>1, <1>9 DEF ReceiveProgress, members
<1>10. CASE UNCHANGED vars
  BY <1>1, <1>10 DEF vars, members, history
<1> QED
  BY <1>2, <1>3, <1>4, <1>5, <1>6, <1>7, <1>8, <1>9, <1>10, Steps

LEMMA AscendingStep ==
  ASSUME TypeOK, TypeOK', Meeting, Ascending, [Next]_vars
  PROVE  Ascending'
<1>1. CASE \A n \in Nodes : ~SendData(n)
  <2>1. sent' = sent /\ \A n \in Nodes : scheduled'[n] = scheduled[n]
    BY <1>1, SentStays, ScheduledGrows
  <2> QED
    BY <2>1 DEF Ascending
<1>2. ASSUME NEW n \in Nodes, SendData(n) PROVE Ascending'
  <2>1. PICK to \in SUBSET Nodes, size \in Sizes : SendTo(n, to, size)
    BY <1>2, SentTo
  <2>2. scheduled[n] < MaxSends
    BY <1>2 DEF SendData
  <2>3. ASSUME NEW x \in Nodes, NEW y \in Nodes
        PROVE  \A j \in 1..Len(sent'[<<x, y>>]) :
                 /\ sent'[<<x, y>>][j].g < scheduled'[x]
                 /\ \A k \in 1..j - 1 : sent'[<<x, y>>][k].g < sent'[<<x, y>>][j].g
    <3>1. PICK s : s = sent[<<x, y>>]
      OBVIOUS
    <3>2. PICK t : t = sent'[<<x, y>>]
      OBVIOUS
    <3>3. s \in Seq(Message) /\ Len(s) \in Nat
      BY <3>1, LenProperties DEF TypeOK
    <3>4. \A j \in 1..Len(s) :
            /\ s[j].g \in Nat /\ s[j].g < scheduled[x]
            /\ \A k \in 1..j - 1 : s[k].g < s[j].g
      <4>1. \A j \in 1..Len(s) : s[j] \in Message
        BY <3>3, ElementOfSeq
      <4>2. \A j \in 1..Len(s) : s[j].g \in Nat
        BY <4>1 DEF Message, Numbers
      <4>3. \A j \in 1..Len(s) : s[j].g < scheduled[x] /\ \A k \in 1..j - 1 : s[k].g < s[j].g
        BY <3>1 DEF Ascending
      <4> QED
        BY <4>2, <4>3
    <3>5. scheduled[x] \in Nat
      BY DEF TypeOK
    <3>6. CASE x = n /\ y \in to
      <4>1. /\ Len(t) = Len(s) + 1 /\ t[Len(s) + 1] = [g |-> scheduled[n], size |-> size]
            /\ \A j \in 1..Len(s) : t[j] = s[j]
        <5>0. y \in to
          BY <3>6
        <5>1. Sends(n, y, size)
          BY <2>1, <2>2, <5>0, SentToOne
        <5>2. /\ Len(sent'[<<n, y>>]) = Len(sent[<<n, y>>]) + 1
              /\ sent'[<<n, y>>][Len(sent[<<n, y>>]) + 1] = [g |-> scheduled[n], size |-> size]
              /\ \A j \in 1..Len(sent[<<n, y>>]) : sent'[<<n, y>>][j] = sent[<<n, y>>][j]
          BY <5>1 DEF Sends
        <5> QED
          BY <3>1, <3>2, <3>6, <5>2
      <4>2. scheduled'[x] = scheduled[x] + 1
        BY <1>2, <3>6 DEF SendData, TypeOK
      <4>3. t[Len(s) + 1].g = scheduled[x]
        BY <3>6, <4>1
      <4>4. ASSUME NEW j \in 1..Len(s)
            PROVE  t[j].g < scheduled'[x] /\ \A k \in 1..j - 1 : t[k].g < t[j].g
        <5>1. t[j] = s[j] /\ s[j].g \in Nat /\ s[j].g < scheduled[x]
          BY <3>4, <4>1
        <5>2. ASSUME NEW k \in 1..j - 1 PROVE t[k].g < t[j].g
          <6>1. k \in 1..Len(s)
            BY <3>3
          <6> QED
            BY <3>4, <4>1, <5>1, <6>1
        <5>3. t[j].g < scheduled'[x]
          BY <3>5, <4>2, <5>1
        <5> QED
          BY <5>2, <5>3
      <4>5. \A k \in 1..Len(s) : t[k].g < t[Len(s) + 1].g
        BY <3>4, <4>1, <4>3
      <4>6. t[Len(s) + 1].g < scheduled'[x]
        BY <3>5, <4>2, <4>3
      <4>7. ASSUME NEW j \in 1..Len(t)
            PROVE  t[j].g < scheduled'[x] /\ \A k \in 1..j - 1 : t[k].g < t[j].g
        <5>1. CASE j = Len(s) + 1
          <6>1. \A k \in 1..j - 1 : k \in 1..Len(s)
            BY <3>3, <5>1
          <6> QED
            BY <4>5, <4>6, <5>1, <6>1
        <5>2. CASE j # Len(s) + 1
          <6>1. j \in 1..Len(s)
            BY <3>3, <4>1, <5>2
          <6> QED
            BY <4>4, <6>1
        <5> QED
          BY <5>1, <5>2
      <4> QED
        BY <3>2, <4>7
    <3>7. CASE ~(x = n /\ y \in to)
      <4>1. t = s
        BY <2>1, <3>1, <3>2, <3>7, SentToNone
      <4>2. scheduled'[x] \in Nat /\ scheduled[x] <= scheduled'[x]
        BY ScheduledGrows
      <4>3. \A j \in 1..Len(s) : s[j].g < scheduled'[x] /\ \A k \in 1..j - 1 : s[k].g < s[j].g
        BY <3>4, <3>5, <4>2
      <4> QED
        BY <3>2, <4>1, <4>3
    <3> QED
      BY <3>6, <3>7
  <2> QED
    BY <2>3 DEF Ascending
<1> QED
  BY <1>1, <1>2

\* Every packet a pass puts out is for a known player and carries its number.
LEMMA OutboundFits ==
  ASSUME NEW n \in Nodes, NEW h \in Header, HeaderFits(n, h), NEW d \in Outbound(n, h)
  PROVE  Carries(d.from, d.to, d.i, d.g, d.size) /\ d.block = 0
<1>1. PICK x \in Visited(n, h), b \in 0..h.size - 1 :
        d = [at |-> Via(n, x.to), from |-> n, to |-> x.to, g |-> h.g, i |-> x.i,
             size |-> h.size, block |-> BlockNumber(b)]
  BY DEF Outbound
<1>2. /\ d.from = n /\ d.to = x.to /\ d.g = h.g /\ d.i = x.i /\ d.size = h.size
      /\ d.block = BlockNumber(b)
  BY <1>1
<1>3. x \in h.packets
  BY DEF Visited
<1> QED
  BY <1>2, <1>3 DEF HeaderFits, BlockNumber

LEMMA DataStep ==
  ASSUME TypeOK, TypeOK', Meeting, HeadersFit, DataFits, [Next]_vars
  PROVE  DataFits'
<1>1. ASSUME NEW d \in Data, Carries(d.from, d.to, d.i, d.g, d.size)
      PROVE  Carries(d.from, d.to, d.i, d.g, d.size)'
  <2>1. d.from \in Nodes /\ d.to \in Nodes /\ d.i \in Nat
    BY DEF Data
  <2> QED
    BY <1>1, <2>1, CarriesOn
<1>2. ASSUME \A d \in data' : Carries(d.from, d.to, d.i, d.g, d.size) /\ d.block = 0
      PROVE  DataFits'
  BY <1>1, <1>2 DEF DataFits, TypeOK
<1>3. ASSUME data' = data PROVE DataFits'
  BY <1>2, <1>3 DEF DataFits
<1>4. ASSUME NEW n \in Nodes, NEW out \in SUBSET AllOutbound(n), Pass(n, out) PROVE DataFits'
  <2>1. data' = data \cup out
    BY <1>4, PassIs
  <2>2. ASSUME NEW d \in out PROVE Carries(d.from, d.to, d.i, d.g, d.size) /\ d.block = 0
    <3>1. PICK k \in DOMAIN headers[n] : d \in Outbound(n, headers[n][k])
      BY DEF AllOutbound, Reached
    <3>2. headers[n][k] \in Header /\ HeaderFits(n, headers[n][k])
      BY PassedListIs DEF HeadersFit
    <3> QED
      BY <3>1, <3>2, OutboundFits
  <2> QED
    BY <1>2, <2>1, <2>2 DEF DataFits
<1>5. ASSUME NEW n \in Nodes, NEW d \in data, ReceiveData(n, d) PROVE DataFits'
  <2>1. data' = data \/ data' = data \cup {[d EXCEPT !.at = Via(n, d.to)]}
    BY <1>5 DEF ReceiveData
  <2>2. PICK e : e = [d EXCEPT !.at = Via(n, d.to)]
    OBVIOUS
  <2>3. /\ e.from = d.from /\ e.to = d.to /\ e.i = d.i /\ e.g = d.g /\ e.size = d.size
        /\ e.block = d.block
    <3>1. d \in Data
      BY DEF TypeOK
    <3> QED
      BY <2>2, <3>1 DEF Data
  <2>4. Carries(e.from, e.to, e.i, e.g, e.size) /\ e.block = 0
    BY <2>3 DEF DataFits
  <2> QED
    BY <1>2, <2>1, <2>2, <2>4 DEF DataFits
<1>6. CASE UNCHANGED vars
  BY <1>3, <1>6 DEF vars, network
<1>7. ASSUME NEW n \in Nodes, NEW m \in Nodes, Regroups(n, m) PROVE DataFits'
  BY <1>3, <1>7 DEF Regroups
<1>8. ASSUME NEW c, EndSession(c) PROVE DataFits'
  BY <1>3, <1>8 DEF EndSession, network
<1>9. ASSUME NEW n, SendData(n) PROVE DataFits'
  BY <1>3, <1>9 DEF SendData, network
<1>10. ASSUME NEW e, Told(e) \/ HandedOver(e) PROVE DataFits'
  BY <1>3, <1>10 DEF Told, HandedOver, network
<1>11. ASSUME NEW n, HandOver(n) PROVE DataFits'
  BY <1>3, <1>11 DEF HandOver, network
<1>12. ASSUME NEW n, NEW a, ReceiveProgress(n, a) PROVE DataFits'
  BY <1>3, <1>12 DEF ReceiveProgress
<1> QED
  BY <1>4, <1>5, <1>6, <1>7, <1>8, <1>9, <1>10, <1>11, <1>12, Steps

LEMMA SendingInit == Init => Sending
<1>1. SUFFICES ASSUME Init PROVE Sending
  OBVIOUS
<1>2. /\ knows \in [Nodes -> SUBSET Nodes]
      /\ sendCount = [n \in Nodes |-> [s \in Slots |-> 0]]
      /\ headers = [n \in Nodes |-> << >>]
      /\ sent = [nm \in Nodes \X Nodes |-> << >>] /\ data = {}
  BY <1>1, TypeInit DEF Init, TypeOK
<1>3. CountsSent
  <2>1. ASSUME NEW n \in Nodes, NEW m \in knows[n] \ {n}
        PROVE  sendCount[n][Slot[m]] = Len(sent[<<n, m>>])
    <3>1. m \in Nodes
      BY <1>2
    <3>2. Slot[m] \in Slots
      BY <3>1 DEF Slots
    <3>3. sent[<<n, m>>] = << >> /\ sendCount[n][Slot[m]] = 0
      BY <1>2, <3>1, <3>2
    <3> QED
      BY <3>3
  <2> QED
    BY <2>1 DEF CountsSent
<1>4. \A n, m \in Nodes : Len(sent[<<n, m>>]) = 0
  <2>1. ASSUME NEW n \in Nodes, NEW m \in Nodes PROVE sent[<<n, m>>] = << >>
    BY <1>2
  <2>2. Len(<< >>) = 0
    BY EmptySeq
  <2> QED
    BY <2>1, <2>2
<1>5. Ascending
  BY <1>4 DEF Ascending
<1>6. \A n \in Nodes : DOMAIN headers[n] = {}
  BY <1>2
<1>7. HeadersFit /\ HeadersDiffer /\ DataFits
  BY <1>2, <1>6 DEF HeadersFit, HeadersDiffer, DataFits
<1> QED
  BY <1>3, <1>5, <1>7 DEF Sending

LEMMA SendingStep ==
  ASSUME TypeOK, TypeOK', Meeting, Sending, [Next]_vars
  PROVE  Sending'
BY HeadersStep, CountsSentStep, AscendingStep, DataStep DEF Sending

-----------------------------------------------------------------------------
(* What is stored. *)

\* A stored message is one that was sent to m, with its first block, and is held if
\* that makes it complete.
EntryFits(m, x) ==
  /\ Carries(x.from, m, x.i, x.g, x.size) /\ x.blocks = {0}
  /\ Complete(x) => <<x.from, m, x.g>> \in held

\* No message is stored twice.
Storing ==
  \A m \in Nodes :
    /\ \A k \in DOMAIN received[m] : EntryFits(m, received[m][k])
    /\ \A j, k \in DOMAIN received[m] :
         (received[m][j].from = received[m][k].from /\ received[m][j].i = received[m][k].i) => j = k

NewEntry(d) == [from |-> d.from, g |-> d.g, i |-> d.i, size |-> d.size, blocks |-> {0}]

\* Where every stored message has its first block, and packets carry only that one,
\* a stored message does not change.
LEMMA StoreIs ==
  ASSUME TypeOK, Storing, DataFits, NEW n \in Nodes, NEW d \in data, Store(n, d)
  PROVE  \/ /\ Old(n, d) /\ received' = received
            /\ progress' = progress \cup {Answer(n, d, Blocks)}
         \/ /\ ~Old(n, d) /\ received' = received
            /\ \E k \in Stored(n, d) :
                 \/ Complete(received[n][k]) /\ progress' = progress \cup {Answer(n, d, Blocks)}
                 \/ ~Complete(received[n][k]) /\ progress' = progress \cup {Answer(n, d, {0})}
         \/ /\ ~Old(n, d) /\ Stored(n, d) = {}
            /\ received' = [received EXCEPT ![n] = Append(@, NewEntry(d))]
            /\ progress' = progress \cup {Answer(n, d, {0})}
<1>1. d.block = 0
  BY DEF DataFits
<1>2. ASSUME NEW k \in Stored(n, d)
      PROVE  /\ received[n][k].blocks \cup {d.block} = {0}
             /\ [received EXCEPT ![n][k].blocks = @ \cup {d.block}] = received
  <2>1. received[n] \in Seq(Received) /\ k \in DOMAIN received[n]
    BY DEF TypeOK, Stored
  <2>2. received[n][k] \in Received /\ received[n][k].blocks = {0}
    <3>1. received[n][k].blocks = {0}
      BY <2>1 DEF Storing, EntryFits
    <3> QED
      BY <2>1, <3>1, ElementOfSeq
  <2>3. received[n][k].blocks \cup {d.block} = {0}
    BY <1>1, <2>2
  <2>4. PICK x : x = received[n][k]
    OBVIOUS
  <2>5. [x EXCEPT !.blocks = {0}] = x
    BY <2>2, <2>4 DEF Received
  <2>6. [received EXCEPT ![n][k].blocks = @ \cup {d.block}] =
          [received EXCEPT ![n] = [received[n] EXCEPT ![k] = [x EXCEPT !.blocks = {0}]]]
    BY <2>3, <2>4
  <2>7. [received[n] EXCEPT ![k] = x] = received[n]
    BY <2>1, <2>4
  <2>8. [received EXCEPT ![n] = received[n]] = received
    BY DEF TypeOK
  <2> QED
    BY <2>3, <2>5, <2>6, <2>7, <2>8
<1>3. CASE Old(n, d) /\ progress' = progress \cup {Answer(n, d, Blocks)} /\ UNCHANGED received
  BY <1>3
<1>4. ASSUME ~Old(n, d), NEW k \in Stored(n, d), Complete(received[n][k]),
             progress' = progress \cup {Answer(n, d, Blocks)}, UNCHANGED received
      PROVE  /\ ~Old(n, d) /\ received' = received
             /\ Complete(received[n][k]) /\ progress' = progress \cup {Answer(n, d, Blocks)}
  BY <1>4
<1>5. ASSUME ~Old(n, d), NEW k \in Stored(n, d), ~Complete(received[n][k]),
             progress' = progress \cup {Answer(n, d, received[n][k].blocks \cup {d.block})},
             received' = [received EXCEPT ![n][k].blocks = @ \cup {d.block}]
      PROVE  /\ ~Old(n, d) /\ received' = received
             /\ ~Complete(received[n][k]) /\ progress' = progress \cup {Answer(n, d, {0})}
  BY <1>2, <1>5
<1>6. CASE /\ ~Old(n, d) /\ Stored(n, d) = {}
           /\ received' = [received EXCEPT ![n] = Append(@,
                [from |-> d.from, g |-> d.g, i |-> d.i, size |-> d.size, blocks |-> {0}])]
           /\ progress' = progress \cup {Answer(n, d, {0})}
  BY <1>6 DEF NewEntry
<1> QED
  BY <1>3, <1>4, <1>5, <1>6 DEF Store

\* What is removed from a list leaves the other elements, each in one place.
LEMMA RemovedFrom ==
  ASSUME NEW S, NEW q \in Seq(S), NEW k \in DOMAIN q
  PROVE  \E f \in [DOMAIN RemoveAt(q, k) -> DOMAIN q \ {k}] :
           /\ \A i, j \in DOMAIN RemoveAt(q, k) : f[i] = f[j] => i = j
           /\ \A j \in DOMAIN RemoveAt(q, k) : RemoveAt(q, k)[j] = q[f[j]]
<1>1. PICK r : r = RemoveAt(q, k)
  OBVIOUS
<1>2. /\ r \in Seq(S) /\ Len(r) = Len(q) - 1
      /\ \A j \in 1..Len(q) - 1 : r[j] = IF j < k THEN q[j] ELSE q[j + 1]
  BY <1>1, Removed
<1>3. Len(q) \in Nat /\ DOMAIN q = 1..Len(q) /\ DOMAIN r = 1..Len(q) - 1 /\ k \in 1..Len(q)
  BY <1>2, LenProperties
<1>4. PICK f : f = [j \in DOMAIN r |-> IF j < k THEN j ELSE j + 1]
  OBVIOUS
<1>5. ASSUME NEW j \in DOMAIN r
      PROVE  /\ f[j] = (IF j < k THEN j ELSE j + 1)
             /\ f[j] \in DOMAIN q \ {k} /\ r[j] = q[f[j]]
  BY <1>2, <1>3, <1>4
<1>6. f \in [DOMAIN r -> DOMAIN q \ {k}]
  BY <1>4, <1>5
<1>7. ASSUME NEW i \in DOMAIN r, NEW j \in DOMAIN r, f[i] = f[j] PROVE i = j
  BY <1>3, <1>5, <1>7
<1> QED
  BY <1>1, <1>5, <1>6, <1>7

\* A stored list stays, is emptied at the end of the session, loses an element to the
\* game, or gains a message that is not stored yet and not below the count.
LEMMA ReceivedIs ==
  ASSUME TypeOK, Meeting, Storing, DataFits, [Next]_vars, NEW m \in Nodes
  PROVE  \/ received'[m] = received[m]
         \/ received'[m] = << >> /\ knows'[m] = {}
         \/ \E k \in DOMAIN received[m] :
              /\ received'[m] = RemoveAt(received[m], k)
              /\ \E e \in calls : HandedOver(e) /\ e.by = m
         \/ \E d \in data :
              /\ ReceiveData(m, d) /\ d.to = m /\ d.from \in knows[m]
              /\ ~Old(m, d) /\ Stored(m, d) = {}
              /\ received'[m] = Append(received[m], NewEntry(d))
<1> DEFINE Goal ==
      \/ received'[m] = received[m]
      \/ received'[m] = << >> /\ knows'[m] = {}
      \/ \E k \in DOMAIN received[m] :
           /\ received'[m] = RemoveAt(received[m], k)
           /\ \E e \in calls : HandedOver(e) /\ e.by = m
      \/ \E d \in data :
           /\ ReceiveData(m, d) /\ d.to = m /\ d.from \in knows[m]
           /\ ~Old(m, d) /\ Stored(m, d) = {}
           /\ received'[m] = Append(received[m], NewEntry(d))
<1>1. ASSUME received'[m] = received[m] PROVE Goal
  BY <1>1
<1>2. ASSUME NEW c \in Clients, EndSession(c) PROVE Goal
  <2>1. knows' = [knows EXCEPT ![c] = {}] /\ received' = [received EXCEPT ![c] = << >>]
    BY <1>2 DEF EndSession
  <2> QED
    BY <2>1 DEF TypeOK
<1>3. ASSUME NEW e \in calls, HandedOver(e) PROVE Goal
  <2>1. received' = received \/ \E k \in DOMAIN received[e.by] :
                                  received' = [received EXCEPT ![e.by] = RemoveAt(@, k)]
    BY <1>3, HandedOverIs
  <2>2. CASE received' = received
    BY <2>2
  <2>3. ASSUME NEW k \in DOMAIN received[e.by], received' = [received EXCEPT ![e.by] = RemoveAt(@, k)]
        PROVE  Goal
    <3>1. CASE e.by # m
      BY <2>3, <3>1 DEF TypeOK
    <3>2. CASE e.by = m
      <4>1. received'[m] = RemoveAt(received[m], k)
        BY <2>3, <3>2 DEF TypeOK
      <4> QED
        BY <1>3, <2>3, <3>2, <4>1
    <3> QED
      BY <3>1, <3>2
  <2> QED
    BY <2>1, <2>2, <2>3
<1>4. ASSUME NEW n \in Nodes, NEW d \in data, ReceiveData(n, d) PROVE Goal
  <2>1. CASE received' = received
    BY <2>1
  <2>2. CASE received' # received
    <3>1. d.to = n /\ d.from \in knows[n] /\ Store(n, d)
      BY <1>4, <2>2 DEF ReceiveData
    <3>2. /\ ~Old(n, d) /\ Stored(n, d) = {}
          /\ received' = [received EXCEPT ![n] = Append(@, NewEntry(d))]
      BY <2>2, <3>1, StoreIs
    <3>3. CASE n # m
      BY <3>2, <3>3 DEF TypeOK
    <3>4. CASE n = m
      <4>1. received'[m] = Append(received[m], NewEntry(d))
        BY <3>2, <3>4 DEF TypeOK
      <4> QED
        BY <1>4, <3>1, <3>2, <3>4, <4>1
    <3> QED
      BY <3>3, <3>4
  <2> QED
    BY <2>1, <2>2
<1> HIDE DEF Goal
<1>5. ASSUME UNCHANGED vars PROVE Goal
  BY <1>1, <1>5 DEF vars
<1>6. ASSUME NEW x \in Nodes, NEW y \in Nodes, Regroups(x, y) PROVE Goal
  BY <1>1, <1>6 DEF Regroups
<1>7. ASSUME NEW x, SendData(x) PROVE Goal
  BY <1>1, <1>7 DEF SendData
<1>8. ASSUME NEW x, NEW out, Pass(x, out) PROVE Goal
  BY <1>1, <1>8 DEF Pass
<1>9. ASSUME NEW e, Told(e) PROVE Goal
  BY <1>1, <1>9 DEF Told
<1>10. ASSUME NEW x, HandOver(x) PROVE Goal
  BY <1>1, <1>10 DEF HandOver
<1>11. ASSUME NEW x, NEW a, ReceiveProgress(x, a) PROVE Goal
  BY <1>1, <1>11 DEF ReceiveProgress
<1>12. Goal
  BY <1>2, <1>3, <1>4, <1>5, <1>6, <1>7, <1>8, <1>9, <1>10, <1>11, Steps
<1> QED
  BY <1>12 DEF Goal

\* Who holds a message goes on holding it.
LEMMA HeldGrows ==
  ASSUME TypeOK, Meeting, [Next]_vars
  PROVE  held \subseteq held' /\ skewed \subseteq skewed'
<1>1. CASE UNCHANGED vars
  BY <1>1 DEF vars, history
<1>2. ASSUME NEW x \in Nodes, NEW y \in Nodes, Regroups(x, y) PROVE held' = held /\ skewed' = skewed
  BY <1>2 DEF Regroups
<1>3. ASSUME NEW c, EndSession(c) PROVE held' = held /\ skewed' = skewed
  BY <1>3 DEF EndSession, history
<1>4. ASSUME NEW x, SendData(x) PROVE held' = held /\ skewed' = skewed
  BY <1>4 DEF SendData
<1>5. ASSUME NEW x, NEW out, Pass(x, out) PROVE held' = held /\ skewed' = skewed
  BY <1>5 DEF Pass
<1>6. ASSUME NEW e, Told(e) PROVE held' = held /\ skewed' = skewed
  BY <1>6 DEF Told, history
<1>7. ASSUME NEW e \in calls, HandedOver(e) PROVE held' = held /\ skewed \subseteq skewed'
  BY <1>7, HandedOverIs
<1>8. ASSUME NEW x, HandOver(x) PROVE held' = held /\ skewed' = skewed
  BY <1>8 DEF HandOver
<1>9. ASSUME NEW x, NEW a, ReceiveProgress(x, a) PROVE held' = held /\ skewed' = skewed
  BY <1>9 DEF ReceiveProgress
<1>10. ASSUME NEW x, NEW d, ReceiveData(x, d) PROVE held \subseteq held' /\ skewed' = skewed
  BY <1>10 DEF ReceiveData
<1> QED
  BY <1>1, <1>2, <1>3, <1>4, <1>5, <1>6, <1>7, <1>8, <1>9, <1>10, Steps

LEMMA EntryFitsOn ==
  ASSUME TypeOK, Meeting, [Next]_vars, NEW m \in Nodes, NEW x \in Received, EntryFits(m, x)
  PROVE  EntryFits(m, x)'
<1>1. x.from \in Nodes /\ x.i \in Nat
  BY DEF Received
<1>2. Carries(x.from, m, x.i, x.g, x.size)'
  BY <1>1, CarriesOn DEF EntryFits
<1> QED
  BY <1>2, HeldGrows DEF EntryFits, Complete

LEMMA StoringInit == Init => Storing
<1>1. Init => \A m \in Nodes : DOMAIN received[m] = {}
  BY DEF Init
<1> QED
  BY <1>1 DEF Storing

LEMMA StoringStep ==
  ASSUME TypeOK, TypeOK', Meeting, Storing, DataFits, [Next]_vars
  PROVE  Storing'
<1> DEFINE Apart(q) == \A j, k \in DOMAIN q : (q[j].from = q[k].from /\ q[j].i = q[k].i) => j = k
<1>1. ASSUME NEW m \in Nodes
      PROVE  (\A k \in DOMAIN received'[m] : EntryFits(m, received[m][k])') /\ Apart(received'[m])
  <2>1. PICK q : q = received[m]
    OBVIOUS
  <2>2. PICK r : r = received'[m]
    OBVIOUS
  <2>3. /\ q \in Seq(Received) /\ r \in Seq(Received) /\ Len(q) \in Nat /\ DOMAIN q = 1..Len(q)
        /\ \A k \in DOMAIN q : q[k] \in Received
    BY <2>1, <2>2, ElementOfSeq, LenProperties DEF TypeOK
  <2>4. Apart(q) /\ \A k \in DOMAIN q : EntryFits(m, q[k])
    BY <2>1 DEF Storing
  <2>5. \A k \in DOMAIN q : EntryFits(m, q[k])'
    BY <2>3, <2>4, EntryFitsOn
  <2>6. Apart(r) /\ \A k \in DOMAIN r : EntryFits(m, r[k])'
    <3>1. CASE r = q
      BY <2>4, <2>5, <3>1
    <3>2. CASE r = << >>
      BY <3>2
    <3>3. ASSUME NEW k \in DOMAIN q, r = RemoveAt(q, k)
          PROVE  Apart(r) /\ \A j \in DOMAIN r : EntryFits(m, r[j])'
      <4>1. \E f \in [DOMAIN RemoveAt(q, k) -> DOMAIN q \ {k}] :
              /\ \A i, j \in DOMAIN RemoveAt(q, k) : f[i] = f[j] => i = j
              /\ \A j \in DOMAIN RemoveAt(q, k) : RemoveAt(q, k)[j] = q[f[j]]
        BY <2>3, RemovedFrom
      <4>2. PICK f \in [DOMAIN r -> DOMAIN q \ {k}] :
              /\ \A i, j \in DOMAIN r : f[i] = f[j] => i = j
              /\ \A j \in DOMAIN r : r[j] = q[f[j]]
        BY <3>3, <4>1
      <4> QED
        BY <2>4, <2>5, <4>2
    <3>4. ASSUME NEW d \in data, ReceiveData(m, d), d.to = m, Stored(m, d) = {},
                 r = Append(q, NewEntry(d))
          PROVE  Apart(r) /\ \A k \in DOMAIN r : EntryFits(m, r[k])'
      <4>1. d \in Data /\ Carries(d.from, m, d.i, d.g, d.size)
        BY <3>4 DEF TypeOK, DataFits
      <4>2. PICK z : z = NewEntry(d)
        OBVIOUS
      <4>3. /\ z.from = d.from /\ z.g = d.g /\ z.i = d.i /\ z.size = d.size /\ z.blocks = {0}
            /\ z \in Received
        BY <4>1, <4>2 DEF NewEntry, Received, Data, Blocks
      <4>4. /\ DOMAIN r = 1..Len(q) + 1 /\ r[Len(q) + 1] = z
            /\ \A k \in 1..Len(q) : r[k] = q[k]
        BY <2>3, <3>4, <4>2, <4>3, AppendProperties, LenProperties
      <4>5. held' = held \cup {<<x.from, m, x.g>> : x \in {y \in ToSet(r) : Complete(y)}}
        BY <2>2, <3>4 DEF ReceiveData
      <4>6. z \in ToSet(r)
        <5>1. Len(q) + 1 \in DOMAIN r
          BY <2>3, <4>4
        <5> QED
          BY <4>4, <5>1 DEF ToSet
      <4>7. Complete(z) => <<z.from, m, z.g>> \in held'
        BY <4>5, <4>6
      <4>8. Carries(z.from, m, z.i, z.g, z.size)'
        <5>1. d.from \in Nodes /\ d.i \in Nat
          BY <4>1 DEF Data
        <5> QED
          BY <4>1, <4>3, <5>1, CarriesOn
      <4>9. EntryFits(m, z)'
        BY <4>3, <4>7, <4>8 DEF EntryFits, Complete
      <4>10. ASSUME NEW k \in DOMAIN q, q[k].from = d.from, q[k].i = d.i PROVE FALSE
        <5>1. Carries(q[k].from, m, q[k].i, q[k].g, q[k].size)
          BY <2>4 DEF EntryFits
        <5>2. q[k].g = d.g
          BY <4>1, <4>10, <5>1 DEF Carries
        <5> QED
          BY <2>1, <3>4, <4>10, <5>2 DEF Stored, SameMessage
      <4>11. \A k \in DOMAIN r : EntryFits(m, r[k])'
        <5>1. ASSUME NEW k \in DOMAIN r PROVE EntryFits(m, r[k])'
          <6>1. k \in DOMAIN q \/ k = Len(q) + 1
            BY <2>3, <4>4
          <6>2. CASE k \in DOMAIN q
            BY <2>3, <2>5, <4>4, <6>2
          <6>3. CASE k = Len(q) + 1
            BY <4>4, <4>9, <6>3
          <6> QED
            BY <6>1, <6>2, <6>3
        <5> QED
          BY <5>1
      <4>12. Apart(r)
        BY <2>3, <2>4, <4>3, <4>4, <4>10
      <4> QED
        BY <4>11, <4>12
    <3> QED
      BY <2>1, <2>2, <3>1, <3>2, <3>3, <3>4, ReceivedIs
  <2> QED
    BY <2>2, <2>6 DEF EntryFits, Carries, Complete
<1> QED
  BY <1>1 DEF Storing

-----------------------------------------------------------------------------
(* Calls of the game. *)

\* The listen thread hands messages over, each thread is inside the game once, and a
\* fate is told of a message that was sent.
Calling ==
  /\ \A e \in calls : e.from # e.by => e.thread = "listen"
  /\ \A e1, e2 \in calls : (e1.by = e2.by /\ e1.thread = e2.thread) => e1 = e2
  /\ \A e \in calls : e.from = e.by => e.g < scheduled[e.by]

LEMMA OverOne ==
  ASSUME TypeOK, NEW n \in Nodes, NEW j \in Over(n), NEW k \in Over(n)
  PROVE  j = k
<1>1. DOMAIN headers[n] \subseteq Nat
  BY LenProperties DEF TypeOK
<1>2. ASSUME NEW p \in Over(n), NEW q \in Over(n), p < q PROVE FALSE
  <2>1. /\ p \in DOMAIN headers[n] /\ q \in DOMAIN headers[n] /\ p \in Reached(n)
        /\ Lost(n, headers[n][p]) # {} /\ Ended(PassedList(n)[p])
        /\ q \in Reached(n)
    BY DEF Over, Reached
  <2>2. PassedList(n)[p] = Gone(n, headers[n][p])
    BY <2>1 DEF PassedList
  <2>3. p \in 1..q - 1
    <3>1. p \in Nat /\ q \in Nat /\ p # 0
      BY <2>1, LenProperties DEF TypeOK
    <3> QED
      BY <1>2, <3>1
  <2>4. ~(Lost(n, headers[n][p]) # {} /\ Ended(Gone(n, headers[n][p])))
    BY <2>1, <2>3 DEF Reached
  <2> QED
    BY <2>1, <2>2, <2>4
<1>3. j \in Nat /\ k \in Nat
  BY <1>1 DEF Over, Reached
<1>4. ~(j < k) /\ ~(k < j)
  BY <1>2
<1> QED
  BY <1>3, <1>4

LEMMA FirstEndedOne ==
  ASSUME NEW hs \in Seq(Header), NEW j \in FirstEnded(hs), NEW k \in FirstEnded(hs)
  PROVE  j = k
<1>1. j \in Nat /\ k \in Nat
  BY LenProperties DEF FirstEnded, EndedOnes
<1>2. j <= k /\ k <= j
  BY DEF FirstEnded
<1> QED
  BY <1>1, <1>2

\* What is handed over is a stored message.
LEMMA FirstFits ==
  ASSUME TypeOK, Storing, NEW n \in Nodes, Ready(n, received[n]) # {}
  PROVE  /\ Min(Ready(n, received[n])) \in DOMAIN received[n]
         /\ First(n) \in Received /\ EntryFits(n, First(n)) /\ Complete(First(n))
         /\ First(n).from \in knows[n] /\ First(n).i = recvCount[n][Slot[First(n).from]]
<1>1. PICK k : k = Min(Ready(n, received[n]))
  OBVIOUS
<1>2. k \in Ready(n, received[n]) /\ First(n) \in Received
  BY <1>1, FirstReady
<1>3. k \in DOMAIN received[n] /\ ReadyAt(n, received[n], k)
  BY <1>2 DEF Ready
<1>4. First(n) = received[n][k]
  BY <1>1 DEF First
<1>5. EntryFits(n, First(n))
  BY <1>3, <1>4 DEF Storing
<1> QED
  BY <1>1, <1>2, <1>3, <1>4, <1>5 DEF ReadyAt

LEMMA CallingInit == Init => Calling
  BY DEF Init, Calling

LEMMA CallingStep ==
  ASSUME TypeOK, TypeOK', Meeting, Sending, Storing, Calling, [Next]_vars
  PROVE  Calling'
<1>1. \A n \in Nodes : scheduled[n] \in Nat /\ scheduled'[n] \in Nat /\ scheduled[n] <= scheduled'[n]
  BY ScheduledGrows
<1>2. \A e \in calls : e.by \in Nodes /\ e.g \in Nat
  BY DEF TypeOK, Call, Numbers
<1>3. \A e \in calls : e.from = e.by => e.g < scheduled'[e.by]
  BY <1>1, <1>2 DEF Calling
<1>4. ASSUME calls' \subseteq calls PROVE Calling'
  BY <1>3, <1>4 DEF Calling
\* One call more, of a thread that is not in the game.
<1>5. ASSUME NEW n \in Nodes, NEW thread, ~InGame(n, thread), NEW S,
             \A s, t \in S : s = t,
             \A s \in S : s.by = n /\ s.thread = thread,
             \A s \in S : s.from # s.by => s.thread = "listen",
             \A s \in S : s.from = s.by => s.g < scheduled'[s.by],
             calls' = calls \cup S
      PROVE  Calling'
  <2>1. \A e \in calls : ~(e.by = n /\ e.thread = thread)
    BY <1>5 DEF InGame
  <2>2. \A e1, e2 \in calls' : (e1.by = e2.by /\ e1.thread = e2.thread) => e1 = e2
    BY <1>5, <2>1 DEF Calling
  <2>3. \A e \in calls' : e.from # e.by => e.thread = "listen"
    BY <1>5 DEF Calling
  <2>4. \A e \in calls' : e.from = e.by => e.g < scheduled'[e.by]
    BY <1>3, <1>5
  <2> QED
    BY <2>2, <2>3, <2>4 DEF Calling
<1>6. ASSUME NEW n \in Nodes, NEW out, Pass(n, out) PROVE Calling'
  <2>1. PICK S : S = {[by |-> n, thread |-> "deliver", from |-> n, g |-> PassedList(n)[k].g] : k \in Over(n)}
    OBVIOUS
  <2>2. ~InGame(n, "deliver") /\ calls' = calls \cup S
    BY <1>6, <2>1, PassIs
  <2>3. \A s, t \in S : s = t
    BY <2>1, OverOne
  <2>4. ASSUME NEW s \in S PROVE s.by = n /\ s.thread = "deliver" /\ s.from = n /\ s.g < scheduled'[n]
    <3>1. PICK k \in Over(n) : s = [by |-> n, thread |-> "deliver", from |-> n, g |-> PassedList(n)[k].g]
      BY <2>1
    <3>2. k \in DOMAIN PassedList(n) /\ PassedList(n)[k] \in Header
      BY PassedListIs DEF Over, Reached
    <3>3. PassedList(n)[k].g < scheduled[n] /\ PassedList(n)[k].g \in Nat
      BY <3>2, ListPassed DEF Sending, HeaderFits, Header, Numbers
    <3> QED
      BY <1>1, <3>1, <3>3
  <2> QED
    BY <1>5, <2>2, <2>3, <2>4
<1>7. ASSUME NEW n \in Nodes, HandOver(n) PROVE Calling'
  <2>1. CASE calls' = calls
    BY <1>4, <2>1
  <2>2. ASSUME Ready(n, received[n]) # {}, ~InGame(n, "listen"),
               calls' = calls \cup
                 {[by |-> n, thread |-> "listen", from |-> First(n).from, g |-> First(n).g]}
        PROVE  Calling'
    <3>1. PICK s : s = [by |-> n, thread |-> "listen", from |-> First(n).from, g |-> First(n).g]
      OBVIOUS
    <3>2. First(n).from # n
      BY <2>2, FirstFits DEF EntryFits, Carries
    <3>3. PICK S : S = {s}
      OBVIOUS
    <3>4. \A y, z \in S : y = z
      BY <3>3
    <3>5. \A z \in S : z.by = n /\ z.thread = "listen" /\ z.from # z.by
      BY <3>1, <3>2, <3>3
    <3>6. calls' = calls \cup S
      BY <2>2, <3>1, <3>3
    <3> QED
      BY <1>5, <2>2, <3>4, <3>5, <3>6
  <2> QED
    BY <1>7, <2>1, <2>2, HandOverIs
<1>8. ASSUME NEW n \in Nodes, NEW a \in progress, ReceiveProgress(n, a) PROVE Calling'
  <2>1. CASE calls' = calls
    BY <1>4, <2>1
  <2>2. ASSUME NEW k \in DOMAIN headers[n], NEW x \in headers[n][k].packets,
               calls' = calls \cup
                 {[by |-> n, thread |-> "listen", from |-> n, g |-> AnsweredList(n, k, x, a)[j].g] :
                    j \in FirstEnded(AnsweredList(n, k, x, a))}
        PROVE  Calling'
    <3>1. PICK hs : hs = AnsweredList(n, k, x, a)
      OBVIOUS
    <3>2. PICK S : S = {[by |-> n, thread |-> "listen", from |-> n, g |-> hs[j].g] : j \in FirstEnded(hs)}
      OBVIOUS
    <3>3. a \in Progress
      BY DEF TypeOK
    <3>4. hs \in Seq(Header) /\ \A j \in DOMAIN hs : hs[j] \in Header /\ HeaderFits(n, hs[j])
      <4>1. \A j \in DOMAIN hs : HeaderFits(n, hs[j])
        BY <3>1, <3>3, ListAnswered DEF Sending
      <4> QED
        BY <3>1, <3>3, <4>1, AnsweredType
    <3>5. ASSUME NEW s \in S PROVE s.by = n /\ s.thread = "listen" /\ s.from = n /\ s.g < scheduled'[n]
      <4>1. PICK j \in FirstEnded(hs) : s = [by |-> n, thread |-> "listen", from |-> n, g |-> hs[j].g]
        BY <3>2
      <4>2. hs[j] \in Header /\ hs[j].g < scheduled[n]
        BY <3>4 DEF FirstEnded, EndedOnes, HeaderFits
      <4>3. hs[j].g \in Nat
        BY <4>2 DEF Header, Numbers
      <4> QED
        BY <1>1, <4>1, <4>2, <4>3
    <3>6. \A s, t \in S : s = t
      BY <3>2, <3>4, FirstEndedOne
    <3>7. ~InGame(n, "listen")
      BY <1>8, ReceiveProgressIs DEF ListenIdle
    <3>8. calls' = calls \cup S
      BY <2>2, <3>1, <3>2
    <3> QED
      BY <1>5, <3>5, <3>6, <3>7, <3>8
  <2> QED
    BY <1>8, <2>1, <2>2, ReceiveProgressIs
<1>9. ASSUME UNCHANGED vars PROVE Calling'
  BY <1>4, <1>9 DEF vars, threads
<1>10. ASSUME NEW x \in Nodes, NEW y \in Nodes, Regroups(x, y) PROVE Calling'
  BY <1>4, <1>10 DEF Regroups
<1>11. ASSUME NEW c, EndSession(c) PROVE Calling'
  BY <1>4, <1>11 DEF EndSession, threads
<1>12. ASSUME NEW x, SendData(x) PROVE Calling'
  BY <1>4, <1>12 DEF SendData
<1>13. ASSUME NEW x, NEW d, ReceiveData(x, d) PROVE Calling'
  BY <1>4, <1>13 DEF ReceiveData
<1>14. ASSUME NEW e \in calls, Told(e) \/ HandedOver(e) PROVE Calling'
  BY <1>4, <1>14, ToldIs, HandedOverIs
<1> QED
  BY <1>6, <1>7, <1>8, <1>9, <1>10, <1>11, <1>12, <1>13, <1>14, Steps

-----------------------------------------------------------------------------
(* Who has not met. *)

\* The calls that hand a message of another player over.
Foreign == {e \in calls : e.from # e.by}

\* The call with which n hands over the first ready message.
FirstCall(n) == [by |-> n, thread |-> "listen", from |-> First(n).from, g |-> First(n).g]

\* A message is handed over, or comes back from the game, or neither.
LEMMA ForeignIs ==
  ASSUME TypeOK, Meeting, Storing, [Next]_vars
  PROVE  \/ Foreign' = Foreign /\ got' = got
         \/ \E n \in Nodes :
              /\ HandOver(n) /\ Ready(n, received[n]) # {} /\ ~InGame(n, "listen")
              /\ Foreign' = Foreign \cup {FirstCall(n)}
              /\ got' = [got EXCEPT ![<<First(n).from, n>>] =
                           Append(@, [g |-> First(n).g, size |-> First(n).size])]
         \/ \E e \in Foreign : HandedOver(e) /\ Foreign' = Foreign \ {e} /\ got' = got
<1> DEFINE Stays == Foreign' = Foreign /\ got' = got
<1>1. ASSUME UNCHANGED vars PROVE Stays
  BY <1>1 DEF vars, threads, history, Foreign
<1>2. ASSUME NEW x \in Nodes, NEW y \in Nodes, Regroups(x, y) PROVE Stays
  BY <1>2 DEF Regroups, Foreign
<1>3. ASSUME NEW c, EndSession(c) PROVE Stays
  BY <1>3 DEF EndSession, threads, history, Foreign
<1>4. ASSUME NEW x, SendData(x) PROVE Stays
  BY <1>4 DEF SendData, Foreign
<1>5. ASSUME NEW x, NEW d, ReceiveData(x, d) PROVE Stays
  BY <1>5 DEF ReceiveData, Foreign
<1>6. ASSUME NEW x, NEW out, Pass(x, out) PROVE Stays
  <2>1. PICK S : S = {[by |-> x, thread |-> "deliver", from |-> x, g |-> PassedList(x)[k].g] : k \in Over(x)}
    OBVIOUS
  <2>2. calls' = calls \cup S /\ got' = got
    BY <1>6, <2>1, PassIs
  <2>3. \A z \in S : z.from = z.by
    BY <2>1
  <2> QED
    BY <2>2, <2>3 DEF Foreign
<1>7. ASSUME NEW e \in calls, Told(e) PROVE Stays
  BY <1>7, ToldIs DEF Foreign
<1>8. ASSUME NEW x, NEW a, ReceiveProgress(x, a) PROVE Stays
  <2>1. got' = got
    BY <1>8 DEF ReceiveProgress
  <2>2. CASE calls' = calls
    BY <2>1, <2>2 DEF Foreign
  <2>3. ASSUME NEW k, NEW y,
               calls' = calls \cup
                 {[by |-> x, thread |-> "listen", from |-> x, g |-> AnsweredList(x, k, y, a)[j].g] :
                    j \in FirstEnded(AnsweredList(x, k, y, a))}
        PROVE  Stays
    <3>1. PICK S : S = {[by |-> x, thread |-> "listen", from |-> x, g |-> AnsweredList(x, k, y, a)[j].g] :
                    j \in FirstEnded(AnsweredList(x, k, y, a))}
      OBVIOUS
    <3>2. \A z \in S : z.from = z.by
      BY <3>1
    <3> QED
      BY <2>1, <2>3, <3>1, <3>2 DEF Foreign
  <2> QED
    BY <1>8, <2>2, <2>3, ReceiveProgressIs
<1>9. ASSUME NEW n \in Nodes, HandOver(n)
      PROVE  \/ Stays
             \/ /\ Ready(n, received[n]) # {} /\ ~InGame(n, "listen")
                /\ Foreign' = Foreign \cup {FirstCall(n)}
                /\ got' = [got EXCEPT ![<<First(n).from, n>>] =
                             Append(@, [g |-> First(n).g, size |-> First(n).size])]
  <2>1. CASE calls' = calls /\ got' = got
    BY <2>1 DEF Foreign
  <2>2. ASSUME Ready(n, received[n]) # {}, calls' = calls \cup {FirstCall(n)}
        PROVE  Foreign' = Foreign \cup {FirstCall(n)}
    <3>1. PICK s : s = FirstCall(n)
      OBVIOUS
    <3>2. First(n).from # n
      BY <2>2, FirstFits DEF EntryFits, Carries
    <3>3. s.from # s.by
      BY <3>1, <3>2 DEF FirstCall
    <3> QED
      BY <2>2, <3>1, <3>3 DEF Foreign
  <2> QED
    BY <1>9, <2>1, <2>2, HandOverIs DEF FirstCall
<1>10. ASSUME NEW e \in calls, HandedOver(e)
       PROVE  e \in Foreign /\ Foreign' = Foreign \ {e} /\ got' = got
  BY <1>10, HandedOverIs DEF Foreign
<1> QED
  BY <1>1, <1>2, <1>3, <1>4, <1>5, <1>6, <1>7, <1>8, <1>9, <1>10, Steps

\* What m has handed over of n.
LEMMA GotIs ==
  ASSUME TypeOK, Meeting, Storing, [Next]_vars, NEW n \in Nodes, NEW m \in Nodes
  PROVE  \/ got'[<<n, m>>] = got[<<n, m>>]
         \/ /\ HandOver(m) /\ Ready(m, received[m]) # {} /\ ~InGame(m, "listen")
            /\ First(m).from = n
            /\ got'[<<n, m>>] = Append(got[<<n, m>>], [g |-> First(m).g, size |-> First(m).size])
<1>1. ASSUME NEW x \in Nodes, HandOver(x), Ready(x, received[x]) # {}, ~InGame(x, "listen"),
             got' = [got EXCEPT ![<<First(x).from, x>>] =
                       Append(@, [g |-> First(x).g, size |-> First(x).size])]
      PROVE  \/ got'[<<n, m>>] = got[<<n, m>>]
             \/ /\ HandOver(m) /\ Ready(m, received[m]) # {} /\ ~InGame(m, "listen")
                /\ First(m).from = n
                /\ got'[<<n, m>>] = Append(got[<<n, m>>], [g |-> First(m).g, size |-> First(m).size])
  <2>1. CASE x = m /\ First(m).from = n
    BY <1>1, <2>1 DEF TypeOK
  <2>2. CASE ~(x = m /\ First(m).from = n)
    <3>1. PICK v : v = Append(got[<<First(x).from, x>>], [g |-> First(x).g, size |-> First(x).size])
      OBVIOUS
    <3>2. got' = [got EXCEPT ![<<First(x).from, x>>] = v]
      BY <1>1, <3>1
    <3>3. <<First(x).from, x>> # <<n, m>>
      BY <2>2
    <3> QED
      BY <3>2, <3>3 DEF TypeOK
  <2> QED
    BY <2>1, <2>2
<1> QED
  BY <1>1, ForeignIs

\* Of a player it has not met, n has nothing and hands nothing over.
Quiet ==
  \A n, m \in Nodes : Unmet(n, m) =>
    /\ got[<<m, n>>] = << >>
    /\ \A k \in DOMAIN received[n] : received[n][k].from # m
    /\ \A e \in calls : ~(e.by = n /\ e.from = m)

LEMMA QuietInit == Init => Quiet
<1>1. SUFFICES ASSUME Init PROVE Quiet
  OBVIOUS
<1>2. /\ received = [n \in Nodes |-> << >>] /\ calls = {}
      /\ got = [nm \in Nodes \X Nodes |-> << >>]
  BY <1>1 DEF Init
<1>3. \A n \in Nodes : DOMAIN received[n] = {}
  BY <1>2
<1> QED
  BY <1>2, <1>3 DEF Quiet

LEMMA QuietStep ==
  ASSUME TypeOK, TypeOK', Meeting, Storing, DataFits, Quiet, [Next]_vars
  PROVE  Quiet'
<1>1. ASSUME NEW n \in Nodes, NEW m \in Nodes, Unmet(n, m)'
      PROVE  /\ got'[<<m, n>>] = << >>
             /\ \A k \in DOMAIN received'[n] : received'[n][k].from # m
             /\ \A e \in calls' : ~(e.by = n /\ e.from = m)
  <2>1. Unmet(n, m) /\ n # m
    BY <1>1, UnmetBefore DEF Unmet
  <2>2. m \notin knows[n]
    BY <2>1 DEF Meeting
  <2>3. /\ got[<<m, n>>] = << >>
        /\ \A k \in DOMAIN received[n] : received[n][k].from # m
        /\ \A e \in calls : ~(e.by = n /\ e.from = m)
    BY <2>1 DEF Quiet
  <2>4. ASSUME Ready(n, received[n]) # {} PROVE First(n).from # m
    BY <2>2, <2>4, FirstFits
  <2>5. got'[<<m, n>>] = << >>
    BY <2>3, <2>4, GotIs
  <2>6. ASSUME NEW e \in calls', e.by = n, e.from = m PROVE FALSE
    <3>1. e \in Foreign' /\ e \notin Foreign
      BY <2>1, <2>3, <2>6 DEF Foreign
    <3>2. PICK x \in Nodes : Ready(x, received[x]) # {} /\ e = FirstCall(x)
      BY <3>1, ForeignIs
    <3>3. x = n /\ First(x).from = m
      BY <2>6, <3>2 DEF FirstCall
    <3> QED
      BY <2>4, <3>2, <3>3
  <2>7. ASSUME NEW k \in DOMAIN received'[n] PROVE received'[n][k].from # m
    <3>1. received[n] \in Seq(Received) /\ Len(received[n]) \in Nat /\ DOMAIN received[n] = 1..Len(received[n])
      BY LenProperties DEF TypeOK
    <3>2. CASE received'[n] = received[n]
      BY <2>3, <2>7, <3>2
    <3>3. CASE received'[n] = << >>
      BY <2>7, <3>3
    <3>4. ASSUME NEW j \in DOMAIN received[n], received'[n] = RemoveAt(received[n], j)
          PROVE  received'[n][k].from # m
      <4>1. \E f \in [DOMAIN RemoveAt(received[n], j) -> DOMAIN received[n] \ {j}] :
              /\ \A p, q \in DOMAIN RemoveAt(received[n], j) : f[p] = f[q] => p = q
              /\ \A p \in DOMAIN RemoveAt(received[n], j) : RemoveAt(received[n], j)[p] = received[n][f[p]]
        BY <3>1, RemovedFrom
      <4>2. \A p \in DOMAIN RemoveAt(received[n], j) :
              \E i \in DOMAIN received[n] : RemoveAt(received[n], j)[p] = received[n][i]
        BY <4>1
      <4> QED
        BY <2>3, <2>7, <3>4, <4>2
    <3>5. ASSUME NEW d \in data, d.from \in knows[n], received'[n] = Append(received[n], NewEntry(d))
          PROVE  received'[n][k].from # m
      <4>1. PICK z : z = NewEntry(d)
        OBVIOUS
      <4>2. z.from # m
        BY <2>2, <3>5, <4>1 DEF NewEntry
      <4>3. received'[n][k] = z \/ (k \in DOMAIN received[n] /\ received'[n][k] = received[n][k])
        BY <2>7, <3>1, <3>5, <4>1
      <4> QED
        BY <2>3, <4>2, <4>3
    <3> QED
      BY <3>2, <3>3, <3>4, <3>5, ReceivedIs
  <2> QED
    BY <2>5, <2>6, <2>7
<1> QED
  BY <1>1 DEF Quiet

-----------------------------------------------------------------------------
(* Counting. *)

\* What m has of n is the beginning of what n sent it, and m holds all of it.
GotIsSent ==
  \A n, m \in Nodes : (n # m /\ <<n, m>> \notin skewed) =>
    /\ Len(got[<<n, m>>]) <= Len(sent[<<n, m>>])
    /\ \A j \in 1..Len(got[<<n, m>>]) :
         got[<<n, m>>][j] = sent[<<n, m>>][j] /\ <<n, m, got[<<n, m>>][j].g>> \in held

\* m counts what it has of n, and stores nothing below the count.
InStepOf(n, m) ==
  /\ recvCount[m][Slot[n]] + (IF Handing(n, m) THEN 1 ELSE 0) = Len(got[<<n, m>>])
  /\ \A k \in DOMAIN received[m] : received[m][k].from = n => recvCount[m][Slot[n]] <= received[m][k].i
InStep ==
  \A n, m \in Nodes : (n # m /\ n \in knows[m] /\ <<n, m>> \notin skewed) => InStepOf(n, m)

\* While the game is in a call the message stays stored, and is the next to be counted.
Holding(e) ==
  \E k \in DOMAIN received[e.by] :
    /\ received[e.by][k].from = e.from /\ received[e.by][k].g = e.g
    /\ (e.from \in knows[e.by] /\ <<e.from, e.by>> \notin skewed) =>
         received[e.by][k].i = recvCount[e.by][Slot[e.from]]
BeingHanded == \A e \in Foreign : knows[e.by] = {} \/ Holding(e)

Counting == GotIsSent /\ InStep /\ BeingHanded

LEMMA CountingInit == Init => Counting
<1>1. SUFFICES ASSUME Init PROVE Counting
  OBVIOUS
<1>2. /\ recvCount = [n \in Nodes |-> [s \in Slots |-> 0]]
      /\ received = [n \in Nodes |-> << >>] /\ calls = {}
      /\ sent = [nm \in Nodes \X Nodes |-> << >>]
      /\ got = [nm \in Nodes \X Nodes |-> << >>]
  BY <1>1 DEF Init
<1>3. \A n \in Nodes : DOMAIN received[n] = {}
  BY <1>2
<1>4. Len(<< >>) = 0
  BY EmptySeq
<1>5. \A n, m \in Nodes : got[<<n, m>>] = << >> /\ sent[<<n, m>>] = << >>
  BY <1>2
<1>6. \A n, m \in Nodes : recvCount[m][Slot[n]] = 0
  BY <1>2 DEF Slots
<1>7. \A n, m \in Nodes : ~Handing(n, m)
  BY <1>2 DEF Handing
<1>8. \A n, m \in Nodes : Len(got[<<n, m>>]) = 0 /\ Len(sent[<<n, m>>]) = 0
  BY <1>4, <1>5
<1>9. GotIsSent
  BY <1>8 DEF GotIsSent
<1>10. InStep
  <2>1. ASSUME NEW n \in Nodes, NEW m \in Nodes PROVE InStepOf(n, m)
    <3>1. recvCount[m][Slot[n]] = 0 /\ ~Handing(n, m) /\ Len(got[<<n, m>>]) = 0
      BY <1>6, <1>7, <1>8
    <3>2. recvCount[m][Slot[n]] + (IF Handing(n, m) THEN 1 ELSE 0) = Len(got[<<n, m>>])
      BY <3>1
    <3>3. DOMAIN received[m] = {}
      BY <1>3
    <3> QED
      BY <3>2, <3>3 DEF InStepOf
  <2> QED
    BY <2>1 DEF InStep
<1>11. BeingHanded
  BY <1>2 DEF BeingHanded, Foreign
<1> QED
  BY <1>9, <1>10, <1>11 DEF Counting

\* m hands over foreign messages one at a time.
LEMMA HandingIs ==
  ASSUME NEW n, NEW m, n # m
  PROVE  /\ Handing(n, m) <=> \E e \in Foreign : e.by = m /\ e.from = n
         /\ Handing(n, m)' <=> \E e \in Foreign' : e.by = m /\ e.from = n
  BY DEF Handing, Foreign

LEMMA OneForeign ==
  ASSUME Calling, NEW e1 \in Foreign, NEW e2 \in Foreign, e1.by = e2.by
  PROVE  e1 = e2
  BY DEF Calling, Foreign

LEMMA NoForeign ==
  ASSUME Calling, NEW m, ~InGame(m, "listen")
  PROVE  \A e \in Foreign : e.by # m
  BY DEF Calling, Foreign, InGame

\* What is about to be handed over is the next in the order of what was sent.
LEMMA FirstIsNext ==
  ASSUME TypeOK, Meeting, Storing, Calling, Counting, NEW n \in Nodes, NEW m \in Nodes, n # m,
         <<n, m>> \notin skewed, Ready(m, received[m]) # {}, ~InGame(m, "listen"), First(m).from = n
  PROVE  /\ Len(got[<<n, m>>]) \in Nat /\ First(m).i = Len(got[<<n, m>>])
         /\ Len(got[<<n, m>>]) < Len(sent[<<n, m>>])
         /\ [g |-> First(m).g, size |-> First(m).size] = sent[<<n, m>>][Len(got[<<n, m>>]) + 1]
         /\ <<n, m, First(m).g>> \in held
<1>1. /\ First(m) \in Received /\ EntryFits(m, First(m)) /\ Complete(First(m))
      /\ First(m).from \in knows[m] /\ First(m).i = recvCount[m][Slot[First(m).from]]
  BY FirstFits
<1>2. ~Handing(n, m)
  BY NoForeign, HandingIs
<1>3. Len(got[<<n, m>>]) \in Nat
  BY LenProperties DEF TypeOK
<1>4. First(m).i \in Nat
  BY <1>1 DEF Received
<1>5. recvCount[m][Slot[n]] + 0 = Len(got[<<n, m>>])
  BY <1>1, <1>2 DEF Counting, InStep, InStepOf
<1>6. First(m).i = Len(got[<<n, m>>])
  BY <1>1, <1>4, <1>5
<1>7. Carries(n, m, First(m).i, First(m).g, First(m).size) /\ <<n, m, First(m).g>> \in held
  BY <1>1 DEF EntryFits
<1> QED
  BY <1>3, <1>6, <1>7 DEF Carries

LEMMA GotIsSentStep ==
  ASSUME TypeOK, TypeOK', Meeting, Storing, Calling, Counting, [Next]_vars
  PROVE  GotIsSent'
<1>1. ASSUME NEW n \in Nodes, NEW m \in Nodes, n # m, <<n, m>> \notin skewed'
      PROVE  /\ Len(got'[<<n, m>>]) <= Len(sent'[<<n, m>>])
             /\ \A j \in 1..Len(got'[<<n, m>>]) :
                  got'[<<n, m>>][j] = sent'[<<n, m>>][j] /\ <<n, m, got'[<<n, m>>][j].g>> \in held'
  <2>1. <<n, m>> \notin skewed /\ held \subseteq held'
    BY <1>1, HeldGrows
  <2>2. PICK p : p = got[<<n, m>>]
    OBVIOUS
  <2>3. PICK q : q = sent[<<n, m>>]
    OBVIOUS
  <2>4. PICK r : r = sent'[<<n, m>>]
    OBVIOUS
  <2>5. /\ Len(q) \in Nat /\ Len(r) \in Nat /\ Len(q) <= Len(r)
        /\ \A j \in 1..Len(q) : r[j] = q[j]
    BY <2>3, <2>4, SentGrows
  <2>6. p \in Seq(Message) /\ Len(p) \in Nat
    BY <2>2, LenProperties DEF TypeOK
  <2>7. /\ Len(p) <= Len(q)
        /\ \A j \in 1..Len(p) : p[j] = q[j] /\ <<n, m, p[j].g>> \in held
    BY <1>1, <2>1, <2>2, <2>3 DEF Counting, GotIsSent
  <2>8. \A j \in 1..Len(p) : p[j] = r[j] /\ <<n, m, p[j].g>> \in held'
    BY <2>1, <2>5, <2>6, <2>7
  <2>9. Len(p) <= Len(r)
    BY <2>5, <2>6, <2>7
  <2>10. ASSUME Ready(m, received[m]) # {}, ~InGame(m, "listen"), First(m).from = n,
                got'[<<n, m>>] = Append(p, [g |-> First(m).g, size |-> First(m).size])
         PROVE  /\ Len(got'[<<n, m>>]) <= Len(r)
                /\ \A j \in 1..Len(got'[<<n, m>>]) :
                     got'[<<n, m>>][j] = r[j] /\ <<n, m, got'[<<n, m>>][j].g>> \in held'
    <3>1. PICK z : z = [g |-> First(m).g, size |-> First(m).size]
      OBVIOUS
    <3>2. Len(p) < Len(q) /\ z = q[Len(p) + 1] /\ <<n, m, z.g>> \in held
      <4>1. /\ Len(p) < Len(q) /\ z = q[Len(p) + 1] /\ <<n, m, First(m).g>> \in held
        BY <1>1, <2>1, <2>2, <2>3, <2>10, <3>1, FirstIsNext
      <4>2. z.g = First(m).g
        BY <3>1
      <4> QED
        BY <4>1, <4>2
    <3>3. PICK s : s = Append(p, z)
      OBVIOUS
    <3>4. Len(s) = Len(p) + 1 /\ s[Len(p) + 1] = z /\ \A j \in 1..Len(p) : s[j] = p[j]
      <4>1. p \in Seq(Message \cup {z}) /\ z \in Message \cup {z}
        BY <2>6
      <4> QED
        BY <3>3, <4>1, AppendProperties
    <3>5. Len(s) <= Len(r)
      BY <2>5, <2>6, <3>2, <3>4
    <3>6. ASSUME NEW j \in 1..Len(s) PROVE s[j] = r[j] /\ <<n, m, s[j].g>> \in held'
      <4>1. CASE j \in 1..Len(p)
        BY <2>8, <3>4, <4>1
      <4>2. CASE j = Len(p) + 1
        BY <2>1, <2>5, <2>6, <3>2, <3>4, <4>2
      <4> QED
        BY <2>6, <3>4, <4>1, <4>2
    <3> QED
      BY <2>10, <3>1, <3>3, <3>5, <3>6
  <2> QED
    BY <2>2, <2>4, <2>8, <2>9, <2>10, GotIs
<1> QED
  BY <1>1 DEF GotIsSent

\* A regrouping or the end of the session changes who knows whom, and only a
\* regrouping or a message handed over what is counted.
LEMMA KnowsIs ==
  ASSUME TypeOK, Meeting, [Next]_vars
  PROVE  \/ knows' = knows
         \/ \E x, y \in Nodes : Regroups(x, y)
         \/ \E c \in Clients : knows' = [knows EXCEPT ![c] = {}] /\ recvCount' = recvCount
<1>1. ASSUME UNCHANGED vars PROVE knows' = knows
  BY <1>1 DEF vars, members
<1>2. ASSUME NEW c, EndSession(c) PROVE knows' = [knows EXCEPT ![c] = {}] /\ recvCount' = recvCount
  BY <1>2 DEF EndSession
<1>3. ASSUME NEW x, SendData(x) PROVE knows' = knows
  BY <1>3 DEF SendData, members
<1>4. ASSUME NEW x, NEW out, Pass(x, out) PROVE knows' = knows
  BY <1>4 DEF Pass, members
<1>5. ASSUME NEW x, NEW d, ReceiveData(x, d) PROVE knows' = knows
  BY <1>5 DEF ReceiveData, members
<1>6. ASSUME NEW x, NEW a, ReceiveProgress(x, a) PROVE knows' = knows
  BY <1>6 DEF ReceiveProgress, members
<1>7. ASSUME NEW x, HandOver(x) PROVE knows' = knows
  BY <1>7 DEF HandOver, members
<1>8. ASSUME NEW e \in calls, Told(e) \/ HandedOver(e) PROVE knows' = knows
  BY <1>8, ToldIs, HandedOverIs
<1> QED
  BY <1>1, <1>2, <1>3, <1>4, <1>5, <1>6, <1>7, <1>8, Steps

LEMMA RecvCountIs ==
  ASSUME TypeOK, Meeting, [Next]_vars
  PROVE  \/ recvCount' = recvCount
         \/ \E x, y \in Nodes : Regroups(x, y)
         \/ \E e \in Foreign :
              /\ HandedOver(e)
              /\ recvCount' = [recvCount EXCEPT ![e.by][Slot[e.from]] = @ + 1]
<1>1. ASSUME UNCHANGED vars PROVE recvCount' = recvCount
  BY <1>1 DEF vars
<1>2. ASSUME NEW c, EndSession(c) PROVE recvCount' = recvCount
  BY <1>2 DEF EndSession
<1>3. ASSUME NEW x, SendData(x) PROVE recvCount' = recvCount
  BY <1>3 DEF SendData
<1>4. ASSUME NEW x, NEW out, Pass(x, out) PROVE recvCount' = recvCount
  BY <1>4 DEF Pass
<1>5. ASSUME NEW x, NEW d, ReceiveData(x, d) PROVE recvCount' = recvCount
  BY <1>5 DEF ReceiveData
<1>6. ASSUME NEW x, NEW a, ReceiveProgress(x, a) PROVE recvCount' = recvCount
  BY <1>6 DEF ReceiveProgress
<1>7. ASSUME NEW x, HandOver(x) PROVE recvCount' = recvCount
  BY <1>7 DEF HandOver
<1>8. ASSUME NEW e \in calls, Told(e) PROVE recvCount' = recvCount
  BY <1>8, ToldIs
<1>9. ASSUME NEW e \in calls, HandedOver(e)
      PROVE  /\ e \in Foreign
             /\ recvCount' = recvCount
                \/ recvCount' = [recvCount EXCEPT ![e.by][Slot[e.from]] = @ + 1]
  BY <1>9, HandedOverIs DEF Foreign
<1> QED
  BY <1>1, <1>2, <1>3, <1>4, <1>5, <1>6, <1>7, <1>8, <1>9, Steps

\* How m's count of n may change.
LEMMA CountOf ==
  ASSUME TypeOK, TypeOK', Meeting, [Next]_vars, NEW n \in Nodes, NEW m \in Nodes, n # m,
         n \in knows'[m]
  PROVE  \/ Unmet(m, n) /\ recvCount'[m][Slot[n]] = 0
         \/ n \in knows[m] /\ recvCount'[m][Slot[n]] = recvCount[m][Slot[n]]
         \/ /\ n \in knows[m] /\ recvCount'[m][Slot[n]] = recvCount[m][Slot[n]] + 1
            /\ \E e \in Foreign : HandedOver(e) /\ e.by = m /\ Slot[e.from] = Slot[n]
<1>1. Slot[n] \in Slots
  BY DEF Slots
<1>2. ASSUME NEW x \in Nodes, NEW y \in Nodes, Regroups(x, y)
      PROVE  \/ Unmet(m, n) /\ recvCount'[m][Slot[n]] = 0
             \/ n \in knows[m] /\ recvCount'[m][Slot[n]] = recvCount[m][Slot[n]]
  <2>1. /\ \A q \in knows[x] \ {y} : Slot[q] # Slot[y]
        /\ knows'[x] \ {y} = knows[x] \ {y}
        /\ y \in knows'[x] => Unmet(x, y)
        /\ \A z \in Nodes \ {x} : knows'[z] = knows[z] \/ (z \in waiting /\ knows'[z] = {z})
        /\ recvCount' = Restarted(recvCount, x, y)
    BY <1>2 DEF Regroups
  <2>2. recvCount'[m][Slot[n]] = IF m = x /\ Slot[n] = Slot[y] THEN 0 ELSE recvCount[m][Slot[n]]
    <3>1. recvCount \in [Nodes -> [Slots -> Nat]]
      BY DEF TypeOK
    <3>2. \A z \in Nodes : \A s \in Slots :
            Restarted(recvCount, x, y)[z][s] = IF z = x /\ s = Slot[y] THEN 0 ELSE recvCount[z][s]
      BY <3>1, RestartedIs
    <3>3. recvCount'[m][Slot[n]] = Restarted(recvCount, x, y)[m][Slot[n]]
      BY <2>1
    <3> QED
      BY <1>1, <3>2, <3>3
  <2>3. CASE m = x /\ n = y
    BY <2>1, <2>2, <2>3
  <2>4. CASE m = x /\ n # y
    BY <2>1, <2>2, <2>4
  <2>5. CASE m # x
    BY <2>1, <2>2, <2>5
  <2> QED
    BY <2>3, <2>4, <2>5
<1>3. n \in knows[m] \/ \E x, y \in Nodes : Regroups(x, y)
  <2>1. ASSUME NEW c, knows' = [knows EXCEPT ![c] = {}] PROVE n \in knows[m]
    BY <2>1 DEF TypeOK
  <2> QED
    BY <2>1, KnowsIs
<1>4. ASSUME NEW e \in Foreign, HandedOver(e),
             recvCount' = [recvCount EXCEPT ![e.by][Slot[e.from]] = @ + 1]
      PROVE  \/ recvCount'[m][Slot[n]] = recvCount[m][Slot[n]]
             \/ /\ recvCount'[m][Slot[n]] = recvCount[m][Slot[n]] + 1
                /\ e.by = m /\ Slot[e.from] = Slot[n]
  <2>1. e.by \in Nodes /\ Slot[e.from] \in Slots
    BY DEF Foreign, TypeOK, Call, Slots
  <2>2. PICK x \in Nodes : x = e.by
    BY <2>1
  <2>3. PICK t \in Slots : t = Slot[e.from]
    BY <2>1
  <2>4. recvCount \in [Nodes -> [Slots -> Nat]]
    BY DEF TypeOK
  <2>5. \A z \in Nodes : \A s \in Slots :
          [recvCount EXCEPT ![x][t] = @ + 1][z][s] =
            IF z = x /\ s = t THEN recvCount[z][s] + 1 ELSE recvCount[z][s]
    BY <2>4, OneUp
  <2>6. recvCount' = [recvCount EXCEPT ![x][t] = @ + 1]
    BY <1>4, <2>2, <2>3
  <2>7. recvCount'[m][Slot[n]] =
          IF m = x /\ Slot[n] = t THEN recvCount[m][Slot[n]] + 1 ELSE recvCount[m][Slot[n]]
    BY <1>1, <2>5, <2>6
  <2> QED
    BY <2>2, <2>3, <2>7
<1> QED
  BY <1>2, <1>3, <1>4, RecvCountIs

\* Every stored message was stored, or is not below the count.
LEMMA EntriesAbove ==
  ASSUME TypeOK, Meeting, Storing, DataFits, [Next]_vars, NEW m \in Nodes,
         NEW k \in DOMAIN received'[m]
  PROVE  \/ \E j \in DOMAIN received[m] : received'[m][k] = received[m][j]
         \/ /\ received'[m][k].from \in knows[m]
            /\ ~(received'[m][k].i < recvCount[m][Slot[received'[m][k].from]])
<1>1. received[m] \in Seq(Received) /\ Len(received[m]) \in Nat /\ DOMAIN received[m] = 1..Len(received[m])
  BY LenProperties DEF TypeOK
<1>2. ASSUME NEW j \in DOMAIN received[m], received'[m] = RemoveAt(received[m], j)
      PROVE  \E p \in DOMAIN received[m] : received'[m][k] = received[m][p]
  <2>1. PICK q : q = received[m]
    OBVIOUS
  <2>2. q \in Seq(Received) /\ j \in DOMAIN q
    BY <1>1, <1>2, <2>1
  <2>3. \E f \in [DOMAIN RemoveAt(q, j) -> DOMAIN q \ {j}] :
          /\ \A x, y \in DOMAIN RemoveAt(q, j) : f[x] = f[y] => x = y
          /\ \A x \in DOMAIN RemoveAt(q, j) : RemoveAt(q, j)[x] = q[f[x]]
    BY <2>2, RemovedFrom
  <2>4. received'[m] = RemoveAt(q, j)
    BY <1>2, <2>1
  <2> QED
    BY <2>1, <2>3, <2>4
<1>3. ASSUME NEW d \in data, d.from \in knows[m], ~Old(m, d), received'[m] = Append(received[m], NewEntry(d))
      PROVE  \/ \E j \in DOMAIN received[m] : received'[m][k] = received[m][j]
             \/ /\ received'[m][k].from \in knows[m]
                /\ ~(received'[m][k].i < recvCount[m][Slot[received'[m][k].from]])
  <2>1. PICK z : z = NewEntry(d)
    OBVIOUS
  <2>2. z.from = d.from /\ z.i = d.i
    BY <2>1 DEF NewEntry
  <2>3. received'[m][k] = z \/ (k \in DOMAIN received[m] /\ received'[m][k] = received[m][k])
    BY <1>1, <1>3, <2>1
  <2>4. z.from \in knows[m] /\ ~(z.i < recvCount[m][Slot[z.from]])
    BY <1>3, <2>2 DEF Old
  <2> QED
    BY <2>3, <2>4
<1>4. CASE received'[m] = received[m]
  BY <1>4
<1>5. CASE received'[m] = << >>
  BY <1>5
<1> QED
  BY <1>2, <1>3, <1>4, <1>5, ReceivedIs

\* A stored message stays, unless the session ends or one is handed over.
LEMMA EntriesStay ==
  ASSUME TypeOK, Meeting, Storing, DataFits, [Next]_vars, NEW m \in Nodes, knows'[m] # {},
         \A e \in calls : e.by = m => ~HandedOver(e), NEW j \in DOMAIN received[m]
  PROVE  \E k \in DOMAIN received'[m] : received'[m][k] = received[m][j]
<1>1. received[m] \in Seq(Received) /\ Len(received[m]) \in Nat /\ DOMAIN received[m] = 1..Len(received[m])
  BY LenProperties DEF TypeOK
<1>2. CASE received'[m] = received[m]
  BY <1>2
<1>3. ASSUME NEW d \in data, received'[m] = Append(received[m], NewEntry(d))
      PROVE  \E k \in DOMAIN received'[m] : received'[m][k] = received[m][j]
  <2>1. PICK z : z = NewEntry(d)
    OBVIOUS
  <2>2. j \in DOMAIN Append(received[m], z) /\ Append(received[m], z)[j] = received[m][j]
    BY <1>1
  <2> QED
    BY <1>3, <2>1, <2>2
<1> QED
  BY <1>2, <1>3, ReceivedIs

\* The number of a message says its place.
LEMMA SamePlace ==
  ASSUME TypeOK, Ascending, NEW n \in Nodes, NEW m \in Nodes, NEW i \in Nat, NEW j \in Nat,
         NEW g, NEW size1, NEW size2, Carries(n, m, i, g, size1), Carries(n, m, j, g, size2)
  PROVE  i = j
<1>1. PICK s : s = sent[<<n, m>>]
  OBVIOUS
<1>2. s \in Seq(Message) /\ Len(s) \in Nat
  BY <1>1, LenProperties DEF TypeOK
<1>3. i + 1 \in 1..Len(s) /\ j + 1 \in 1..Len(s) /\ s[i + 1].g = g /\ s[j + 1].g = g
  BY <1>1, <1>2 DEF Carries
<1>4. \A p \in 1..Len(s) : s[p].g \in Nat
  <2>1. ASSUME NEW p \in 1..Len(s) PROVE s[p] \in Message
    BY <1>2, ElementOfSeq
  <2>2. \A z \in Message : z.g \in Nat
    BY DEF Message, Numbers
  <2> QED
    BY <2>1, <2>2
<1>5. \A p \in 1..Len(s) : \A q \in 1..p - 1 : s[q].g < s[p].g
  BY <1>1 DEF Ascending
<1>6. ~(i < j)
  <2>1. i < j => i + 1 \in 1..(j + 1) - 1
    OBVIOUS
  <2> QED
    BY <1>3, <1>4, <1>5, <2>1
<1>7. ~(j < i)
  <2>1. j < i => j + 1 \in 1..(i + 1) - 1
    OBVIOUS
  <2> QED
    BY <1>3, <1>4, <1>5, <2>1
<1> QED
  BY <1>6, <1>7

LEMMA CountNat ==
  ASSUME TypeOK, NEW n \in Nodes, NEW m \in Nodes
  PROVE  Slot[n] \in Slots /\ recvCount[m][Slot[n]] \in Nat /\ sendCount[m][Slot[n]] \in Nat
<1>1. Slot[n] \in Slots
  BY DEF Slots
<1>2. /\ recvCount \in [Nodes -> [Slots -> Nat]]
      /\ sendCount \in [Nodes -> [Slots -> Nat]]
  BY DEF TypeOK
<1> QED
  BY <1>1, <1>2

\* m does not know who it has not met: nothing of it is counted, stored or in the game.
LEMMA UnmetInStep ==
  ASSUME TypeOK, TypeOK', Meeting, Storing, DataFits, Quiet, [Next]_vars, NEW n \in Nodes,
         NEW m \in Nodes, n # m, Unmet(m, n), recvCount'[m][Slot[n]] = 0
  PROVE  InStepOf(n, m)'
<1>1. n \notin knows[m] /\ got[<<n, m>>] = << >>
  BY DEF Meeting, Quiet
<1>2. \A k \in DOMAIN received[m] : received[m][k].from # n
  BY DEF Quiet
<1>3. \A e \in Foreign : ~(e.by = m /\ e.from = n)
  BY DEF Quiet, Foreign
<1>4. Ready(m, received[m]) # {} => First(m).from # n
  BY <1>1, FirstFits
<1>5. got'[<<n, m>>] = << >>
  BY <1>1, <1>4, GotIs
<1>6. ~Handing(n, m)'
  <2>1. ASSUME NEW e \in Foreign', e.by = m, e.from = n PROVE FALSE
    <3>1. e \notin Foreign
      BY <1>3, <2>1
    <3>2. PICK x \in Nodes : Ready(x, received[x]) # {} /\ e = FirstCall(x)
      BY <2>1, <3>1, ForeignIs
    <3>3. x = m /\ First(x).from = n
      BY <2>1, <3>2 DEF FirstCall
    <3> QED
      BY <1>4, <3>2, <3>3
  <2> QED
    BY <2>1, HandingIs
<1>7. \A k \in DOMAIN received'[m] : received'[m][k].from # n
  BY <1>1, <1>2, EntriesAbove
<1>8. Len(got'[<<n, m>>]) = 0
  BY <1>5, EmptySeq
<1>9. recvCount'[m][Slot[n]] + (IF Handing(n, m)' THEN 1 ELSE 0) = Len(got'[<<n, m>>])
  BY <1>6, <1>8
<1> QED
  BY <1>7, <1>9 DEF InStepOf

\* Stored messages stay above a count that has not changed.
LEMMA StillAbove ==
  ASSUME TypeOK, TypeOK', Meeting, Storing, DataFits, [Next]_vars, NEW n \in Nodes, NEW m \in Nodes,
         InStepOf(n, m), recvCount'[m][Slot[n]] = recvCount[m][Slot[n]]
  PROVE  \A k \in DOMAIN received'[m] : received'[m][k].from = n => recvCount'[m][Slot[n]] <= received'[m][k].i
<1>1. ASSUME NEW k \in DOMAIN received'[m], received'[m][k].from = n
      PROVE  recvCount[m][Slot[n]] <= received'[m][k].i
  <2>1. PICK z : z = received'[m][k]
    OBVIOUS
  <2>2. z \in Received
    <3>1. received'[m] \in Seq(Received)
      BY DEF TypeOK
    <3> QED
      BY <1>1, <2>1, <3>1, ElementOfSeq
  <2>3. z.i \in Nat /\ z.from = n
    BY <1>1, <2>1, <2>2 DEF Received
  <2>4. recvCount[m][Slot[n]] \in Nat
    BY CountNat
  <2>5. \/ \E j \in DOMAIN received[m] : z = received[m][j]
        \/ ~(z.i < recvCount[m][Slot[z.from]])
    BY <2>1, EntriesAbove
  <2>6. CASE ~(z.i < recvCount[m][Slot[z.from]])
    BY <2>1, <2>3, <2>4, <2>6
  <2>7. ASSUME NEW j \in DOMAIN received[m], z = received[m][j] PROVE recvCount[m][Slot[n]] <= z.i
    BY <2>3, <2>7 DEF InStepOf
  <2> QED
    BY <2>1, <2>5, <2>6, <2>7
<1> QED
  BY <1>1

\* The message that comes back from the game is the next to be counted: the other ones
\* of its sender are above it.
LEMMA CountedInStep ==
  ASSUME TypeOK, TypeOK', Meeting, Storing, Ascending, Calling, Counting, NEW e \in Foreign,
         HandedOver(e), e.from \in knows[e.by], <<e.from, e.by>> \notin skewed
  PROVE  InStepOf(e.from, e.by)'
<1>1. PICK n \in Nodes : n = e.from
  BY DEF Foreign, TypeOK, Call
<1>2. PICK m \in Nodes : m = e.by
  BY DEF Foreign, TypeOK, Call
<1>3. n # m /\ Slot[n] \in Slots
  BY <1>1, <1>2 DEF Foreign, Slots
<1>4. Handing(n, m) /\ InStepOf(n, m) /\ Holding(e)
  BY <1>1, <1>2, <1>3, HandingIs DEF Counting, InStep, BeingHanded
<1>5. PICK q : q = received[m]
  OBVIOUS
<1>6. PICK c : c = recvCount[m][Slot[n]]
  OBVIOUS
<1>7. /\ q \in Seq(Received) /\ Len(q) \in Nat /\ DOMAIN q = 1..Len(q) /\ c \in Nat
      /\ \A k \in DOMAIN q : q[k] \in Received /\ EntryFits(m, q[k])
  <2>1. q \in Seq(Received) /\ c \in Nat
    BY <1>5, <1>6, CountNat DEF TypeOK
  <2>2. \A k \in DOMAIN q : EntryFits(m, q[k])
    BY <1>5 DEF Storing
  <2> QED
    BY <2>1, <2>2, LenProperties, ElementOfSeq
<1>8. PICK j \in DOMAIN q : q[j].from = n /\ q[j].g = e.g /\ q[j].i = c
  BY <1>1, <1>2, <1>4, <1>5, <1>6 DEF Holding
<1>9. \A k \in DOMAIN q : q[k].from = n => c <= q[k].i
  BY <1>4, <1>5, <1>6 DEF InStepOf
<1>10. \A i, k \in DOMAIN q : (q[i].from = q[k].from /\ q[i].i = q[k].i) => i = k
  BY <1>5 DEF Storing
<1>11. e \in calls
  BY DEF Foreign
<1>12. PICK k \in DOMAIN q :
         /\ q[k].from = n /\ q[k].g = e.g
         /\ received' = [received EXCEPT ![m] = RemoveAt(@, k)]
         /\ recvCount' = [recvCount EXCEPT ![m][Slot[n]] = @ + 1]
  BY <1>1, <1>2, <1>5, <1>8, <1>11, HandedOverIs
<1>13. k = j
  <2>1. /\ Carries(n, m, q[k].i, e.g, q[k].size) /\ Carries(n, m, q[j].i, e.g, q[j].size)
        /\ q[k].i \in Nat /\ q[j].i \in Nat
    BY <1>7, <1>8, <1>12 DEF EntryFits, Received
  <2>2. q[k].i = q[j].i
    BY <2>1, SamePlace
  <2> QED
    BY <1>8, <1>10, <1>12, <2>2
<1>14. recvCount'[m][Slot[n]] = c + 1
  <2>1. recvCount \in [Nodes -> [Slots -> Nat]]
    BY DEF TypeOK
  <2> QED
    BY <1>3, <1>6, <1>12, <2>1
<1>15. ~Handing(n, m)'
  <2>1. calls' = calls \ {e}
    BY <1>11, HandedOverIs
  <2>2. Foreign' = Foreign \ {e}
    BY <2>1 DEF Foreign
  <2> QED
    BY <1>2, <1>3, <2>2, HandingIs, OneForeign
<1>16. got' = got
  BY <1>11, HandedOverIs
<1>17. c + 1 = Len(got[<<n, m>>])
  BY <1>4, <1>6 DEF InStepOf
<1>18. received'[m] = RemoveAt(q, k)
  BY <1>5, <1>12 DEF TypeOK
<1>19. ASSUME NEW i \in DOMAIN received'[m], received'[m][i].from = n
       PROVE  c + 1 <= received'[m][i].i
  <2>1. \E f \in [DOMAIN RemoveAt(q, k) -> DOMAIN q \ {k}] :
          /\ \A x, y \in DOMAIN RemoveAt(q, k) : f[x] = f[y] => x = y
          /\ \A x \in DOMAIN RemoveAt(q, k) : RemoveAt(q, k)[x] = q[f[x]]
    BY <1>7, RemovedFrom
  <2>2. PICK p \in DOMAIN q \ {k} : received'[m][i] = q[p]
    BY <1>18, <1>19, <2>1
  <2>3. q[p].from = n /\ q[p].i \in Nat /\ c <= q[p].i
    BY <1>7, <1>9, <1>19, <2>2 DEF Received
  <2>4. q[p].i # c
    BY <1>8, <1>10, <1>13, <2>2, <2>3
  <2> QED
    BY <1>7, <2>2, <2>3, <2>4
<1>20. recvCount'[m][Slot[n]] + (IF Handing(n, m)' THEN 1 ELSE 0) = Len(got'[<<n, m>>])
  BY <1>14, <1>15, <1>16, <1>17, <1>7
<1> QED
  BY <1>1, <1>2, <1>14, <1>19, <1>20 DEF InStepOf

\* What m has of n and what the game is in the middle of, when the count stays.
LEMMA HandedInStep ==
  ASSUME TypeOK, TypeOK', Meeting, Storing, DataFits, Calling, Counting, [Next]_vars,
         NEW n \in Nodes, NEW m \in Nodes, n # m, n \in knows[m], <<n, m>> \notin skewed,
         recvCount'[m][Slot[n]] = recvCount[m][Slot[n]],
         \A e \in Foreign : HandedOver(e) => ~(e.by = m /\ e.from = n)
  PROVE  InStepOf(n, m)'
<1>1. InStepOf(n, m)
  BY DEF Counting, InStep
<1>2. \A k \in DOMAIN received'[m] : received'[m][k].from = n => recvCount'[m][Slot[n]] <= received'[m][k].i
  BY <1>1, StillAbove
<1>3. Len(got[<<n, m>>]) \in Nat /\ got[<<n, m>>] \in Seq(Message)
  BY LenProperties DEF TypeOK
<1>4. recvCount[m][Slot[n]] + (IF Handing(n, m) THEN 1 ELSE 0) = Len(got[<<n, m>>])
  BY <1>1 DEF InStepOf
<1>5. ASSUME Foreign' = Foreign, got' = got
      PROVE  recvCount'[m][Slot[n]] + (IF Handing(n, m)' THEN 1 ELSE 0) = Len(got'[<<n, m>>])
  <2>1. Handing(n, m)' <=> Handing(n, m)
    BY <1>5, HandingIs
  <2> QED
    BY <1>4, <1>5, <2>1
<1>6. ASSUME NEW e \in Foreign, HandedOver(e), Foreign' = Foreign \ {e}, got' = got
      PROVE  recvCount'[m][Slot[n]] + (IF Handing(n, m)' THEN 1 ELSE 0) = Len(got'[<<n, m>>])
  <2>1. Handing(n, m)' <=> Handing(n, m)
    BY <1>6, HandingIs
  <2> QED
    BY <1>4, <1>6, <2>1
<1>7. ASSUME NEW x \in Nodes, HandOver(x), Ready(x, received[x]) # {}, ~InGame(x, "listen"),
             Foreign' = Foreign \cup {FirstCall(x)},
             got' = [got EXCEPT ![<<First(x).from, x>>] =
                       Append(@, [g |-> First(x).g, size |-> First(x).size])]
      PROVE  recvCount'[m][Slot[n]] + (IF Handing(n, m)' THEN 1 ELSE 0) = Len(got'[<<n, m>>])
  <2>1. FirstCall(x).by = x /\ FirstCall(x).from = First(x).from
    BY DEF FirstCall
  <2>2. CASE x = m /\ First(x).from = n
    <3>1. ~Handing(n, m)
      BY <1>7, <2>2, NoForeign, HandingIs
    <3>2. Handing(n, m)'
      BY <1>7, <2>1, <2>2, HandingIs
    <3>3. PICK z : z = [g |-> First(x).g, size |-> First(x).size]
      OBVIOUS
    <3>4. got'[<<n, m>>] = Append(got[<<n, m>>], z)
      BY <1>7, <2>2, <3>3 DEF TypeOK
    <3>5. Len(Append(got[<<n, m>>], z)) = Len(got[<<n, m>>]) + 1
      BY <1>3
    <3>6. recvCount[m][Slot[n]] \in Nat
      BY CountNat
    <3>7. recvCount[m][Slot[n]] = Len(got[<<n, m>>])
      BY <1>4, <3>1, <3>6
    <3> QED
      BY <1>3, <3>2, <3>4, <3>5, <3>7
  <2>3. CASE ~(x = m /\ First(x).from = n)
    <3>1. Handing(n, m)' <=> Handing(n, m)
      BY <1>7, <2>1, <2>3, HandingIs
    <3>2. PICK z : z = Append(got[<<First(x).from, x>>], [g |-> First(x).g, size |-> First(x).size])
      OBVIOUS
    <3>3. got'[<<n, m>>] = got[<<n, m>>]
      <4>1. got' = [got EXCEPT ![<<First(x).from, x>>] = z]
        BY <1>7, <3>2
      <4>2. <<First(x).from, x>> # <<n, m>>
        BY <2>3
      <4> QED
        BY <4>1, <4>2 DEF TypeOK
    <3> QED
      BY <1>4, <3>1, <3>3
  <2> QED
    BY <2>2, <2>3
<1>8. recvCount'[m][Slot[n]] + (IF Handing(n, m)' THEN 1 ELSE 0) = Len(got'[<<n, m>>])
  BY <1>5, <1>6, <1>7, ForeignIs
<1> QED
  BY <1>2, <1>8 DEF InStepOf

LEMMA InStepStep ==
  ASSUME TypeOK, TypeOK', Meeting, Sending, Storing, Calling, Quiet, Counting, [Next]_vars
  PROVE  InStep'
<1>1. ASSUME NEW n \in Nodes, NEW m \in Nodes, n # m, n \in knows'[m], <<n, m>> \notin skewed'
      PROVE  InStepOf(n, m)'
  <2>1. <<n, m>> \notin skewed
    BY <1>1, HeldGrows
  <2>2. DataFits /\ Ascending
    BY DEF Sending
  <2>3. CASE Unmet(m, n) /\ recvCount'[m][Slot[n]] = 0
    BY <1>1, <2>2, <2>3, UnmetInStep
  <2>4. ASSUME NEW e \in Foreign, HandedOver(e), e.by = m, e.from = n, n \in knows[m]
        PROVE  InStepOf(n, m)'
    <3>1. e.from \in knows[e.by] /\ <<e.from, e.by>> \notin skewed
      BY <2>1, <2>4
    <3>2. InStepOf(e.from, e.by)'
      BY <2>2, <2>4, <3>1, CountedInStep
    <3> QED
      BY <2>4, <3>2
  <2>5. CASE n \in knows[m] /\ recvCount'[m][Slot[n]] = recvCount[m][Slot[n]]
    <3>1. CASE \A e \in Foreign : HandedOver(e) => ~(e.by = m /\ e.from = n)
      BY <1>1, <2>1, <2>2, <2>5, <3>1, HandedInStep
    <3> QED
      BY <2>4, <2>5, <3>1
  <2>6. ASSUME n \in knows[m], recvCount'[m][Slot[n]] = recvCount[m][Slot[n]] + 1,
               NEW e \in Foreign, HandedOver(e), e.by = m, Slot[e.from] = Slot[n]
        PROVE  InStepOf(n, m)'
    <3>1. CASE e.from = n
      BY <2>4, <2>6, <3>1
    <3>2. CASE e.from # n
      <4>1. e \in calls
        BY DEF Foreign
      <4>2. recvCount[m][Slot[n]] \in Nat
        BY CountNat
      <4>3. recvCount' # recvCount
        BY <2>6, <4>2
      <4>4. skewed' = skewed \cup
              {<<p, e.by>> : p \in {q \in knows[e.by] : q # e.from /\ Slot[q] = Slot[e.from]}}
        BY <2>6, <4>1, <4>3, HandedOverIs
      <4>5. <<n, m>> \in skewed'
        BY <2>6, <3>2, <4>4
      <4> QED
        BY <1>1, <4>5
    <3> QED
      BY <3>1, <3>2
  <2> QED
    BY <1>1, <2>3, <2>5, <2>6, CountOf
<1> QED
  BY <1>1 DEF InStep

\* A message in the game stays stored, and the next to be counted.
LEMMA StillHeld ==
  ASSUME TypeOK, TypeOK', Meeting, Storing, DataFits, Quiet, Calling, [Next]_vars,
         NEW e \in Foreign, e \in Foreign', Holding(e), knows'[e.by] # {}
  PROVE  Holding(e)'
<1>1. e.by \in Nodes /\ e.from \in Nodes /\ e.from # e.by /\ e \in calls /\ e \in calls'
  BY DEF Foreign, TypeOK, Call
<1>2. PICK m \in Nodes : m = e.by
  BY <1>1
<1>3. PICK n \in Nodes : n = e.from
  BY <1>1
<1>4. PICK j \in DOMAIN received[m] :
        /\ received[m][j].from = n /\ received[m][j].g = e.g
        /\ (n \in knows[m] /\ <<n, m>> \notin skewed) => received[m][j].i = recvCount[m][Slot[n]]
  BY <1>2, <1>3 DEF Holding
<1>5. ASSUME NEW c \in calls, c.by = m, HandedOver(c) PROVE FALSE
  <2>1. c \in Foreign /\ calls' = calls \ {c}
    BY <1>5, HandedOverIs DEF Foreign
  <2>2. c = e
    BY <1>2, <1>5, <2>1, OneForeign
  <2> QED
    BY <1>1, <2>1, <2>2
<1>6. PICK k \in DOMAIN received'[m] : received'[m][k] = received[m][j]
  BY <1>2, <1>5, EntriesStay
<1>7. ~Unmet(m, n)
  BY <1>1, <1>2, <1>3 DEF Quiet
<1>8. ASSUME n \in knows'[m], <<n, m>> \notin skewed'
      PROVE  received'[m][k].i = recvCount'[m][Slot[n]]
  <2>1. <<n, m>> \notin skewed
    BY <1>8, HeldGrows
  <2>2. \A c \in Foreign : ~(HandedOver(c) /\ c.by = m)
    BY <1>5 DEF Foreign
  <2>3. n \in knows[m] /\ recvCount'[m][Slot[n]] = recvCount[m][Slot[n]]
    BY <1>1, <1>2, <1>3, <1>7, <1>8, <2>2, CountOf
  <2> QED
    BY <1>4, <1>6, <2>1, <2>3
<1> QED
  BY <1>2, <1>3, <1>4, <1>6, <1>8 DEF Holding

\* Who has no session hands nothing over again.
LEMMA OutStays ==
  ASSUME TypeOK, Meeting, Quiet, [Next]_vars, NEW e \in Foreign, knows[e.by] = {}
  PROVE  knows'[e.by] = {}
<1>1. e.by \in Nodes /\ e.from \in Nodes /\ e.from # e.by /\ e \in calls
  BY DEF Foreign, TypeOK, Call
<1>2. e.by \notin waiting
  BY <1>1 DEF Quiet, Unmet
<1>3. ASSUME NEW x \in Nodes, NEW y \in Nodes, Regroups(x, y) PROVE knows'[e.by] = {}
  BY <1>1, <1>2, <1>3 DEF Regroups
<1>4. ASSUME NEW c \in Clients, knows' = [knows EXCEPT ![c] = {}] PROVE knows'[e.by] = {}
  BY <1>1, <1>4 DEF TypeOK
<1> QED
  BY <1>3, <1>4, KnowsIs

LEMMA BeingHandedStep ==
  ASSUME TypeOK, TypeOK', Meeting, Storing, DataFits, Quiet, Calling, Counting, [Next]_vars
  PROVE  BeingHanded'
<1>1. ASSUME NEW e \in Foreign', e \in Foreign PROVE knows'[e.by] = {} \/ Holding(e)'
  <2>1. knows[e.by] = {} \/ Holding(e)
    BY <1>1 DEF Counting, BeingHanded
  <2> QED
    BY <1>1, <2>1, OutStays, StillHeld
<1>2. ASSUME NEW e \in Foreign', e \notin Foreign PROVE Holding(e)'
  <2>1. PICK m \in Nodes :
          HandOver(m) /\ Ready(m, received[m]) # {} /\ e = FirstCall(m)
    BY <1>2, ForeignIs
  <2>2. PICK k : k = Min(Ready(m, received[m]))
    OBVIOUS
  <2>3. PICK x : x = First(m)
    OBVIOUS
  <2>4. /\ k \in DOMAIN received[m] /\ received[m][k] = x
        /\ x.i = recvCount[m][Slot[x.from]]
    BY <2>1, <2>2, <2>3, FirstFits DEF First
  <2>5. e.by = m /\ e.from = x.from /\ e.g = x.g
    BY <2>1, <2>3 DEF FirstCall
  <2>6. received' = received /\ recvCount' = recvCount
    BY <2>1, HandOverIs
  <2>7. /\ received'[m][k].from = x.from /\ received'[m][k].g = x.g
        /\ received'[m][k].i = recvCount'[m][Slot[x.from]] /\ k \in DOMAIN received'[m]
    BY <2>4, <2>6
  <2> QED
    BY <2>5, <2>7 DEF Holding
<1> QED
  BY <1>1, <1>2 DEF BeingHanded, Foreign

LEMMA CountingStep ==
  ASSUME TypeOK, TypeOK', Meeting, Sending, Storing, Calling, Quiet, Counting, [Next]_vars
  PROVE  Counting'
BY GotIsSentStep, InStepStep, BeingHandedStep DEF Counting, Sending

-----------------------------------------------------------------------------
(* The order of messages. *)

CountInv == TypeOK /\ Meeting /\ Sending /\ Storing /\ Calling /\ Quiet /\ Counting

LEMMA CountInvInit == Init => CountInv
  BY TypeInit, MeetingInit, SendingInit, StoringInit, CallingInit, QuietInit, CountingInit DEF CountInv

LEMMA CountInvStep ==
  ASSUME CountInv, [Next]_vars
  PROVE  CountInv'
<1>1. TypeOK /\ Meeting /\ Sending /\ Storing /\ Calling /\ Quiet /\ Counting /\ DataFits
  BY DEF CountInv, Sending
<1>2. TypeOK'
  BY <1>1, TypeStep
<1>3. Meeting' /\ Sending'
  BY <1>1, <1>2, MeetingStep, SendingStep
<1>4. Storing' /\ Calling'
  BY <1>1, <1>2, StoringStep, CallingStep
<1>5. Quiet' /\ Counting'
  BY <1>1, <1>2, QuietStep, CountingStep
<1> QED
  BY <1>2, <1>3, <1>4, <1>5 DEF CountInv

\* The counts of sender and receiver stay in step over joins, leaves and resends: a
\* player has handed over exactly the first recvCount messages of another one's
\* count, and no stored message is below it (handlePacket_D_locked).
THEOREM CountsInStep == Spec => []CountsAgree
<1>1. CountInv => CountsAgree
  <2> SUFFICES ASSUME CountInv, NEW n \in Nodes, NEW m \in Nodes, m # n, n \in knows[m], m \in knows[n],
                      <<n, m>> \notin skewed
               PROVE  /\ sendCount[n][Slot[m]] = Len(sent[<<n, m>>])
                      /\ recvCount[m][Slot[n]] + (IF Handing(n, m) THEN 1 ELSE 0) = Len(got[<<n, m>>])
                      /\ Len(got[<<n, m>>]) <= Len(sent[<<n, m>>])
                      /\ \A x \in ToSet(received[m]) : x.from = n =>
                           /\ recvCount[m][Slot[n]] <= x.i /\ x.i < sendCount[n][Slot[m]]
                           /\ sent[<<n, m>>][x.i + 1].g = x.g
    BY DEF CountsAgree
  <2>1. sendCount[n][Slot[m]] = Len(sent[<<n, m>>])
    BY DEF CountInv, Sending, CountsSent
  <2>2. InStepOf(n, m) /\ Len(got[<<n, m>>]) <= Len(sent[<<n, m>>])
    BY DEF CountInv, Counting, InStep, GotIsSent
  <2>3. ASSUME NEW k \in DOMAIN received[m], received[m][k].from = n
        PROVE  /\ recvCount[m][Slot[n]] <= received[m][k].i /\ received[m][k].i < sendCount[n][Slot[m]]
               /\ sent[<<n, m>>][received[m][k].i + 1].g = received[m][k].g
    <3>1. Carries(n, m, received[m][k].i, received[m][k].g, received[m][k].size)
      BY <2>3 DEF CountInv, Storing, EntryFits
    <3>2. recvCount[m][Slot[n]] <= received[m][k].i
      BY <2>2, <2>3 DEF InStepOf
    <3> QED
      BY <2>1, <3>1, <3>2 DEF Carries
  <2> QED
    BY <2>1, <2>2, <2>3 DEF InStepOf, ToSet
<1> QED
  BY CountInvInit, CountInvStep, <1>1, PTL DEF Spec

\* What a step appends to what n sent m.
LEMMA SentIs ==
  ASSUME TypeOK, Meeting, [Next]_vars, NEW n \in Nodes, NEW m \in Nodes
  PROVE  \/ sent'[<<n, m>>] = sent[<<n, m>>]
         \/ got' = got /\ \E msg \in Message : sent'[<<n, m>>] = Append(sent[<<n, m>>], msg)
<1>1. CASE \A x \in Nodes : ~SendData(x)
  BY <1>1, SentStays
<1>2. ASSUME NEW x \in Nodes, SendData(x)
      PROVE  \/ sent'[<<n, m>>] = sent[<<n, m>>]
             \/ got' = got /\ \E msg \in Message : sent'[<<n, m>>] = Append(sent[<<n, m>>], msg)
  <2>1. PICK to \in SUBSET Nodes, size \in Sizes : SendTo(x, to, size)
    BY <1>2, SentTo
  <2>2. got' = got /\ scheduled[x] < MaxSends
    BY <1>2 DEF SendData
  <2>3. CASE x # n \/ m \notin to
    BY <2>1, <2>3, SentToNone
  <2>4. CASE x = n /\ m \in to
    <3>1. [g |-> scheduled[n], size |-> size] \in Message
      BY <2>2, <2>4, NewHeaderType
    <3>2. m \in to
      BY <2>4
    <3>3. SendTo(n, to, size)
      BY <2>1, <2>4
    <3>4. sent'[<<n, m>>] = Append(sent[<<n, m>>], [g |-> scheduled[n], size |-> size])
      BY <3>2, <3>3, SentToOneIs
    <3> QED
      BY <2>2, <3>1, <3>4
  <2> QED
    BY <2>3, <2>4
<1> QED
  BY <1>1, <1>2

LEMMA OrderedStep ==
  ASSUME CountInv, CountInv', [Next]_vars
  PROVE  Ordered!Next
<1>1. /\ TypeOK /\ TypeOK' /\ Meeting /\ Sending /\ Storing /\ Calling /\ Counting /\ Quiet
  BY DEF CountInv
<1>2. /\ sent' = [r \in Nodes \X Nodes |-> sent'[r]]
      /\ got' = [r \in Nodes \X Nodes |-> got'[r]]
  BY <1>1 DEF TypeOK
<1>3. skewed \subseteq skewed'
  BY <1>1, HeldGrows
<1>4. ASSUME NEW n \in Nodes, NEW m \in Nodes PROVE Ordered!Step(<<n, m>>)
  <2>1. PICK r \in Nodes \X Nodes : r = <<n, m>>
    OBVIOUS
  <2>2. Ordered!StaysBroken(r)
    BY <1>3 DEF Ordered!StaysBroken
  <2>3. CASE got'[r] = got[r] /\ sent'[r] = sent[r]
    BY <2>1, <2>2, <2>3 DEF Ordered!Step, Ordered!Rests
  <2>4. ASSUME got' = got, NEW msg \in Message, sent'[r] = Append(sent[r], msg)
        PROVE  Ordered!Step(r)
    BY <2>2, <2>4 DEF Ordered!Step, Ordered!Send
  <2>5. ASSUME HandOver(m), Ready(m, received[m]) # {}, ~InGame(m, "listen"), First(m).from = n,
               got'[r] = Append(got[r], [g |-> First(m).g, size |-> First(m).size])
        PROVE  Ordered!Step(r)
    <3>1. n # m
      BY <1>1, <2>5, FirstFits DEF EntryFits, Carries
    <3>2. sent' = sent
      BY <2>5, HandOverIs
    <3>3. CASE r \in skewed
      BY <1>3, <3>2, <3>3 DEF Ordered!Step, Ordered!Misdeliver
    <3>4. CASE r \notin skewed
      <4>1. /\ Len(got[<<n, m>>]) < Len(sent[<<n, m>>])
            /\ [g |-> First(m).g, size |-> First(m).size] = sent[<<n, m>>][Len(got[<<n, m>>]) + 1]
        BY <1>1, <2>1, <2>5, <3>1, <3>4, FirstIsNext
      <4> QED
        BY <2>1, <2>2, <2>5, <3>2, <4>1 DEF Ordered!Step, Ordered!Deliver
    <3> QED
      BY <3>3, <3>4
  <2>6. got'[r] = got[r] \/ sent'[r] = sent[r]
    BY <1>1, <2>1, SentIs
  <2>7. sent'[r] = sent[r] \/ (got' = got /\ \E msg \in Message : sent'[r] = Append(sent[r], msg))
    BY <1>1, <2>1, SentIs
  <2>8. Ordered!Step(r)
    BY <1>1, <2>1, <2>3, <2>4, <2>5, <2>6, <2>7, GotIs
  <2> QED
    BY <2>1, <2>8
<1>5. \A r \in Nodes \X Nodes : Ordered!Step(r)
  BY <1>4
<1> QED
  BY <1>2, <1>5 DEF Ordered!Next

\* Between every two players the messages handed over are an ordered delivery
\* (OrderedDelivery) of those sent, each at most once, however packets are lost,
\* repeated or overtake each other (handlePacket_D_locked).
THEOREM Implements == Spec => ImplementsOrderedDelivery
<1>1. Init => Ordered!Init
  <2> SUFFICES ASSUME Init PROVE Ordered!Init
    OBVIOUS
  <2>1. /\ sent = [nm \in Nodes \X Nodes |-> << >>] /\ got = [nm \in Nodes \X Nodes |-> << >>]
        /\ skewed = {}
    BY DEF Init
  <2>2. \A nm \in Nodes \X Nodes : ~(nm \in skewed)
    BY <2>1
  <2>3. \A nm \in Nodes \X Nodes : (nm \in skewed) = FALSE
    BY <2>2
  <2> QED
    BY <2>1, <2>3 DEF Ordered!Init
<1>2. CountInv /\ CountInv' /\ [Next]_vars => [Ordered!Next]_Ordered!vars
  BY OrderedStep
<1> QED
  BY CountInvInit, CountInvStep, <1>1, <1>2, PTL DEF Spec, ImplementsOrderedDelivery, Ordered!Spec

-----------------------------------------------------------------------------
(* What the game is told. *)

\* The calls that tell the game of n the fate of a message of its own.
Own(n) == {e \in calls : e.by = n /\ e.from = n}

TellOf(n, thread, g) == [by |-> n, thread |-> thread, from |-> n, g |-> g]

LEMMA NewOwn ==
  ASSUME NEW n, NEW S, calls' = calls \cup S, \A z \in S : z.by = n /\ z.from = n
  PROVE  Own(n)' = Own(n) \cup S /\ \A m : m # n => Own(m)' = Own(m)
  BY DEF Own

\* How a step changes the headers of n and the calls that tell of them.
HeadersStay(n) == headers'[n] = headers[n] /\ Own(n)' = Own(n)
HeadersEnd(n) == headers'[n] = << >> /\ Own(n)' = Own(n)
HeaderAdded(n) ==
  /\ Own(n)' = Own(n)
  /\ \E to \in SUBSET Nodes : \E size \in Sizes :
       to # {} /\ headers'[n] = Append(headers[n], NewHeader(n, to, size))
HeadersPassed(n) ==
  /\ headers'[n] = PassedList(n)
  /\ Own(n)' = Own(n) \cup {TellOf(n, "deliver", PassedList(n)[k].g) : k \in Over(n)}
HeaderAnswered(n, k, x, a) ==
  /\ a.to = n /\ headers[n][k].g = a.g /\ x.to = a.from /\ x.i = a.i
  /\ headers'[n] = AnsweredList(n, k, x, a)
  /\ Own(n)' = Own(n) \cup
       {TellOf(n, "listen", AnsweredList(n, k, x, a)[j].g) : j \in FirstEnded(AnsweredList(n, k, x, a))}
  /\ ~InGame(n, "listen")
HeaderRemoved(n, c) ==
  /\ Own(n)' = Own(n) \ {c}
  /\ n \in corrupt' \/ \E k \in DOMAIN headers[n] :
                         headers[n][k].g = c.g /\ headers'[n] = RemoveAt(headers[n], k)

LEMMA PassOwn ==
  ASSUME TypeOK, NEW x \in Nodes, NEW out, Pass(x, out), NEW n \in Nodes
  PROVE  HeadersStay(n) \/ HeadersPassed(n)
<1>1. PICK S : S = {TellOf(x, "deliver", PassedList(x)[k].g) : k \in Over(x)}
  OBVIOUS
<1>2. headers' = [headers EXCEPT ![x] = PassedList(x)] /\ calls' = calls \cup S
  BY <1>1, PassIs DEF TellOf
<1>3. \A z \in S : z.by = x /\ z.from = x
  BY <1>1 DEF TellOf
<1>4. Own(x)' = Own(x) \cup S /\ \A m : m # x => Own(m)' = Own(m)
  BY <1>2, <1>3, NewOwn
<1>5. CASE n = x
  BY <1>1, <1>2, <1>4, <1>5 DEF HeadersPassed, TypeOK
<1>6. CASE n # x
  BY <1>2, <1>4, <1>6 DEF HeadersStay, TypeOK
<1> QED
  BY <1>5, <1>6

LEMMA AnswerOwn ==
  ASSUME TypeOK, NEW x \in Nodes, NEW a \in progress, ReceiveProgress(x, a), NEW n \in Nodes
  PROVE  \/ HeadersStay(n)
         \/ \E k \in DOMAIN headers[n] : \E y \in headers[n][k].packets : HeaderAnswered(n, k, y, a)
<1>1. CASE headers' = headers /\ calls' = calls
  BY <1>1 DEF HeadersStay, Own
<1>2. ASSUME NEW k \in DOMAIN headers[x], NEW y \in headers[x][k].packets,
             a.to = x, headers[x][k].g = a.g, y.to = a.from, y.i = a.i,
             headers' = [headers EXCEPT ![x] = AnsweredList(x, k, y, a)],
             calls' = calls \cup
               {[by |-> x, thread |-> "listen", from |-> x, g |-> AnsweredList(x, k, y, a)[j].g] :
                  j \in FirstEnded(AnsweredList(x, k, y, a))},
             ~InGame(x, "listen")
      PROVE  \/ HeadersStay(n)
             \/ \E i \in DOMAIN headers[n] : \E z \in headers[n][i].packets : HeaderAnswered(n, i, z, a)
  <2>1. PICK S : S = {TellOf(x, "listen", AnsweredList(x, k, y, a)[j].g) : j \in FirstEnded(AnsweredList(x, k, y, a))}
    OBVIOUS
  <2>2. calls' = calls \cup S
    BY <1>2, <2>1 DEF TellOf
  <2>3. \A z \in S : z.by = x /\ z.from = x
    BY <2>1 DEF TellOf
  <2>4. Own(x)' = Own(x) \cup S /\ \A m : m # x => Own(m)' = Own(m)
    BY <2>2, <2>3, NewOwn
  <2>5. CASE n = x
    <3>1. headers'[n] = AnsweredList(n, k, y, a)
      BY <1>2, <2>5 DEF TypeOK
    <3>2. HeaderAnswered(n, k, y, a)
      BY <1>2, <2>1, <2>4, <2>5, <3>1 DEF HeaderAnswered
    <3> QED
      BY <1>2, <2>5, <3>2
  <2>6. CASE n # x
    BY <1>2, <2>4, <2>6 DEF HeadersStay, TypeOK
  <2> QED
    BY <2>5, <2>6
<1> QED
  BY <1>1, <1>2, ReceiveProgressIs DEF ListenIdle

LEMMA ToldOwn ==
  ASSUME TypeOK, NEW c \in calls, Told(c), NEW n \in Nodes
  PROVE  HeadersStay(n) \/ (c \in Own(n) /\ HeaderRemoved(n, c))
<1>1. c.from = c.by /\ calls' = calls \ {c} /\ c.by \in Nodes
  BY ToldIs DEF Call
<1>2. CASE n # c.by
  <2>1. Own(n)' = Own(n)
    BY <1>1, <1>2 DEF Own
  <2>2. headers'[n] = headers[n]
    BY <1>1, <1>2, ToldIs DEF TypeOK
  <2> QED
    BY <2>1, <2>2 DEF HeadersStay
<1>3. CASE n = c.by
  <2>1. c \in Own(n) /\ Own(n)' = Own(n) \ {c}
    BY <1>1, <1>3 DEF Own
  <2>2. n \in corrupt' \/ \E k \in DOMAIN headers[n] :
                            headers[n][k].g = c.g /\ headers' = [headers EXCEPT ![n] = RemoveAt(@, k)]
    BY <1>3, ToldIs
  <2>3. n \in corrupt' \/ \E k \in DOMAIN headers[n] :
                            headers[n][k].g = c.g /\ headers'[n] = RemoveAt(headers[n], k)
    BY <2>2 DEF TypeOK
  <2> QED
    BY <2>1, <2>3 DEF HeaderRemoved
<1> QED
  BY <1>2, <1>3

LEMMA OwnIs ==
  ASSUME TypeOK, Meeting, Storing, [Next]_vars, NEW n \in Nodes
  PROVE  \/ HeadersStay(n) \/ HeadersEnd(n) \/ HeaderAdded(n) \/ HeadersPassed(n)
         \/ \E a \in progress : \E k \in DOMAIN headers[n] : \E x \in headers[n][k].packets :
              HeaderAnswered(n, k, x, a)
         \/ \E c \in Own(n) : HeaderRemoved(n, c)
<1>1. ASSUME headers' = headers, calls' = calls PROVE HeadersStay(n)
  BY <1>1 DEF HeadersStay, Own
<1>2. ASSUME UNCHANGED vars PROVE HeadersStay(n)
  BY <1>1, <1>2 DEF vars, threads
<1>3. ASSUME NEW x \in Nodes, NEW y \in Nodes, Regroups(x, y) PROVE HeadersStay(n)
  BY <1>1, <1>3 DEF Regroups
<1>4. ASSUME NEW c \in Clients, EndSession(c) PROVE HeadersStay(n) \/ HeadersEnd(n)
  <2>1. headers' = [headers EXCEPT ![c] = << >>] /\ calls' = calls
    BY <1>4 DEF EndSession, threads
  <2>2. headers'[n] = headers[n] \/ headers'[n] = << >>
    BY <2>1 DEF TypeOK
  <2> QED
    BY <2>1, <2>2 DEF HeadersStay, HeadersEnd, Own
<1>5. ASSUME NEW x \in Nodes, SendData(x) PROVE HeadersStay(n) \/ HeaderAdded(n)
  <2>1. PICK to \in SUBSET Nodes, size \in Sizes : to # {} /\ SendTo(x, to, size)
    BY <1>5, SentTo
  <2>2. PICK h : h = NewHeader(x, to, size)
    OBVIOUS
  <2>3. headers' = [headers EXCEPT ![x] = Append(@, h)]
    BY <2>1, <2>2 DEF SendTo
  <2>4. Own(n)' = Own(n)
    BY <1>5 DEF SendData, Own
  <2>5. CASE n = x
    BY <2>1, <2>2, <2>3, <2>4, <2>5 DEF HeaderAdded, TypeOK
  <2>6. CASE n # x
    BY <2>3, <2>4, <2>6 DEF HeadersStay, TypeOK
  <2> QED
    BY <2>5, <2>6
<1>6. ASSUME NEW x \in Nodes, NEW d, ReceiveData(x, d) PROVE HeadersStay(n)
  BY <1>1, <1>6 DEF ReceiveData
<1>7. ASSUME NEW x \in Nodes, HandOver(x) PROVE HeadersStay(n)
  <2>1. headers' = headers
    BY <1>7, HandOverIs
  <2>2. Own(n)' = Own(n)
    <3>1. CASE calls' = calls
      BY <3>1 DEF Own
    <3>2. ASSUME Ready(x, received[x]) # {}, calls' = calls \cup {FirstCall(x)}
          PROVE  Own(n)' = Own(n)
      <4>1. First(x).from # x
        BY <3>2, FirstFits DEF EntryFits, Carries
      <4>2. FirstCall(x).by # FirstCall(x).from
        BY <4>1 DEF FirstCall
      <4> QED
        BY <3>2, <4>2 DEF Own
    <3> QED
      BY <1>7, <3>1, <3>2, HandOverIs DEF FirstCall
  <2> QED
    BY <2>1, <2>2 DEF HeadersStay
<1>8. ASSUME NEW e \in calls, HandedOver(e) PROVE HeadersStay(n)
  <2>1. headers' = headers /\ calls' = calls \ {e} /\ e.from # e.by
    BY <1>8, HandedOverIs
  <2> QED
    BY <2>1 DEF HeadersStay, Own
<1> QED
  BY <1>2, <1>3, <1>4, <1>5, <1>6, <1>7, <1>8, PassOwn, AnswerOwn, ToldOwn, Steps

\* Two calls tell of one header, or a call tells of a header that is gone.
Clash(own, hs) ==
  \E c1 \in own : \/ \E c2 \in own : c2 # c1 /\ c2.g = c1.g
                  \/ \A k \in DOMAIN hs : hs[k].g # c1.g

\* The game is being told of every ended header.
Tells(own, hs) == \A k \in DOMAIN hs : Ended(hs[k]) => \E e \in own : e.g = hs[k].g

Telling == \A n \in Nodes \ corrupt : Clash(Own(n), headers[n]) \/ Tells(Own(n), headers[n])

LEMMA ClashesIs ==
  ASSUME NEW n
  PROVE  Clashes(n) <=> Clash(Own(n), headers[n])
  BY DEF Clashes, Clash, Own, ToSet

LEMMA TellingInit == Init => Telling
<1>1. Init => \A n \in Nodes : DOMAIN headers[n] = {}
  BY DEF Init
<1> QED
  BY <1>1 DEF Telling, Tells

\* A header that has its first destinations to wait for is not ended.
LEMMA AddedTelling ==
  ASSUME TypeOK, Calling, NEW n \in Nodes, scheduled[n] \in Nat, HeaderAdded(n),
         Clash(Own(n), headers[n]) \/ Tells(Own(n), headers[n])
  PROVE  Clash(Own(n)', headers'[n]) \/ Tells(Own(n)', headers'[n])
<1>1. PICK to \in SUBSET Nodes, size \in Sizes :
        to # {} /\ headers'[n] = Append(headers[n], NewHeader(n, to, size))
  BY DEF HeaderAdded
<1>2. PICK own : own = Own(n)
  OBVIOUS
<1>3. PICK hs : hs = headers[n]
  OBVIOUS
<1>4. PICK h : h = NewHeader(n, to, size)
  OBVIOUS
<1>5. Own(n)' = own /\ headers'[n] = Append(hs, h)
  BY <1>1, <1>2, <1>3, <1>4 DEF HeaderAdded
<1>6. PICK r : r = Append(hs, h)
  OBVIOUS
<1>7. hs \in Seq(Header) /\ Len(hs) \in Nat /\ DOMAIN hs = 1..Len(hs)
  BY <1>3, LenProperties DEF TypeOK
<1>8. /\ DOMAIN r = 1..Len(hs) + 1 /\ r[Len(hs) + 1] = h
      /\ \A k \in DOMAIN hs : r[k] = hs[k]
  <2>1. hs \in Seq(Header \cup {h})
    BY <1>7
  <2> QED
    BY <1>6, <1>7, <2>1, AppendProperties, LenProperties
<1>9. h.g = scheduled[n] /\ ~Ended(h)
  <2>1. h.g = scheduled[n] /\ h.done = 0 /\ h.failed = 0 /\ h.num = Cardinality(to)
    BY <1>4 DEF NewHeader
  <2>2. IsFiniteSet(to) /\ Cardinality(to) \in Nat
    BY NodesFinite, FS_Subset, FS_CardinalityType
  <2>3. Cardinality(to) # 0
    BY <1>1, <2>2, FS_EmptySet
  <2> QED
    BY <2>1, <2>2, <2>3 DEF Ended
<1>10. \A c \in own : c.g < scheduled[n] /\ c.g \in Nat
  <2>1. \A c \in own : c \in calls /\ c.from = c.by /\ c.by = n
    BY <1>2 DEF Own
  <2>2. \A c \in calls : c.g \in Nat
    BY DEF TypeOK, Call, Numbers
  <2> QED
    BY <2>1, <2>2 DEF Calling
<1>11. CASE Clash(own, hs)
  <2>1. PICK c1 \in own : \/ \E c2 \in own : c2 # c1 /\ c2.g = c1.g
                          \/ \A k \in DOMAIN hs : hs[k].g # c1.g
    BY <1>11 DEF Clash
  <2>2. ASSUME \A k \in DOMAIN hs : hs[k].g # c1.g, NEW k \in DOMAIN r
        PROVE  r[k].g # c1.g
    <3>1. k \in DOMAIN hs \/ k = Len(hs) + 1
      BY <1>7, <1>8
    <3>2. h.g # c1.g
      BY <1>9, <1>10
    <3> QED
      BY <1>8, <2>2, <3>1, <3>2
  <2>3. Clash(own, r)
    BY <2>1, <2>2 DEF Clash
  <2> QED
    BY <1>5, <1>6, <2>3
<1>12. CASE Tells(own, hs)
  <2>1. ASSUME NEW k \in DOMAIN r, Ended(r[k]) PROVE \E e \in own : e.g = r[k].g
    <3>1. k \in DOMAIN hs \/ k = Len(hs) + 1
      BY <1>7, <1>8
    <3>2. k \in DOMAIN hs
      BY <1>8, <1>9, <2>1, <3>1
    <3> QED
      BY <1>8, <1>12, <2>1, <3>2 DEF Tells
  <2>2. Tells(own, r)
    BY <2>1 DEF Tells
  <2> QED
    BY <1>5, <1>6, <2>2
<1> QED
  BY <1>2, <1>3, <1>11, <1>12

\* Where headers keep their numbers and calls are added, a clash stays.
LEMMA ClashStays ==
  ASSUME NEW own, NEW more, NEW hs, NEW r, DOMAIN r = DOMAIN hs,
         \A k \in DOMAIN hs : r[k].g = hs[k].g, Clash(own, hs)
  PROVE  Clash(own \cup more, r)
  BY DEF Clash

\* A pass tells of the header that it ends.
LEMMA PassedTelling ==
  ASSUME TypeOK, NEW n \in Nodes, HeadersPassed(n),
         Clash(Own(n), headers[n]) \/ Tells(Own(n), headers[n])
  PROVE  Clash(Own(n)', headers'[n]) \/ Tells(Own(n)', headers'[n])
<1>1. PICK own : own = Own(n)
  OBVIOUS
<1>2. PICK hs : hs = headers[n]
  OBVIOUS
<1>3. PICK r : r = PassedList(n)
  OBVIOUS
<1>4. PICK more : more = {TellOf(n, "deliver", r[k].g) : k \in Over(n)}
  OBVIOUS
<1>5. Own(n)' = own \cup more /\ headers'[n] = r
  BY <1>1, <1>3, <1>4 DEF HeadersPassed
<1>6. DOMAIN r = DOMAIN hs /\ \A k \in DOMAIN hs : hs[k] \in Header
  BY <1>2, <1>3, PassedListIs
<1>7. \A k \in DOMAIN hs : r[k] = IF k \in Reached(n) THEN Gone(n, hs[k]) ELSE hs[k]
  BY <1>2, <1>3 DEF PassedList
<1>8. \A k \in DOMAIN hs : r[k].g = hs[k].g
  BY <1>6, <1>7, GoneIs
<1>9. CASE Clash(own, hs)
  <2>1. Clash(own \cup more, r)
    BY <1>6, <1>8, <1>9, ClashStays
  <2> QED
    BY <1>5, <2>1
<1>10. CASE Tells(own, hs)
  <2>1. ASSUME NEW k \in DOMAIN hs, Ended(r[k]) PROVE \E e \in own \cup more : e.g = r[k].g
    <3>1. CASE k \in Over(n)
      <4>1. TellOf(n, "deliver", r[k].g) \in more /\ TellOf(n, "deliver", r[k].g).g = r[k].g
        BY <1>4, <3>1 DEF TellOf
      <4> QED
        BY <4>1
    <3>2. CASE k \notin Over(n)
      <4>1. r[k] = hs[k]
        <5>1. k \notin Reached(n) \/ Lost(n, hs[k]) = {}
          BY <1>2, <1>3, <2>1, <3>2 DEF Over
        <5> QED
          BY <1>7, <5>1 DEF Gone
      <4> QED
        BY <1>10, <2>1, <4>1 DEF Tells
    <3> QED
      BY <3>1, <3>2
  <2>2. Tells(own \cup more, r)
    BY <1>6, <2>1 DEF Tells
  <2> QED
    BY <1>5, <2>2
<1> QED
  BY <1>1, <1>2, <1>9, <1>10

\* An answer tells of the first ended header: if there was one before, the other
\* thread is telling of it already.
LEMMA AnsweredTelling ==
  ASSUME TypeOK, NEW n \in Nodes, NEW k \in DOMAIN headers[n], NEW x \in headers[n][k].packets,
         NEW a \in progress, HeaderAnswered(n, k, x, a),
         Clash(Own(n), headers[n]) \/ Tells(Own(n), headers[n])
  PROVE  Clash(Own(n)', headers'[n]) \/ Tells(Own(n)', headers'[n])
<1>1. PICK own : own = Own(n)
  OBVIOUS
<1>2. PICK hs : hs = headers[n]
  OBVIOUS
<1>3. PICK r : r = AnsweredList(n, k, x, a)
  OBVIOUS
<1>4. PICK more : more = {TellOf(n, "listen", r[j].g) : j \in FirstEnded(r)}
  OBVIOUS
<1>5. Own(n)' = own \cup more /\ headers'[n] = r
  BY <1>1, <1>3, <1>4 DEF HeaderAnswered
<1>6. a \in Progress
  BY DEF TypeOK
<1>7. /\ r \in Seq(Header) /\ DOMAIN r = DOMAIN hs /\ k \in DOMAIN hs /\ hs[k] \in Header
      /\ \A j \in DOMAIN hs : r[j] = IF j = k THEN Merged(hs[k], x, a) ELSE hs[j]
  BY <1>2, <1>3, <1>6, AnsweredType
<1>8. \A j \in DOMAIN hs : r[j].g = hs[j].g
  BY <1>2, <1>6, <1>7, MergedIs
<1>9. CASE Clash(own, hs)
  <2>1. DOMAIN r = DOMAIN hs
    BY <1>7
  <2>2. Clash(own \cup more, r)
    BY <1>8, <1>9, <2>1, ClashStays
  <2> QED
    BY <1>5, <2>2
<1>10. CASE Tells(own, hs)
  <2>1. ASSUME NEW i \in DOMAIN hs, Ended(r[i]), i # k PROVE \E e \in own : e.g = r[i].g
    BY <1>7, <1>10, <2>1 DEF Tells
  <2>2. CASE ~Ended(r[k])
    <3>1. Tells(own \cup more, r)
      BY <1>7, <2>1, <2>2 DEF Tells
    <3> QED
      BY <1>5, <3>1
  <2>3. CASE k \in FirstEnded(r)
    <3>1. TellOf(n, "listen", r[k].g) \in more /\ TellOf(n, "listen", r[k].g).g = r[k].g
      BY <1>4, <2>3 DEF TellOf
    <3>2. Tells(own \cup more, r)
      BY <1>7, <2>1, <3>1 DEF Tells
    <3> QED
      BY <1>5, <3>2
  <2>4. CASE Ended(r[k]) /\ k \notin FirstEnded(r)
    <3>1. EndedOnes(r) \in SUBSET Nat /\ EndedOnes(r) # {}
      BY <1>7, <2>4, LenProperties DEF EndedOnes
    <3>2. PICK f \in EndedOnes(r) : \A j \in EndedOnes(r) : f <= j
      BY <3>1, LeastElement
    <3>3. f \in FirstEnded(r) /\ f # k /\ f \in DOMAIN hs /\ Ended(r[f])
      BY <1>7, <2>4, <3>2 DEF FirstEnded, EndedOnes
    <3>4. PICK e \in own : e.g = r[f].g
      BY <2>1, <3>3
    <3>5. PICK c : c = TellOf(n, "listen", r[f].g)
      OBVIOUS
    <3>6. c \in more /\ c.g = r[f].g /\ c.thread = "listen"
      BY <1>4, <3>3, <3>5 DEF TellOf
    <3>7. e # c
      BY <1>1, <3>6 DEF HeaderAnswered, InGame, Own
    <3>8. Clash(own \cup more, r)
      BY <3>4, <3>6, <3>7 DEF Clash
    <3> QED
      BY <1>5, <3>8
  <2> QED
    BY <2>2, <2>3, <2>4
<1> QED
  BY <1>1, <1>2, <1>9, <1>10

\* What has been told leaves the list, and the other calls keep their headers.
LEMMA RemovedTelling ==
  ASSUME TypeOK, HeadersDiffer, NEW n \in Nodes, NEW c \in Own(n), HeaderRemoved(n, c), n \notin corrupt',
         Clash(Own(n), headers[n]) \/ Tells(Own(n), headers[n])
  PROVE  Clash(Own(n)', headers'[n]) \/ Tells(Own(n)', headers'[n])
<1>1. PICK own : own = Own(n)
  OBVIOUS
<1>2. PICK hs : hs = headers[n]
  OBVIOUS
<1>3. PICK k \in DOMAIN hs : hs[k].g = c.g /\ headers'[n] = RemoveAt(hs, k)
  BY <1>2 DEF HeaderRemoved
<1>4. PICK r : r = RemoveAt(hs, k)
  OBVIOUS
<1>5. Own(n)' = own \ {c} /\ headers'[n] = r
  BY <1>1, <1>3, <1>4 DEF HeaderRemoved
<1>6. hs \in Seq(Header) /\ \A i, j \in DOMAIN hs : hs[i].g = hs[j].g => i = j
  BY <1>2 DEF TypeOK, HeadersDiffer
<1>7. PICK f \in [DOMAIN r -> DOMAIN hs \ {k}] : \A j \in DOMAIN r : r[j] = hs[f[j]]
  <2>1. \E f \in [DOMAIN RemoveAt(hs, k) -> DOMAIN hs \ {k}] :
          /\ \A i, j \in DOMAIN RemoveAt(hs, k) : f[i] = f[j] => i = j
          /\ \A j \in DOMAIN RemoveAt(hs, k) : RemoveAt(hs, k)[j] = hs[f[j]]
    BY <1>6, RemovedFrom
  <2> QED
    BY <1>4, <2>1
<1>8. \A j \in DOMAIN r : r[j].g # c.g
  BY <1>3, <1>6, <1>7
<1>9. CASE Clash(own, hs)
  <2>1. PICK c1 \in own : \/ \E c2 \in own : c2 # c1 /\ c2.g = c1.g
                          \/ \A j \in DOMAIN hs : hs[j].g # c1.g
    BY <1>9 DEF Clash
  <2>2. CASE \A j \in DOMAIN hs : hs[j].g # c1.g
    <3>1. c1 # c /\ \A j \in DOMAIN r : r[j].g # c1.g
      BY <1>3, <1>7, <2>2
    <3>2. Clash(own \ {c}, r)
      BY <3>1 DEF Clash
    <3> QED
      BY <1>5, <3>2
  <2>3. ASSUME NEW c2 \in own, c2 # c1, c2.g = c1.g PROVE Clash(own \ {c}, r)
    <3>1. CASE c1 # c /\ c2 # c
      BY <2>3, <3>1 DEF Clash
    <3>2. CASE c1 = c
      BY <1>8, <2>3, <3>2 DEF Clash
    <3>3. CASE c2 = c
      BY <1>8, <2>3, <3>3 DEF Clash
    <3> QED
      BY <3>1, <3>2, <3>3
  <2> QED
    BY <1>5, <2>1, <2>2, <2>3
<1>10. CASE Tells(own, hs)
  <2>1. Tells(own \ {c}, r)
    BY <1>7, <1>8, <1>10 DEF Tells
  <2> QED
    BY <1>5, <2>1
<1> QED
  BY <1>1, <1>2, <1>9, <1>10

\* A corrupt node stays so.
LEMMA CorruptGrows ==
  ASSUME TypeOK, Meeting, [Next]_vars
  PROVE  corrupt \subseteq corrupt'
<1>1. ASSUME UNCHANGED vars PROVE corrupt' = corrupt
  BY <1>1 DEF vars, threads
<1>2. ASSUME NEW x \in Nodes, NEW y \in Nodes, Regroups(x, y) PROVE corrupt' = corrupt
  BY <1>2 DEF Regroups
<1>3. ASSUME NEW c, EndSession(c) PROVE corrupt' = corrupt
  BY <1>3 DEF EndSession, threads
<1>4. ASSUME NEW x, SendData(x) PROVE corrupt' = corrupt
  BY <1>4 DEF SendData
<1>5. ASSUME NEW x, NEW out, Pass(x, out) PROVE corrupt' = corrupt
  BY <1>5 DEF Pass
<1>6. ASSUME NEW x, NEW d, ReceiveData(x, d) PROVE corrupt' = corrupt
  BY <1>6 DEF ReceiveData
<1>7. ASSUME NEW x, NEW a, ReceiveProgress(x, a) PROVE corrupt' = corrupt
  BY <1>7 DEF ReceiveProgress
<1>8. ASSUME NEW x, HandOver(x) PROVE corrupt' = corrupt
  BY <1>8 DEF HandOver
<1>9. ASSUME NEW e \in calls, Told(e) \/ HandedOver(e) PROVE corrupt \subseteq corrupt'
  BY <1>9, ToldIs, HandedOverIs
<1> QED
  BY <1>1, <1>2, <1>3, <1>4, <1>5, <1>6, <1>7, <1>8, <1>9, Steps

LEMMA TellingStep ==
  ASSUME TypeOK, Meeting, Storing, HeadersDiffer, Calling, Telling, [Next]_vars
  PROVE  Telling'
<1>1. ASSUME NEW n \in Nodes, n \notin corrupt'
      PROVE  Clash(Own(n)', headers'[n]) \/ Tells(Own(n)', headers'[n])
  <2>1. n \notin corrupt
    BY <1>1, CorruptGrows
  <2>2. Clash(Own(n), headers[n]) \/ Tells(Own(n), headers[n])
    BY <2>1 DEF Telling
  <2>3. CASE HeadersStay(n)
    BY <2>2, <2>3 DEF HeadersStay
  <2>4. CASE HeadersEnd(n)
    BY <2>4 DEF HeadersEnd, Tells
  <2>5. scheduled[n] \in Nat
    BY DEF TypeOK
  <2>6. CASE HeaderAdded(n)
    BY <2>2, <2>5, <2>6, AddedTelling
  <2>7. CASE HeadersPassed(n)
    BY <2>2, <2>7, PassedTelling
  <2>8. ASSUME NEW a \in progress, NEW k \in DOMAIN headers[n], NEW x \in headers[n][k].packets,
               HeaderAnswered(n, k, x, a)
        PROVE  Clash(Own(n)', headers'[n]) \/ Tells(Own(n)', headers'[n])
    BY <2>2, <2>8, AnsweredTelling
  <2>9. ASSUME NEW c \in Own(n), HeaderRemoved(n, c)
        PROVE  Clash(Own(n)', headers'[n]) \/ Tells(Own(n)', headers'[n])
    BY <1>1, <2>2, <2>9, RemovedTelling
  <2> QED
    BY <2>3, <2>4, <2>6, <2>7, <2>8, <2>9, OwnIs
<1> QED
  BY <1>1 DEF Telling, Clash, Tells, Ended

\* Every destination of a message is still waited for, has received it or is gone, and
\* a header for which nothing is waited for is just being told to the game, but where
\* the two threads clash over a header (handlePacket_10_handleData, processDeliverHeaders).
THEOREM NoneForgotten == Spec => []NothingForgotten
<1>1. CountInv /\ Telling => NothingForgotten
  <2> SUFFICES ASSUME CountInv, Telling, NEW n \in Nodes \ corrupt, ~Clashes(n), NEW h \in ToSet(headers[n])
               PROVE  /\ Cardinality(h.packets) = h.num - h.done - h.failed
                      /\ Ended(h) => \E c \in calls : c.by = n /\ c.from = n /\ c.g = h.g
    BY DEF NothingForgotten
  <2>1. PICK k \in DOMAIN headers[n] : h = headers[n][k]
    BY DEF ToSet
  <2>2. h \in Header
    <3>1. headers[n] \in Seq(Header)
      BY DEF CountInv, TypeOK
    <3> QED
      BY <2>1, <3>1, ElementOfSeq
  <2>3. HeaderFits(n, h)
    BY <2>1 DEF CountInv, Sending, HeadersFit
  <2>4. Cardinality(h.packets) \in Nat
    BY <2>3, FS_CardinalityType DEF HeaderFits
  <2>5. Cardinality(h.packets) = h.num - h.done - h.failed
    BY <2>2, <2>3, <2>4 DEF HeaderFits, Header
  <2>6. Tells(Own(n), headers[n])
    BY ClashesIs DEF Telling
  <2> QED
    BY <2>1, <2>5, <2>6 DEF Tells, Own
<1>2. CountInv /\ Telling /\ [Next]_vars => Telling'
  BY TellingStep DEF CountInv, Sending
<1> QED
  BY CountInvInit, CountInvStep, TellingInit, <1>1, <1>2, PTL DEF Spec

-----------------------------------------------------------------------------
(* What is counted as received. *)

LEMMA HoldersFinite ==
  ASSUME NEW n, NEW g
  PROVE  /\ Holders(n, g) \subseteq Nodes /\ IsFiniteSet(Holders(n, g))
         /\ Cardinality(Holders(n, g)) \in Nat
<1>1. Holders(n, g) \subseteq Nodes
  BY DEF Holders
<1> QED
  BY <1>1, NodesFinite, FS_Subset, FS_CardinalityType

LEMMA HoldersGrow ==
  ASSUME TypeOK, Meeting, [Next]_vars, NEW n, NEW g
  PROVE  /\ Holders(n, g) \subseteq Holders(n, g)'
         /\ IsFiniteSet(Holders(n, g)')
         /\ Cardinality(Holders(n, g)) <= Cardinality(Holders(n, g)')
         /\ Cardinality(Holders(n, g)) \in Nat /\ Cardinality(Holders(n, g)') \in Nat
<1>1. Holders(n, g) \subseteq Holders(n, g)' /\ Holders(n, g)' \subseteq Nodes
  BY HeldGrows DEF Holders
<1>2. IsFiniteSet(Holders(n, g)')
  BY <1>1, NodesFinite, FS_Subset
<1> QED
  BY <1>1, <1>2, FS_Subset, FS_CardinalityType

\* An answer is for a message that was sent; whoever answers for all blocks, or for a
\* message of one block, holds it or does not count with the sender.
AnswerFits(a) ==
  /\ a.blocks \in {Blocks, {0}}
  /\ \E size \in Sizes :
       /\ Carries(a.to, a.from, a.i, a.g, size)
       /\ (a.blocks = Blocks \/ size = 1) => a.from \in Holders(a.to, a.g)

\* The players a header counts as received hold its message, and are not waited for.
HeaderHeld(n, h) ==
  /\ \A x \in h.packets : x.have = {} \/ (h.size > 1 /\ x.have = {0})
  /\ \E D \in SUBSET Holders(n, h.g) :
       Cardinality(D) = h.done /\ \A x \in h.packets : x.to \notin D

ReportHeld(r) == r.done <= Cardinality(Holders(r.by, r.g))

AnswersFit == \A a \in progress : AnswerFits(a)
HeadersHeld == \A n \in Nodes : \A k \in DOMAIN headers[n] : HeaderHeld(n, headers[n][k])
ReportsHeld == \A r \in reports : ReportHeld(r)
Answering == AnswersFit /\ HeadersHeld /\ ReportsHeld

LEMMA AnsweringInit == Init => Answering
<1>1. Init => progress = {} /\ reports = {} /\ \A n \in Nodes : DOMAIN headers[n] = {}
  BY DEF Init
<1> QED
  BY <1>1 DEF Answering, AnswersFit, HeadersHeld, ReportsHeld

LEMMA AnswerFitsOn ==
  ASSUME TypeOK, Meeting, [Next]_vars, NEW a \in Progress, AnswerFits(a)
  PROVE  AnswerFits(a)'
<1>1. a.to \in Nodes /\ a.from \in Nodes /\ a.i \in Nat
  BY DEF Progress
<1>2. PICK size \in Sizes :
        /\ Carries(a.to, a.from, a.i, a.g, size)
        /\ (a.blocks = Blocks \/ size = 1) => a.from \in Holders(a.to, a.g)
  BY DEF AnswerFits
<1>3. Carries(a.to, a.from, a.i, a.g, size)'
  BY <1>1, <1>2, CarriesOn
<1>4. Holders(a.to, a.g) \subseteq Holders(a.to, a.g)'
  BY HoldersGrow
<1>5. (a.blocks = Blocks \/ size = 1) => a.from \in Holders(a.to, a.g)'
  BY <1>2, <1>4
<1> QED
  BY <1>3, <1>5 DEF AnswerFits

LEMMA HeaderHeldOn ==
  ASSUME TypeOK, Meeting, [Next]_vars, NEW n, NEW h, HeaderHeld(n, h)
  PROVE  HeaderHeld(n, h)'
<1>1. Holders(n, h.g) \subseteq Holders(n, h.g)'
  BY HoldersGrow
<1> QED
  BY <1>1 DEF HeaderHeld

\* What is reported of a header.
LEMMA HeaderReported ==
  ASSUME TypeOK, Meeting, [Next]_vars, NEW n, NEW type, NEW h \in Header, HeaderHeld(n, h)
  PROVE  ReportHeld(ReportOf(n, type, h))'
<1>1. PICK D \in SUBSET Holders(n, h.g) : Cardinality(D) = h.done
  BY DEF HeaderHeld
<1>2. Cardinality(D) <= Cardinality(Holders(n, h.g)) /\ Cardinality(D) \in Nat
  BY HoldersFinite, FS_Subset, FS_CardinalityType
<1>3. h.done <= Cardinality(Holders(n, h.g)')
  BY <1>1, <1>2, HoldersGrow
<1>4. PICK r : r = ReportOf(n, type, h)
  OBVIOUS
<1>5. r.by = n /\ r.g = h.g /\ r.done = h.done
  BY <1>4 DEF ReportOf
<1> QED
  BY <1>3, <1>4, <1>5 DEF ReportHeld

LEMMA GoneHeld ==
  ASSUME NEW n, NEW h \in Header, HeaderHeld(n, h)
  PROVE  HeaderHeld(n, Gone(n, h))
<1>1. PICK z : z = Gone(n, h)
  OBVIOUS
<1>2. z.g = h.g /\ z.size = h.size /\ z.done = h.done /\ z.packets \subseteq h.packets
  BY <1>1, GoneIs
<1>3. HeaderHeld(n, z)
  BY <1>2 DEF HeaderHeld
<1> QED
  BY <1>1, <1>3

\* What an answer adds to a packet: all blocks of the message, or the first one.
LEMMA MergingIs ==
  ASSUME NEW h \in Header, NEW x \in h.packets, NEW a, a.blocks \in {Blocks, {0}},
         x.have = {} \/ (h.size > 1 /\ x.have = {0})
  PROVE  \/ a.blocks = Blocks /\ Cardinality(Merging(h, x, a)) = h.size
         \/ a.blocks = {0} /\ Merging(h, x, a) = {0} /\ Cardinality(Merging(h, x, a)) = 1
<1>1. h.size \in 1..7
  BY SizesAssumption DEF Header
<1>2. CASE a.blocks = Blocks
  <2>1. Blocks \cap 0..h.size - 1 = 0..h.size - 1
    BY <1>1 DEF Blocks
  <2>2. x.have \subseteq 0..h.size - 1
    BY <1>1
  <2>3. Merging(h, x, a) = 0..h.size - 1
    BY <1>2, <2>1, <2>2 DEF Merging
  <2>4. Cardinality(0..h.size - 1) = (h.size - 1) - 0 + 1
    BY <1>1, FS_Interval
  <2> QED
    BY <1>1, <1>2, <2>3, <2>4
<1>3. CASE a.blocks = {0}
  <2>1. Merging(h, x, a) = {0}
    BY <1>1, <1>3 DEF Merging
  <2> QED
    BY <1>3, <2>1, FS_Singleton
<1> QED
  BY <1>2, <1>3

\* An answer that makes a packet complete comes from a holder.
LEMMA MergedHeld ==
  ASSUME TypeOK, Meeting, NEW n \in Nodes, NEW h \in Header, HeaderFits(n, h), HeaderHeld(n, h),
         NEW x \in h.packets, NEW a \in Progress, AnswerFits(a),
         a.to = n, h.g = a.g, x.to = a.from, x.i = a.i
  PROVE  HeaderHeld(n, Merged(h, x, a))
<1>1. PICK z : z = Merged(h, x, a)
  OBVIOUS
<1>2. PICK have : have = Merging(h, x, a)
  OBVIOUS
<1>3. /\ z.g = h.g /\ z.size = h.size
      /\ \/ /\ Cardinality(have) >= h.size
            /\ z.done = h.done + 1 /\ z.packets = h.packets \ {x}
         \/ /\ ~(Cardinality(have) >= h.size) /\ z.done = h.done
            /\ z.packets = (h.packets \ {x}) \cup {[to |-> x.to, i |-> x.i, have |-> have]}
  BY <1>1, <1>2, MergedIs
<1>4. h.size \in 1..7 /\ h.done \in Nat
  BY SizesAssumption DEF Header
<1>5. PICK D \in SUBSET Holders(n, h.g) :
        Cardinality(D) = h.done /\ \A y \in h.packets : y.to \notin D
  BY DEF HeaderHeld
<1>6. a.blocks \in {Blocks, {0}} /\ \A y \in h.packets : y.have = {} \/ (h.size > 1 /\ y.have = {0})
  BY DEF AnswerFits, HeaderHeld
<1>7. \/ a.blocks = Blocks /\ Cardinality(have) = h.size
      \/ a.blocks = {0} /\ have = {0} /\ Cardinality(have) = 1
  BY <1>2, <1>6, MergingIs
<1>8. (a.blocks = Blocks \/ h.size = 1) => x.to \in Holders(n, h.g)
  <2>1. PICK size \in Sizes :
          /\ Carries(a.to, a.from, a.i, a.g, size)
          /\ (a.blocks = Blocks \/ size = 1) => a.from \in Holders(a.to, a.g)
    BY DEF AnswerFits
  <2>2. Carries(n, x.to, x.i, h.g, h.size)
    BY DEF HeaderFits
  <2>3. size = h.size
    BY <2>1, <2>2 DEF Carries
  <2> QED
    BY <2>1, <2>3
<1>9. CASE Cardinality(have) >= h.size /\ z.done = h.done + 1 /\ z.packets = h.packets \ {x}
  <2>1. x.to \in Holders(n, h.g)
    BY <1>4, <1>7, <1>8, <1>9
  <2>2. PICK E : E = D \cup {x.to}
    OBVIOUS
  <2>3. IsFiniteSet(D)
    BY HoldersFinite, FS_Subset
  <2>4. Cardinality(E) = h.done + 1
    BY <1>5, <2>2, <2>3, FS_AddElement
  <2>5. \A y \in z.packets : y.to # x.to /\ y.to \notin D
    BY <1>5, <1>9 DEF HeaderFits
  <2>6. E \in SUBSET Holders(n, z.g) /\ Cardinality(E) = z.done /\ \A y \in z.packets : y.to \notin E
    BY <1>3, <1>9, <2>1, <2>2, <2>4, <2>5
  <2>7. \A y \in z.packets : y.have = {} \/ (z.size > 1 /\ y.have = {0})
    BY <1>3, <1>6, <1>9
  <2>8. HeaderHeld(n, z)
    BY <2>6, <2>7 DEF HeaderHeld
  <2> QED
    BY <1>1, <2>8
<1>10. CASE /\ ~(Cardinality(have) >= h.size) /\ z.done = h.done
            /\ z.packets = (h.packets \ {x}) \cup {[to |-> x.to, i |-> x.i, have |-> have]}
  <2>1. PICK w : w = [to |-> x.to, i |-> x.i, have |-> have]
    OBVIOUS
  <2>2. w.to = x.to /\ w.have = {0} /\ h.size > 1
    BY <1>4, <1>7, <1>10, <2>1
  <2>3. \A y \in z.packets : y \in h.packets \/ y = w
    BY <1>10, <2>1
  <2>4. \A y \in z.packets : y.have = {} \/ (z.size > 1 /\ y.have = {0})
    BY <1>3, <1>6, <2>2, <2>3
  <2>5. \A y \in z.packets : y.to \notin D
    BY <1>5, <2>2, <2>3
  <2>6. HeaderHeld(n, z)
    BY <1>3, <1>5, <1>10, <2>4, <2>5 DEF HeaderHeld
  <2> QED
    BY <1>1, <2>6
<1> QED
  BY <1>3, <1>9, <1>10

\* The lists of headers that a step leaves.
LEMMA HeldPassed ==
  ASSUME TypeOK, HeadersHeld, NEW n \in Nodes
  PROVE  \A k \in DOMAIN PassedList(n) : HeaderHeld(n, PassedList(n)[k])
<1>1. /\ DOMAIN PassedList(n) = DOMAIN headers[n]
      /\ \A k \in DOMAIN headers[n] :
           /\ headers[n][k] \in Header
           /\ PassedList(n)[k] = headers[n][k] \/ PassedList(n)[k] = Gone(n, headers[n][k])
  BY PassedListIs
<1>2. ASSUME NEW k \in DOMAIN headers[n] PROVE HeaderHeld(n, PassedList(n)[k])
  <2>1. HeaderHeld(n, headers[n][k])
    BY DEF HeadersHeld
  <2>2. HeaderHeld(n, Gone(n, headers[n][k]))
    BY <1>1, <2>1, GoneHeld
  <2> QED
    BY <1>1, <2>1, <2>2
<1> QED
  BY <1>1, <1>2

LEMMA HeldAnswered ==
  ASSUME TypeOK, Meeting, HeadersFit, HeadersHeld, NEW n \in Nodes, NEW k \in DOMAIN headers[n],
         NEW x \in headers[n][k].packets, NEW a \in Progress, AnswerFits(a),
         a.to = n, headers[n][k].g = a.g, x.to = a.from, x.i = a.i
  PROVE  \A j \in DOMAIN AnsweredList(n, k, x, a) : HeaderHeld(n, AnsweredList(n, k, x, a)[j])
<1>1. PICK hs : hs = AnsweredList(n, k, x, a)
  OBVIOUS
<1>2. /\ headers[n][k] \in Header /\ DOMAIN hs = DOMAIN headers[n]
      /\ \A j \in DOMAIN headers[n] :
           hs[j] = IF j = k THEN Merged(headers[n][k], x, a) ELSE headers[n][j]
  BY <1>1, AnsweredType
<1>3. PICK h : h = headers[n][k]
  OBVIOUS
<1>4. h \in Header /\ HeaderFits(n, h) /\ HeaderHeld(n, h) /\ h.g = a.g /\ x \in h.packets
  BY <1>2, <1>3 DEF HeadersFit, HeadersHeld
<1>5. HeaderHeld(n, Merged(h, x, a))
  BY <1>4, MergedHeld
<1>6. \A j \in DOMAIN headers[n] : HeaderHeld(n, hs[j])
  BY <1>2, <1>3, <1>5 DEF HeadersHeld
<1> QED
  BY <1>1, <1>2, <1>6

LEMMA NewHeld ==
  ASSUME NEW n, NEW to, NEW size
  PROVE  HeaderHeld(n, NewHeader(n, to, size))
<1>1. PICK h : h = NewHeader(n, to, size)
  OBVIOUS
<1>2. h.done = 0 /\ \A x \in h.packets : x.have = {}
  BY <1>1 DEF NewHeader
<1>3. {} \in SUBSET Holders(n, h.g) /\ Cardinality({}) = 0
  BY FS_EmptySet
<1>4. HeaderHeld(n, h)
  BY <1>2, <1>3 DEF HeaderHeld
<1> QED
  BY <1>1, <1>4

LEMMA HeldAfter ==
  ASSUME TypeOK, Meeting, HeadersFit, HeadersHeld, AnswersFit, [Next]_vars, NEW n \in Nodes
  PROVE  \A k \in DOMAIN headers'[n] : HeaderHeld(n, headers'[n][k])
<1> DEFINE Goal == \A k \in DOMAIN headers'[n] : HeaderHeld(n, headers'[n][k])
<1>1. ASSUME headers'[n] = headers[n] PROVE Goal
  BY <1>1 DEF HeadersHeld
<1>2. headers[n] \in Seq(Header)
  BY DEF TypeOK
<1> HIDE DEF Goal
<1>3. ASSUME UNCHANGED vars PROVE Goal
  BY <1>1, <1>3 DEF vars
<1>4. ASSUME NEW x \in Nodes, NEW y \in Nodes, Regroups(x, y) PROVE Goal
  BY <1>1, <1>4 DEF Regroups
<1>5. ASSUME NEW c \in Clients, EndSession(c) PROVE Goal
  <2>1. headers' = [headers EXCEPT ![c] = << >>]
    BY <1>5 DEF EndSession
  <2>2. headers'[n] = headers[n] \/ headers'[n] = << >>
    BY <2>1 DEF TypeOK
  <2>3. ASSUME headers'[n] = << >> PROVE Goal
    BY <2>3 DEF Goal
  <2> QED
    BY <1>1, <2>2, <2>3
<1>6. ASSUME NEW x \in Nodes, SendData(x) PROVE Goal
  <2>1. PICK to \in SUBSET Nodes, size \in Sizes : SendTo(x, to, size)
    BY <1>6, SentTo
  <2>2. CASE x # n
    <3>1. headers'[n] = headers[n]
      BY <2>1, <2>2 DEF SendTo, TypeOK
    <3> QED
      BY <1>1, <3>1
  <2>3. CASE x = n
    <3>1. PICK h : h = NewHeader(n, to, size)
      OBVIOUS
    <3>2. PICK hs : hs = headers[n]
      OBVIOUS
    <3>3. headers'[n] = Append(hs, h)
      BY <2>1, <2>3, <3>1, <3>2 DEF SendTo, TypeOK
    <3>4. hs \in Seq(Header) /\ Len(hs) \in Nat /\ DOMAIN hs = 1..Len(hs)
      BY <1>2, <3>2, LenProperties
    <3>5. h \in Header
      BY <1>6, <2>3, <3>1, NewHeaderType DEF SendData, TypeOK
    <3>6. /\ DOMAIN headers'[n] = 1..Len(hs) + 1 /\ headers'[n][Len(hs) + 1] = h
          /\ \A k \in 1..Len(hs) : headers'[n][k] = hs[k]
      BY <3>3, <3>4, <3>5, AppendProperties, LenProperties
    <3>7. HeaderHeld(n, h) /\ \A k \in 1..Len(hs) : HeaderHeld(n, hs[k])
      BY <3>1, <3>2, <3>4, NewHeld DEF HeadersHeld
    <3>8. \A k \in 1..Len(hs) + 1 : k \in 1..Len(hs) \/ k = Len(hs) + 1
      BY <3>4
    <3> QED
      BY <3>6, <3>7, <3>8 DEF Goal
  <2> QED
    BY <2>2, <2>3
<1>7. ASSUME NEW x \in Nodes, NEW out, Pass(x, out) PROVE Goal
  <2>1. headers' = [headers EXCEPT ![x] = PassedList(x)]
    BY <1>7, PassIs
  <2>2. headers'[n] = headers[n] \/ headers'[n] = PassedList(n)
    BY <2>1 DEF TypeOK
  <2>3. ASSUME headers'[n] = PassedList(n) PROVE Goal
    BY <2>3, HeldPassed DEF Goal
  <2> QED
    BY <1>1, <2>2, <2>3
<1>8. ASSUME NEW e \in calls, Told(e) PROVE Goal
  <2>1. headers' = headers \/ \E k \in DOMAIN headers[e.by] :
                                headers' = [headers EXCEPT ![e.by] = RemoveAt(@, k)]
    BY <1>8, ToldIs
  <2>2. headers'[n] = headers[n] \/ \E k \in DOMAIN headers[n] : headers'[n] = RemoveAt(headers[n], k)
    BY <2>1 DEF TypeOK
  <2>3. ASSUME NEW k \in DOMAIN headers[n], headers'[n] = RemoveAt(headers[n], k) PROVE Goal
    <3>1. \E f \in [DOMAIN RemoveAt(headers[n], k) -> DOMAIN headers[n] \ {k}] :
            /\ \A i, j \in DOMAIN RemoveAt(headers[n], k) : f[i] = f[j] => i = j
            /\ \A j \in DOMAIN RemoveAt(headers[n], k) : RemoveAt(headers[n], k)[j] = headers[n][f[j]]
      BY <1>2, RemovedFrom
    <3> QED
      BY <2>3, <3>1 DEF Goal, HeadersHeld
  <2> QED
    BY <1>1, <2>2, <2>3
<1>9. ASSUME NEW x, NEW d, ReceiveData(x, d) PROVE Goal
  BY <1>1, <1>9 DEF ReceiveData
<1>10. ASSUME NEW x, HandOver(x) PROVE Goal
  BY <1>1, <1>10 DEF HandOver
<1>11. ASSUME NEW e, HandedOver(e) PROVE Goal
  BY <1>1, <1>11 DEF HandedOver
<1>12. ASSUME NEW x \in Nodes, NEW a \in progress, ReceiveProgress(x, a) PROVE Goal
  <2>1. a \in Progress /\ AnswerFits(a)
    BY DEF TypeOK, AnswersFit
  <2>2. \/ headers' = headers
        \/ /\ a.to = x
           /\ \E k \in DOMAIN headers[x] : \E y \in headers[x][k].packets :
                /\ headers[x][k].g = a.g /\ y.to = a.from /\ y.i = a.i
                /\ headers' = [headers EXCEPT ![x] = AnsweredList(x, k, y, a)]
    BY <1>12, ReceiveProgressIs
  <2>3. ASSUME NEW k \in DOMAIN headers[x], NEW y \in headers[x][k].packets,
               a.to = x, headers[x][k].g = a.g, y.to = a.from, y.i = a.i,
               headers' = [headers EXCEPT ![x] = AnsweredList(x, k, y, a)]
        PROVE  Goal
    <3>1. CASE x # n
      BY <1>1, <2>3, <3>1 DEF TypeOK
    <3>2. CASE x = n
      <4>1. headers'[n] = AnsweredList(n, k, y, a)
        BY <2>3, <3>2 DEF TypeOK
      <4>2. \A j \in DOMAIN AnsweredList(n, k, y, a) : HeaderHeld(n, AnsweredList(n, k, y, a)[j])
        BY <2>1, <2>3, <3>2, HeldAnswered
      <4> QED
        BY <4>1, <4>2 DEF Goal
    <3> QED
      BY <3>1, <3>2
  <2> QED
    BY <1>1, <2>2, <2>3
<1>13. Goal
  BY <1>3, <1>4, <1>5, <1>6, <1>7, <1>8, <1>9, <1>10, <1>11, <1>12, Steps
<1> QED
  BY <1>13 DEF Goal

LEMMA HeadersHeldStep ==
  ASSUME TypeOK, TypeOK', Meeting, HeadersFit, HeadersHeld, AnswersFit, [Next]_vars
  PROVE  HeadersHeld'
<1>1. ASSUME NEW n \in Nodes, NEW k \in DOMAIN headers'[n] PROVE HeaderHeld(n, headers[n][k])'
  <2>1. PICK h : h = headers'[n][k]
    OBVIOUS
  <2>2. HeaderHeld(n, h)
    BY <2>1, HeldAfter
  <2>3. HeaderHeld(n, h)'
    BY <2>2, HeaderHeldOn
  <2> QED
    BY <2>1, <2>3 DEF HeaderHeld, Holders
<1> QED
  BY <1>1 DEF HeadersHeld

\* What is reported.
LEMMA ReportsStep ==
  ASSUME TypeOK, Meeting, HeadersFit, HeadersHeld, AnswersFit, ReportsHeld, [Next]_vars
  PROVE  ReportsHeld'
<1>1. ASSUME NEW r \in reports PROVE ReportHeld(r)'
  <2>1. r.done \in Nat
    BY DEF TypeOK, Report
  <2>2. r.done <= Cardinality(Holders(r.by, r.g))
    BY DEF ReportsHeld, ReportHeld
  <2>3. r.done <= Cardinality(Holders(r.by, r.g)')
    BY <2>1, <2>2, HoldersGrow
  <2> QED
    BY <2>3 DEF ReportHeld
<1>2. ASSUME reports' = reports PROVE ReportsHeld'
  BY <1>1, <1>2 DEF ReportsHeld
<1>3. ASSUME NEW n \in Nodes, NEW out, Pass(n, out) PROVE ReportsHeld'
  <2>1. PICK hs, over : hs = PassedList(n) /\ over = Over(n)
    OBVIOUS
  <2>2. reports' = reports \cup {ReportOf(n, 3, hs[k]) : k \in over}
    BY <1>3, <2>1, PassIs
  <2>3. ASSUME NEW k \in over PROVE ReportHeld(ReportOf(n, 3, hs[k]))'
    <3>1. PICK h : h = hs[k]
      OBVIOUS
    <3>2. k \in DOMAIN headers[n]
      BY <2>1 DEF Over, Reached
    <3>3. h \in Header /\ HeaderHeld(n, h)
      BY <2>1, <3>1, <3>2, PassedListIs, HeldPassed
    <3>4. ReportHeld(ReportOf(n, 3, h))'
      BY <3>3, HeaderReported
    <3> QED
      BY <3>1, <3>4
  <2>4. ASSUME NEW r \in reports' PROVE ReportHeld(r)'
    BY <1>1, <2>2, <2>3
  <2> QED
    BY <2>4 DEF ReportsHeld
<1>4. ASSUME NEW n \in Nodes, NEW a \in progress, ReceiveProgress(n, a) PROVE ReportsHeld'
  <2>1. a \in Progress /\ AnswerFits(a)
    BY DEF TypeOK, AnswersFit
  <2>2. \/ reports' = reports
        \/ /\ a.to = n
           /\ \E k \in DOMAIN headers[n] : \E x \in headers[n][k].packets :
                /\ headers[n][k].g = a.g /\ x.to = a.from /\ x.i = a.i
                /\ reports' = reports \cup
                     {ReportOf(n, 1, AnsweredList(n, k, x, a)[j]) :
                        j \in FirstEnded(AnsweredList(n, k, x, a))}
    BY <1>4, ReceiveProgressIs
  <2>3. ASSUME NEW k \in DOMAIN headers[n], NEW x \in headers[n][k].packets,
               a.to = n, headers[n][k].g = a.g, x.to = a.from, x.i = a.i,
               reports' = reports \cup
                 {ReportOf(n, 1, AnsweredList(n, k, x, a)[j]) :
                    j \in FirstEnded(AnsweredList(n, k, x, a))}
        PROVE  ReportsHeld'
    <3>1. PICK hs : hs = AnsweredList(n, k, x, a)
      OBVIOUS
    <3>2. \A j \in DOMAIN hs : HeaderHeld(n, hs[j])
      BY <2>1, <2>3, <3>1, HeldAnswered
    <3>3. \A j \in DOMAIN hs : hs[j] \in Header
      BY <2>1, <3>1, AnsweredType
    <3>4. ASSUME NEW j \in FirstEnded(hs) PROVE ReportHeld(ReportOf(n, 1, hs[j]))'
      <4>1. PICK h : h = hs[j]
        OBVIOUS
      <4>2. h \in Header /\ HeaderHeld(n, h)
        BY <3>2, <3>3, <4>1 DEF FirstEnded, EndedOnes
      <4>3. ReportHeld(ReportOf(n, 1, h))'
        BY <4>2, HeaderReported
      <4> QED
        BY <4>1, <4>3
    <3>5. reports' = reports \cup {ReportOf(n, 1, hs[j]) : j \in FirstEnded(hs)}
      BY <2>3, <3>1
    <3>6. ASSUME NEW r \in reports' PROVE ReportHeld(r)'
      BY <1>1, <3>4, <3>5
    <3> QED
      BY <3>6 DEF ReportsHeld
  <2> QED
    BY <1>2, <2>2, <2>3
<1>5. ASSUME UNCHANGED vars PROVE ReportsHeld'
  BY <1>2, <1>5 DEF vars, history
<1>6. ASSUME NEW x \in Nodes, NEW y \in Nodes, Regroups(x, y) PROVE ReportsHeld'
  BY <1>2, <1>6 DEF Regroups
<1>7. ASSUME NEW c, EndSession(c) PROVE ReportsHeld'
  BY <1>2, <1>7 DEF EndSession, history
<1>8. ASSUME NEW x, SendData(x) PROVE ReportsHeld'
  BY <1>2, <1>8 DEF SendData
<1>9. ASSUME NEW e \in calls, Told(e) PROVE ReportsHeld'
  BY <1>2, <1>9, ToldIs
<1>10. ASSUME NEW x, NEW d, ReceiveData(x, d) PROVE ReportsHeld'
  BY <1>2, <1>10 DEF ReceiveData
<1>11. ASSUME NEW x, HandOver(x) PROVE ReportsHeld'
  BY <1>2, <1>11 DEF HandOver
<1>12. ASSUME NEW e, HandedOver(e) PROVE ReportsHeld'
  BY <1>2, <1>12 DEF HandedOver
<1> QED
  BY <1>3, <1>4, <1>5, <1>6, <1>7, <1>8, <1>9, <1>10, <1>11, <1>12, Steps

\* What is answered.
LEMMA RelayedFits ==
  ASSUME NEW a \in Progress, AnswerFits(a), NEW at
  PROVE  AnswerFits([a EXCEPT !.at = at])
<1>1. PICK e : e = [a EXCEPT !.at = at]
  OBVIOUS
<1>2. e.from = a.from /\ e.to = a.to /\ e.i = a.i /\ e.g = a.g /\ e.blocks = a.blocks
  BY <1>1 DEF Progress
<1>3. AnswerFits(e)
  BY <1>2 DEF AnswerFits
<1> QED
  BY <1>1, <1>3

LEMMA AnswerIs ==
  ASSUME NEW n, NEW d, NEW blocks, Carries(d.from, n, d.i, d.g, d.size), d.size \in Sizes,
         blocks \in {Blocks, {0}},
         (blocks = Blocks \/ d.size = 1) => n \in Holders(d.from, d.g)
  PROVE  AnswerFits(Answer(n, d, blocks))
<1>1. PICK a : a = Answer(n, d, blocks)
  OBVIOUS
<1>2. a.from = n /\ a.to = d.from /\ a.i = d.i /\ a.g = d.g /\ a.blocks = blocks
  BY <1>1 DEF Answer
<1>3. AnswerFits(a)
  BY <1>2 DEF AnswerFits
<1> QED
  BY <1>1, <1>3

\* A packet below the count is of a message that was handed over.
LEMMA OldHeld ==
  ASSUME TypeOK, GotIsSent, InStep, NEW n \in Nodes, NEW d \in Data,
         Carries(d.from, n, d.i, d.g, d.size), d.from \in knows[n], Old(n, d)
  PROVE  n \in Holders(d.from, d.g)
<1>1. CASE <<d.from, n>> \in skewed
  BY <1>1 DEF Holders
<1>2. CASE <<d.from, n>> \notin skewed
  <2>1. d.from \in Nodes /\ d.i \in Nat /\ d.from # n
    BY DEF Data, Carries
  <2>2. PICK m : m = d.from
    OBVIOUS
  <2>3. m \in Nodes /\ m # n /\ m \in knows[n] /\ <<m, n>> \notin skewed
    BY <1>2, <2>1, <2>2
  <2>4. InStepOf(m, n)
    BY <2>3 DEF InStep
  <2>5. recvCount[n][Slot[m]] \in Nat /\ Len(got[<<m, n>>]) \in Nat
    BY <2>3, CountNat, LenProperties DEF TypeOK
  <2>6. recvCount[n][Slot[m]] <= Len(got[<<m, n>>])
    BY <2>4, <2>5 DEF InStepOf
  <2>7. d.i + 1 \in 1..Len(got[<<m, n>>])
    BY <2>1, <2>2, <2>5, <2>6 DEF Old
  <2>8. /\ got[<<m, n>>][d.i + 1] = sent[<<m, n>>][d.i + 1]
        /\ <<m, n, got[<<m, n>>][d.i + 1].g>> \in held
    BY <2>3, <2>7 DEF GotIsSent
  <2>9. sent[<<m, n>>][d.i + 1].g = d.g
    BY <2>2 DEF Carries
  <2> QED
    BY <2>2, <2>8, <2>9 DEF Holders
<1> QED
  BY <1>1, <1>2

\* An entry that is complete is held; one of one block is always complete.
LEMMA StoredHeld ==
  ASSUME TypeOK, Storing, NEW n \in Nodes, NEW d \in Data,
         Carries(d.from, n, d.i, d.g, d.size), NEW k \in Stored(n, d)
  PROVE  /\ Complete(received[n][k]) => n \in Holders(d.from, d.g)
         /\ d.size = 1 => Complete(received[n][k])
<1>1. PICK x : x = received[n][k]
  OBVIOUS
<1>2. EntryFits(n, x) /\ x.from = d.from /\ x.g = d.g /\ x.i = d.i
  BY <1>1 DEF Storing, Stored, SameMessage
<1>3. Complete(x) => n \in Holders(d.from, d.g)
  BY <1>2, NodesFinite DEF EntryFits, Holders
<1>4. x.size = d.size /\ x.blocks = {0}
  BY <1>2 DEF EntryFits, Carries
<1>5. Cardinality({0}) = 1
  BY FS_Singleton
<1>6. d.size = 1 => Complete(x)
  BY <1>4, <1>5 DEF Complete
<1> QED
  BY <1>1, <1>3, <1>6

\* A new entry of one block is held at once.
LEMMA NewEntryHeld ==
  ASSUME TypeOK, NEW n \in Nodes, NEW d \in Data, ReceiveData(n, d), d.to = n,
         received' = [received EXCEPT ![n] = Append(@, NewEntry(d))], d.size = 1
  PROVE  n \in Holders(d.from, d.g)'
<1>1. PICK q : q = received[n]
  OBVIOUS
<1>2. PICK z : z = NewEntry(d)
  OBVIOUS
<1>3. z.from = d.from /\ z.g = d.g /\ z.size = 1 /\ z.blocks = {0} /\ z \in Received
  BY <1>2 DEF NewEntry, Received, Data, Blocks
<1>4. q \in Seq(Received) /\ Len(q) \in Nat /\ received'[n] = Append(q, z)
  BY <1>1, <1>2, LenProperties DEF TypeOK
<1>5. DOMAIN received'[n] = 1..Len(q) + 1 /\ received'[n][Len(q) + 1] = z
  BY <1>3, <1>4, AppendProperties, LenProperties
<1>6. z \in ToSet(received'[n])
  <2>1. Len(q) + 1 \in DOMAIN received'[n]
    BY <1>4, <1>5
  <2> QED
    BY <1>5, <2>1 DEF ToSet
<1>7. Complete(z)
  <2>1. Cardinality({0}) = 1
    BY FS_Singleton
  <2> QED
    BY <1>3, <2>1 DEF Complete
<1>8. <<z.from, n, z.g>> \in held'
  BY <1>6, <1>7 DEF ReceiveData
<1> QED
  BY <1>3, <1>8 DEF Holders

LEMMA AnswersStep ==
  ASSUME TypeOK, TypeOK', Meeting, Sending, Storing, Counting, AnswersFit, [Next]_vars
  PROVE  AnswersFit'
<1>1. ASSUME NEW a \in Progress, AnswerFits(a) PROVE AnswerFits(a)'
  BY <1>1, AnswerFitsOn
<1>2. ASSUME \A a \in progress' : AnswerFits(a) PROVE AnswersFit'
  BY <1>1, <1>2 DEF AnswersFit, TypeOK
<1>3. ASSUME progress' = progress PROVE AnswersFit'
  BY <1>2, <1>3 DEF AnswersFit
<1>4. ASSUME NEW n \in Nodes, NEW a \in progress, ReceiveProgress(n, a) PROVE AnswersFit'
  <2>1. progress' = progress \/ progress' = progress \cup {[a EXCEPT !.at = Via(n, a.to)]}
    BY <1>4, ReceiveProgressIs
  <2>2. AnswerFits([a EXCEPT !.at = Via(n, a.to)])
    BY RelayedFits DEF TypeOK, AnswersFit
  <2> QED
    BY <1>2, <1>3, <2>1, <2>2 DEF AnswersFit
<1>5. ASSUME NEW n \in Nodes, NEW d \in data, ReceiveData(n, d) PROVE AnswersFit'
  <2>1. CASE d.to # n
    BY <1>3, <1>5, <2>1 DEF ReceiveData
  <2>2. CASE d.to = n
    <3>1. d \in Data /\ Carries(d.from, n, d.i, d.g, d.size) /\ d.from \in knows[n] /\ d.size \in Sizes
      BY <1>5, <2>2 DEF TypeOK, Data, Sending, DataFits, ReceiveData
    <3>2. Store(n, d)
      BY <1>5, <2>2 DEF ReceiveData
    <3>3. GotIsSent /\ InStep /\ DataFits
      BY DEF Counting, Sending
    <3>4. ASSUME NEW blocks \in {Blocks, {0}}, progress' = progress \cup {Answer(n, d, blocks)},
                 (blocks = Blocks \/ d.size = 1) => n \in Holders(d.from, d.g)
          PROVE  AnswersFit'
      <4>1. AnswerFits(Answer(n, d, blocks))
        BY <3>1, <3>4, AnswerIs
      <4> QED
        BY <1>2, <3>4, <4>1 DEF AnswersFit
    <3>5. ASSUME Old(n, d), progress' = progress \cup {Answer(n, d, Blocks)} PROVE AnswersFit'
      BY <3>1, <3>3, <3>4, <3>5, OldHeld
    <3>6. ASSUME NEW k \in Stored(n, d),
                 \/ Complete(received[n][k]) /\ progress' = progress \cup {Answer(n, d, Blocks)}
                 \/ ~Complete(received[n][k]) /\ progress' = progress \cup {Answer(n, d, {0})}
          PROVE  AnswersFit'
      <4>1. /\ Complete(received[n][k]) => n \in Holders(d.from, d.g)
            /\ d.size = 1 => Complete(received[n][k])
        BY <3>1, StoredHeld
      <4>2. {0} # Blocks
        <5>1. 1 \in Blocks /\ 1 \notin {0}
          BY DEF Blocks
        <5> QED
          BY <5>1
      <4> QED
        BY <3>4, <3>6, <4>1, <4>2
    <3>7. ASSUME received' = [received EXCEPT ![n] = Append(@, NewEntry(d))],
                 progress' = progress \cup {Answer(n, d, {0})}
          PROVE  AnswersFit'
      <4>1. PICK a : a = Answer(n, d, {0})
        OBVIOUS
      <4>2. a.from = n /\ a.to = d.from /\ a.i = d.i /\ a.g = d.g /\ a.blocks = {0} /\ a.blocks # Blocks
        <5>1. 1 \in Blocks /\ 1 \notin {0}
          BY DEF Blocks
        <5> QED
          BY <4>1, <5>1 DEF Answer
      <4>3. Carries(d.from, n, d.i, d.g, d.size)'
        BY <3>1, CarriesOn DEF Data
      <4>4. d.size = 1 => n \in Holders(d.from, d.g)'
        BY <1>5, <2>2, <3>1, <3>7, NewEntryHeld
      <4>5. AnswerFits(a)'
        BY <3>1, <4>2, <4>3, <4>4 DEF AnswerFits
      <4>6. progress' = progress \cup {a}
        BY <3>7, <4>1
      <4>7. ASSUME NEW b \in progress' PROVE AnswerFits(b)'
        <5>1. CASE b = a
          BY <4>5, <5>1
        <5>2. CASE b \in progress
          BY <1>1, <5>2 DEF AnswersFit, TypeOK
        <5> QED
          BY <4>6, <5>1, <5>2
      <4> QED
        BY <4>7 DEF AnswersFit
    <3> QED
      BY <3>1, <3>2, <3>3, <3>5, <3>6, <3>7, StoreIs
  <2> QED
    BY <2>1, <2>2
<1>6. CASE UNCHANGED vars
  BY <1>3, <1>6 DEF vars, network
<1>7. ASSUME NEW n \in Nodes, NEW m \in Nodes, Regroups(n, m) PROVE AnswersFit'
  BY <1>3, <1>7 DEF Regroups
<1>8. ASSUME NEW c, EndSession(c) PROVE AnswersFit'
  BY <1>3, <1>8 DEF EndSession, network
<1>9. ASSUME NEW n, SendData(n) PROVE AnswersFit'
  BY <1>3, <1>9 DEF SendData, network
<1>10. ASSUME NEW e, Told(e) \/ HandedOver(e) PROVE AnswersFit'
  BY <1>3, <1>10 DEF Told, HandedOver, network
<1>11. ASSUME NEW n, HandOver(n) PROVE AnswersFit'
  BY <1>3, <1>11 DEF HandOver, network
<1>12. ASSUME NEW n, NEW out, Pass(n, out) PROVE AnswersFit'
  BY <1>3, <1>12, PassIs
<1> QED
  BY <1>4, <1>5, <1>6, <1>7, <1>8, <1>9, <1>10, <1>11, <1>12, Steps

LEMMA AnsweringStep ==
  ASSUME CountInv, CountInv', Answering, [Next]_vars
  PROVE  Answering'
<1>1. /\ TypeOK /\ TypeOK' /\ Meeting /\ Sending /\ Storing /\ Counting /\ HeadersFit
      /\ AnswersFit /\ HeadersHeld /\ ReportsHeld
  BY DEF CountInv, Sending, Answering
<1>2. AnswersFit'
  BY <1>1, AnswersStep
<1>3. HeadersHeld'
  BY <1>1, HeadersHeldStep
<1>4. ReportsHeld'
  BY <1>1, ReportsStep
<1> QED
  BY <1>2, <1>3, <1>4 DEF Answering

\* No player is counted as having received a message that has not all of it, neither
\* in a header nor in what the game is told (handlePacket_10, processDeliverHeaders).
THEOREM HeldByReceivers == Spec => []ReceivedIsHeld
<1>1. CountInv /\ Answering => ReceivedIsHeld
  <2> SUFFICES ASSUME CountInv, Answering PROVE ReceivedIsHeld
    OBVIOUS
  <2>1. ASSUME NEW n \in Nodes, NEW k \in DOMAIN headers[n]
        PROVE  headers[n][k].done <= Cardinality(Holders(n, headers[n][k].g))
    <3>1. PICK h : h = headers[n][k]
      OBVIOUS
    <3>2. PICK D \in SUBSET Holders(n, h.g) : Cardinality(D) = h.done
      BY <3>1 DEF Answering, HeadersHeld, HeaderHeld
    <3>3. Cardinality(D) <= Cardinality(Holders(n, h.g))
      BY HoldersFinite, FS_Subset
    <3> QED
      BY <3>1, <3>2, <3>3
  <2> QED
    BY <2>1 DEF Answering, ReportsHeld, ReportHeld, ReceivedIsHeld, ToSet
<1>2. CountInv /\ CountInv' /\ Answering /\ [Next]_vars => Answering'
  BY AnsweringStep
<1> QED
  BY CountInvInit, CountInvStep, AnsweringInit, <1>1, <1>2, PTL DEF Spec
=============================================================================
