-------------------------- MODULE SystemChannel_proofs --------------------------
(***************************************************************************)
(* Theorems about SystemChannel, for any number of players and slots: the  *)
(* state keeps its types, clients handle the messages scheduled for them   *)
(* in order, the channel implements OrderedDelivery, no message is lost    *)
(* but in the known ways, and whoever has handled all has the host's list. *)
(***************************************************************************)
EXTENDS SystemChannel, SequenceTheorems, LeastElement_proofs

-----------------------------------------------------------------------------
(* What holds of the operations of HandleList whatever the list: its entries come from the *)
(* messages put into it, under their own numbers. *)

Entries(Payload) == [id : Nat, body : Payload, prev : BOOLEAN]

\* Writing the `prev' of an entry changes nothing else of it.
LEMMA WritePrev ==
  ASSUME NEW Payload, NEW e \in Entries(Payload), NEW b \in BOOLEAN
  PROVE  /\ [e EXCEPT !.prev = b] \in Entries(Payload)
         /\ [e EXCEPT !.prev = b].id = e.id
         /\ [e EXCEPT !.prev = b].body = e.body
BY DEF Entries

\* An element put in front of the rest of a sequence.
LEMMA InFrontOf ==
  ASSUME NEW S, NEW x \in S, NEW r \in Seq(S), NEW m \in 1..Len(r)
  PROVE  /\ <<x>> \o SubSeq(r, m, Len(r)) \in Seq(S)
         /\ \A k \in DOMAIN (<<x>> \o SubSeq(r, m, Len(r))) :
              \/ (<<x>> \o SubSeq(r, m, Len(r)))[k] = x
              \/ \E j \in DOMAIN r : (<<x>> \o SubSeq(r, m, Len(r)))[k] = r[j]
<1>1. PICK t : t = SubSeq(r, m, Len(r))
  OBVIOUS
<1>2. PICK e : e = <<x>>
  OBVIOUS
<1>3. /\ t \in Seq(S)
      /\ \A j \in 1..Len(t) : m + j - 1 \in DOMAIN r /\ t[j] = r[m + j - 1]
  BY <1>1, LenProperties, SubSeqProperties
<1>4. e \in Seq(S) /\ Len(e) = 1 /\ e[1] = x
  BY <1>2
<1>5. /\ e \o t \in Seq(S)
      /\ Len(e \o t) = 1 + Len(t)
      /\ \A k \in 1..(1 + Len(t)) : (e \o t)[k] = IF k <= 1 THEN e[k] ELSE t[k - 1]
  <2>1. /\ e \o t \in Seq(S)
        /\ Len(e \o t) = Len(e) + Len(t)
        /\ \A k \in 1..(Len(e) + Len(t)) :
             (e \o t)[k] = IF k <= Len(e) THEN e[k] ELSE t[k - Len(e)]
    BY <1>3, <1>4, ConcatProperties
  <2> QED
    BY <2>1, <1>4
<1>6. DOMAIN (e \o t) = 1..(1 + Len(t)) /\ Len(t) \in Nat
  BY <1>3, <1>5, LenProperties
<1>7. ASSUME NEW k \in DOMAIN (e \o t)
      PROVE  (e \o t)[k] = x \/ \E j \in DOMAIN r : (e \o t)[k] = r[j]
  <2>1. CASE k = 1
    BY <2>1, <1>4, <1>5, <1>6
  <2>2. CASE k # 1
    <3>1. k - 1 \in 1..Len(t) /\ (e \o t)[k] = t[k - 1]
      BY <2>2, <1>5, <1>6
    <3>2. m + (k - 1) - 1 \in DOMAIN r /\ t[k - 1] = r[m + (k - 1) - 1]
      BY <3>1, <1>3
    <3> QED
      BY <3>1, <3>2
  <2> QED
    BY <2>1, <2>2
<1> QED
  BY <1>1, <1>2, <1>5, <1>7

\* A sequence without its first element, the next one rewritten.
LEMMA RewriteSecond ==
  ASSUME NEW Payload, NEW q \in Seq(Entries(Payload)), q # << >>, Len(q) # 1
  PROVE  /\ [Tail(q) EXCEPT ![1].prev = FALSE] \in Seq(Entries(Payload))
         /\ \A k \in DOMAIN [Tail(q) EXCEPT ![1].prev = FALSE] : \E j \in DOMAIN q :
              /\ [Tail(q) EXCEPT ![1].prev = FALSE][k].id = q[j].id
              /\ [Tail(q) EXCEPT ![1].prev = FALSE][k].body = q[j].body
<1>1. PICK t : t = Tail(q)
  OBVIOUS
<1>2. Len(q) \in Nat /\ Len(q) > 1
  <2>1. Len(q) \in Nat
    BY LenProperties
  <2>2. Len(q) # 0
    BY EmptySeq
  <2>3. \A n \in Nat : n # 0 /\ n # 1 => n > 1
    OBVIOUS
  <2> QED
    BY <2>1, <2>2, <2>3, Zenon
<1>3. /\ t \in Seq(Entries(Payload)) /\ Len(t) = Len(q) - 1
      /\ \A k \in 1..Len(t) : t[k] = q[k + 1]
  BY <1>1, HeadTailProperties
<1>4. 1 \in 1..Len(t) /\ t[1] \in Entries(Payload)
  BY <1>2, <1>3, ElementOfSeq
<1>5. PICK f : f = [t[1] EXCEPT !.prev = FALSE]
  OBVIOUS
<1>6. f \in Entries(Payload) /\ f.id = t[1].id /\ f.body = t[1].body
  BY <1>4, <1>5, WritePrev
<1>7. PICK s : s = [t EXCEPT ![1] = f]
  OBVIOUS
<1>8. /\ s \in Seq(Entries(Payload)) /\ DOMAIN s = 1..Len(t)
      /\ \A k \in 1..Len(t) : s[k] = IF k = 1 THEN f ELSE t[k]
  BY <1>3, <1>4, <1>6, <1>7, ExceptSeq, LenProperties
<1>9. \A k \in DOMAIN s : k + 1 \in DOMAIN q /\ s[k].id = q[k + 1].id /\ s[k].body = q[k + 1].body
  BY <1>2, <1>3, <1>6, <1>8, LenProperties
<1>10. s = [t EXCEPT ![1].prev = FALSE]
  BY <1>5, <1>7
<1> QED
  BY <1>1, <1>8, <1>9, <1>10

\* The loop that looks for the first larger number stops at an entry of the list.
LEMMA FirstAboveExists ==
  ASSUME NEW Payload, NEW q \in Seq(Entries(Payload)), NEW i \in Nat,
         Above(q, i) # {}
  PROVE  FirstAbove(q, i) \in 1..Len(q)
<1>1. Above(q, i) \in SUBSET Nat
  BY LenProperties DEF Above
<1>2. \E k \in Above(q, i) : \A j \in Above(q, i) : k <= j
  BY <1>1, LeastElement
<1>3. FirstAbove(q, i) \in Above(q, i)
  BY <1>2 DEF FirstAbove
<1> QED
  BY <1>3, LenProperties DEF Above

\* w holds entries of q and entries for number i with the given body.
OneMore(q, i, body, w) ==
  \A k \in DOMAIN w :
    \/ w[k].id = i /\ w[k].body = body
    \/ \E j \in DOMAIN q : w[k].id = q[j].id /\ w[k].body = q[j].body

\* Insert yields a list whose entries are old ones or the new one: numbers and
\* contents stay together.
THEOREM InsertEntries ==
  ASSUME NEW Payload, NEW q \in Seq(Entries(Payload)), NEW i \in Nat, NEW body \in Payload
  PROVE  /\ Insert(q, i, body) \in Seq(Entries(Payload))
         /\ OneMore(q, i, body, Insert(q, i, body))
<1> DEFINE k0 == FirstAbove(q, i)
           r == [q EXCEPT ![k0].prev = TRUE]
           FromList(s) == \A k \in DOMAIN s :
             \/ s[k].id = i /\ s[k].body = body
             \/ \E j \in DOMAIN q : s[k].id = q[j].id /\ s[k].body = q[j].body
           Good(s) == s \in Seq(Entries(Payload)) /\ FromList(s)
<1>1. Entry(i, body, TRUE) \in Entries(Payload) /\ Entry(i, body, FALSE) \in Entries(Payload)
  BY DEF Entry, Entries
<1>2. Good(<<Entry(i, body, FALSE)>>)
  BY <1>1 DEF Entry
<1>3. Good(Append(q, Entry(i, body, TRUE)))
  BY <1>1, LenProperties, AppendProperties DEF Entry
<1>4. ASSUME Above(q, i) # {} PROVE Good(r)
  <2>1. k0 \in 1..Len(q)
    BY <1>4, FirstAboveExists
  <2>2. [q[k0] EXCEPT !.prev = TRUE] \in Entries(Payload)
    BY <2>1, ElementOfSeq, WritePrev
  <2>3. r = [q EXCEPT ![k0] = [q[k0] EXCEPT !.prev = TRUE]]
    OBVIOUS
  <2>4. r \in Seq(Entries(Payload)) /\ Len(r) = Len(q) /\ DOMAIN r = DOMAIN q
    BY <2>1, <2>2, <2>3, ExceptSeq, LenProperties
  <2>5. \A k \in DOMAIN q : r[k].id = q[k].id /\ r[k].body = q[k].body
    BY <2>1, LenProperties DEF Entries
  <2> QED
    BY <2>4, <2>5
<1>5. ASSUME Above(q, i) # {}
      PROVE  Good(<<Entry(i, body, TRUE)>> \o SubSeq(r, k0, Len(q)))
  <2>1. k0 \in 1..Len(q) /\ Good(r) /\ Len(r) = Len(q)
    BY <1>4, <1>5, FirstAboveExists, LenProperties
  <2>2. Entry(i, body, TRUE).id = i /\ Entry(i, body, TRUE).body = body
    BY DEF Entry
  <2>3. PICK m, w, x : m = k0 /\ w = r /\ x = Entry(i, body, TRUE)
    OBVIOUS
  <2>4. m \in 1..Len(w) /\ Good(w) /\ Len(w) = Len(q)
    BY <2>1, <2>3
  <2>5. x \in Entries(Payload) /\ x.id = i /\ x.body = body
    BY <1>1, <2>2, <2>3
  <2>6. PICK s : s = <<x>> \o SubSeq(w, m, Len(w))
    OBVIOUS
  <2>7. /\ s \in Seq(Entries(Payload))
        /\ \A k \in DOMAIN s : s[k] = x \/ \E j \in DOMAIN w : s[k] = w[j]
    BY <2>4, <2>5, <2>6, InFrontOf
  <2>8. Good(s)
    BY <2>4, <2>5, <2>7
  <2>9. s = <<Entry(i, body, TRUE)>> \o SubSeq(r, k0, Len(q))
    <3> HIDE DEF r, k0
    <3> QED
      BY <2>3, <2>4, <2>6
  <2> QED
    BY <2>8, <2>9, Zenon
<1>6. Good(Insert(q, i, body))
  <2>1. CASE q = << >>
    BY <2>1, <1>2 DEF Insert
  <2>2. CASE q # << >> /\ Above(q, i) = {}
    BY <2>2, <1>3 DEF Insert
  <2>3. CASE q # << >> /\ Above(q, i) # {} /\ q[k0].prev
    BY <2>3, <1>5 DEF Insert
  <2>4. CASE q # << >> /\ Above(q, i) # {} /\ ~q[k0].prev
    BY <2>4, <1>4 DEF Insert
  <2> QED
    BY <2>1, <2>2, <2>3, <2>4
<1>7. OneMore(q, i, body, Insert(q, i, body))
  BY <1>6 DEF OneMore
<1> QED
  BY <1>6, <1>7

\* Popping leaves entries of the list, none of them changed but for `prev'.
THEOREM PoppedEntries ==
  ASSUME NEW Payload, NEW q \in Seq(Entries(Payload)), q # << >>
  PROVE  /\ Popped(q) \in Seq(Entries(Payload))
         /\ \A k \in DOMAIN Popped(q) : \E j \in DOMAIN q :
              Popped(q)[k].id = q[j].id /\ Popped(q)[k].body = q[j].body
<1>1. CASE Head(q).prev \/ Len(q) = 1
  BY <1>1, EmptySeq DEF Popped
<1>2. CASE ~(Head(q).prev \/ Len(q) = 1)
  BY ZenonT(60), <1>2, RewriteSecond DEF Popped
<1> QED
  BY <1>1, <1>2

-----------------------------------------------------------------------------
(* Types *)

USE NoPlayerAssumption, NSlotsAssumption, CapAssumption, MaxCopiesAssumption

LEMMA BodyTypes ==
  /\ \A s \in Slots, p \in Players : [ty |-> "Create", slot |-> s, who |-> p] \in Body
  /\ \A p \in Players : [ty |-> "Leave", who |-> p] \in Body
  /\ \A l \in PlayerList : [ty |-> "List", list |-> l] \in Body
BY DEF Body

LEMMA AppliedType ==
  ASSUME NEW l \in PlayerList, NEW b \in Body
  PROVE  Applied(l, b) \in PlayerList
<1>1. CASE b.ty = "Create"
  <2>1. b.slot \in Slots /\ b.who \in Players
    BY <1>1 DEF Body
  <2> QED
    BY <1>1, <2>1 DEF Applied, PlayerList
<1>2. CASE b.ty = "List"
  <2>1. b.list \in PlayerList
    BY <1>2 DEF Body
  <2> QED
    BY <1>2, <2>1 DEF Applied, PlayerList
<1>3. CASE b.ty = "Leave"
  BY <1>3 DEF Applied, PlayerList
<1>4. b.ty = "Create" \/ b.ty = "List" \/ b.ty = "Leave"
  BY DEF Body
<1> QED
  BY <1>1, <1>2, <1>3, <1>4

\* What is scheduled are packets that carry the next number of their slot.
LEMMA ScheduledPackets ==
  ASSUME TypeOK, NEW l \in PlayerList, NEW b \in Body
  PROVE  /\ Scheduled(l, b) \subseteq Packet
         /\ \A x \in Scheduled(l, b) :
              l[x.slot] # NoPlayer /\ x.id = nextId[x.slot] /\ x.body = b
<1> SUFFICES ASSUME NEW x \in Scheduled(l, b)
             PROVE  /\ x \in Packet
                    /\ l[x.slot] # NoPlayer /\ x.id = nextId[x.slot] /\ x.body = b
  OBVIOUS
<1>1. PICK s \in Slots :
        /\ l[s] # NoPlayer
        /\ x = [slot |-> s, id |-> nextId[s], body |-> b, sent |-> FALSE]
  BY DEF Scheduled
<1>2. nextId[s] \in Nat
  BY DEF TypeOK
<1> QED
  BY <1>1, <1>2 DEF Packet

LEMMA InSlotOrderSeq ==
  ASSUME NEW S \in SUBSET Packet, NEW q \in InSlotOrder(S)
  PROVE  q \in Seq(Packet) /\ \A i \in DOMAIN q : q[i] \in S
BY DEF InSlotOrder

\* Refilling the table neither makes up nor changes a packet.
LEMMA RefillPackets ==
  ASSUME NEW arr \in SUBSET Packet, NEW q \in Seq(Packet), Refill(arr, q)
  PROVE  /\ inflight' \in SUBSET Packet /\ overflow' \in Seq(Packet)
         /\ \A x \in inflight' : x \in arr \/ \E i \in DOMAIN q : x = q[i]
         /\ \A k \in DOMAIN overflow' : \E i \in DOMAIN q : overflow'[k] = q[i]
<1>1. PICK n \in 0..Len(q) :
        /\ inflight' = arr \cup {q[i] : i \in 1..n}
        /\ overflow' = SubSeq(q, n + 1, Len(q))
  BY DEF Refill
<1>2. \A i \in 1..n : i \in DOMAIN q /\ q[i] \in Packet
  BY LenProperties, ElementOfSeq
<1>3. /\ overflow' \in Seq(Packet)
      /\ \A k \in DOMAIN overflow' : n + 1 + k - 1 \in DOMAIN q /\ overflow'[k] = q[n + 1 + k - 1]
  BY <1>1, LenProperties, SubSeqProperties
<1> QED
  BY <1>1, <1>2, <1>3

LEMMA LoggedType ==
  ASSUME TypeOK, NEW l \in PlayerList, NEW b \in Body
  PROVE  /\ Logged(l, b) \in [Players -> Seq(Body)]
         /\ Numbered(l) \in [Slots -> Nat]
BY AppendProperties DEF Logged, Numbered, TypeOK

LEMMA TypeInit == Init => TypeOK
BY EmptySeq DEF Init, TypeOK, PlayerList, Slots

\* The variables a scheduling step sets keep their types.
LEMMA ScheduleTypes ==
  ASSUME TypeOK, NEW arr \in SUBSET Packet, NEW q \in Seq(Packet),
         Refill(arr, overflow \o q)
  PROVE  inflight' \subseteq Packet /\ overflow' \in Seq(Packet)
<1>1. overflow \o q \in Seq(Packet)
  BY ConcatProperties DEF TypeOK
<1> QED
  BY <1>1, RefillPackets

LEMMA JoinType ==
  ASSUME TypeOK, NEW p \in Players, Join(p)
  PROVE  TypeOK'
<1>1. PICK s \in Slots :
        LET l == [list EXCEPT ![s] = p]
            plist == [ty |-> "List", list |-> l]
            create == [ty |-> "Create", slot |-> s, who |-> p]
        IN /\ list' = l
           /\ pid' = [pid EXCEPT ![p] = s]
           /\ nextId' = [Numbered(list) EXCEPT ![s] = nextId[s] + 1]
           /\ log' = [Logged(list, create) EXCEPT ![p] = Append(log[p], plist)]
           /\ \E q \in InSlotOrder(Scheduled(list, create)) :
                Refill(inflight,
                       overflow \o Append(q, [slot |-> s, id |-> nextId[s],
                                              body |-> plist, sent |-> FALSE]))
           /\ tainted' = [tainted EXCEPT ![p] =
                \/ \E x \in inflight : x.slot = s
                \/ \E i \in DOMAIN overflow : overflow[i].slot = s]
  BY DEF Join
<1> DEFINE l == [list EXCEPT ![s] = p]
           plist == [ty |-> "List", list |-> l]
           create == [ty |-> "Create", slot |-> s, who |-> p]
           last == [slot |-> s, id |-> nextId[s], body |-> plist, sent |-> FALSE]
<1>2. l \in PlayerList /\ list \in PlayerList
  BY DEF TypeOK, PlayerList
<1>3. plist \in Body /\ create \in Body
  BY <1>2, BodyTypes
<1>4. last \in Packet
  BY <1>3 DEF Packet, TypeOK
<1>5. inflight' \subseteq Packet /\ overflow' \in Seq(Packet)
  <2>1. PICK q \in InSlotOrder(Scheduled(list, create)) :
          Refill(inflight, overflow \o Append(q, last))
    BY <1>1
  <2>2. q \in Seq(Packet)
    BY <1>2, <1>3, ScheduledPackets, InSlotOrderSeq
  <2>3. Append(q, last) \in Seq(Packet)
    BY <1>4, <2>2, AppendProperties
  <2> QED
    BY <2>1, <2>3, ScheduleTypes DEF TypeOK
<1>6. log' \in [Players -> Seq(Body)] /\ nextId' \in [Slots -> Nat]
  <2>1. Append(log[p], plist) \in Seq(Body)
    BY <1>3, AppendProperties DEF TypeOK
  <2>2. /\ Logged(list, create) \in [Players -> Seq(Body)]
        /\ Numbered(list) \in [Slots -> Nat]
    BY <1>2, <1>3, LoggedType
  <2>3. nextId[s] + 1 \in Nat
    BY DEF TypeOK
  <2> QED
    BY <1>1, <2>1, <2>2, <2>3
<1>7. list' \in PlayerList /\ pid' \in [Players -> {0} \cup Slots] /\ tainted' \in [Players -> BOOLEAN]
  BY <1>1, <1>2 DEF TypeOK
<1>8. UNCHANGED <<pending, net, acks, conn, next, queue, freed, view, handled, excused>>
  BY DEF Join, clientVars
<1>9. wakes' \in BOOLEAN
  BY DEF Join
<1> QED
  BY <1>5, <1>6, <1>7, <1>8, <1>9 DEF TypeOK

LEMMA RemoveType ==
  ASSUME TypeOK, NEW t \in Threads, NEW p \in Players, Remove(t, p)
  PROVE  TypeOK'
<1>1. list' \in PlayerList /\ nextId' \in [Slots -> Nat]
  BY DEF Remove, TypeOK, PlayerList
<1>2. inflight' \subseteq Packet
  BY DEF Remove, Released, TypeOK
<1>3. pending' \in [Threads -> Players \cup {NoPlayer}]
  BY DEF Remove, TypeOK
<1> QED
  BY <1>1, <1>2, <1>3 DEF Remove, TypeOK, clientVars

LEMMA EchoType == \A p \in Players : Echo(p) \in Datagram
BY BodyTypes DEF Echo, Datagram

LEMMA DestroyPlayerType ==
  ASSUME TypeOK, NEW p \in Players, DestroyPlayer(p)
  PROVE  TypeOK'
<1>1. CASE Remove("listen", p)
  BY <1>1, RemoveType DEF Threads
<1>2. CASE /\ net' = net \cup {Echo(p)}
           /\ UNCHANGED <<hostVars, acks, pid, clientVars, log, tainted, excused>>
  BY <1>2, EchoType DEF TypeOK, hostVars, clientVars
<1> QED
  BY <1>1, <1>2 DEF DestroyPlayer

LEMMA ScheduleLeaveType ==
  ASSUME TypeOK, NEW t \in Threads, ScheduleLeave(t)
  PROVE  TypeOK'
<1> DEFINE p == pending[t]
           bye == [ty |-> "Leave", who |-> p]
<1>1. p \in Players /\ bye \in Body
  BY BodyTypes DEF ScheduleLeave, TypeOK
<1>2. list \in PlayerList
  BY DEF TypeOK
<1>3. inflight' \subseteq Packet /\ overflow' \in Seq(Packet)
  <2>1. PICK q \in InSlotOrder(Scheduled(list, bye)) : Refill(inflight, overflow \o q)
    BY DEF ScheduleLeave
  <2>2. q \in Seq(Packet)
    BY <1>1, <1>2, ScheduledPackets, InSlotOrderSeq
  <2> QED
    BY <2>1, <2>2, ScheduleTypes DEF TypeOK
<1>4. log' \in [Players -> Seq(Body)] /\ nextId' \in [Slots -> Nat]
  BY <1>1, <1>2, LoggedType DEF ScheduleLeave
<1>5. net' \subseteq Datagram /\ pending' \in [Threads -> Players \cup {NoPlayer}]
  BY <1>1, EchoType DEF ScheduleLeave, TypeOK
<1>6. UNCHANGED <<list, acks, pid, conn, next, queue, freed, view, handled, tainted, excused>>
  BY DEF ScheduleLeave, clientVars
<1>7. wakes' \in BOOLEAN
  BY DEF ScheduleLeave
<1> QED
  BY <1>3, <1>4, <1>5, <1>6, <1>7 DEF TypeOK

LEMMA DeliverType ==
  ASSUME TypeOK, Deliver
  PROVE  TypeOK'
<1>1. PICK due \in SUBSET Sent : \E old \in SUBSET (Sent \ due) : DeliverThese(due, old)
  BY DEF Deliver
<1>2. PICK old \in SUBSET (Sent \ due) : DeliverThese(due, old)
  BY <1>1
<1>3. PICK n \in 0..Len(overflow) :
        LET arr == inflight \cup {overflow[i] : i \in 1..n}
            out == due \cup {x \in arr : ~x.sent}
        IN /\ overflow' = SubSeq(overflow, n + 1, Len(overflow))
           /\ inflight' = (arr \ (out \cup old)) \cup {[x EXCEPT !.sent = TRUE] : x \in out}
           /\ net' = net \cup {[to |-> list[x.slot], id |-> x.id, body |-> x.body] :
                                x \in {y \in out : list[y.slot] # NoPlayer}}
           /\ excused' = [p \in Players |->
                excused[p] \cup {x.id : x \in {y \in old : list[y.slot] = p}}]
  BY <1>2 DEF DeliverThese
<1> DEFINE arr == inflight \cup {overflow[i] : i \in 1..n}
           out == due \cup {x \in arr : ~x.sent}
<1>4. arr \subseteq Packet /\ out \subseteq Packet /\ old \subseteq Packet
  <2>1. \A i \in 1..n : overflow[i] \in Packet
    BY ElementOfSeq, LenProperties DEF TypeOK
  <2> QED
    BY <2>1 DEF Sent, TypeOK
<1>5. overflow' \in Seq(Packet)
  BY <1>3, SubSeqProperties, LenProperties, ElementOfSeq DEF TypeOK
<1>6. inflight' \subseteq Packet
  <2>1. \A x \in Packet : [x EXCEPT !.sent = TRUE] \in Packet
    BY DEF Packet
  <2> QED
    BY <1>3, <1>4, <2>1
<1>7. net' \subseteq Datagram
  <2>1. \A x \in out : list[x.slot] # NoPlayer =>
          [to |-> list[x.slot], id |-> x.id, body |-> x.body] \in Datagram
    BY <1>4 DEF Packet, Datagram, TypeOK, PlayerList
  <2> QED
    BY <1>3, <2>1 DEF TypeOK
<1>8. excused' \in [Players -> SUBSET Nat]
  <2>1. \A x \in old : x.id \in Nat
    BY <1>4 DEF Packet
  <2> QED
    BY <1>3, <2>1 DEF TypeOK
<1>9. UNCHANGED <<list, nextId, pending, acks, pid, clientVars, log, tainted>>
  BY <1>2 DEF DeliverThese
<1>10. wakes' \in BOOLEAN
  BY <1>2 DEF DeliverThese
<1> QED
  BY <1>5, <1>6, <1>7, <1>8, <1>9, <1>10 DEF TypeOK, clientVars

LEMMA HandleAckType ==
  ASSUME TypeOK, NEW a \in acks, HandleAck(a)
  PROVE  TypeOK'
<1>1. inflight' \subseteq Packet
  BY DEF HandleAck, TypeOK
<1>2. excused' \in [Players -> SUBSET Nat]
  <2>1. \A x \in inflight : x.id \in Nat
    BY DEF TypeOK, Packet
  <2>2. PICK lost : /\ lost \subseteq {x.id : x \in inflight}
                    /\ excused' = [excused EXCEPT ![a.from] = @ \cup lost]
    BY DEF HandleAck
  <2>3. lost \in SUBSET Nat
    BY <2>1, <2>2
  <2> QED
    BY <2>2, <2>3 DEF TypeOK
<1> QED
  BY <1>1, <1>2 DEF HandleAck, TypeOK, clientVars

LEMMA ConnectType ==
  ASSUME TypeOK, NEW p \in Players, Connect(p) \/ AskToLeave(p) \/ StopWaiting(p)
  PROVE  TypeOK'
<1>1. conn' \in [Players -> {"out", "in", "leaving", "gone"}]
  BY DEF Connect, AskToLeave, StopWaiting, TypeOK
<1>2. view' \in [Players -> PlayerList]
  <2>1. CASE Connect(p)
    BY <2>1 DEF Connect, TypeOK, PlayerList
  <2>2. CASE UNCHANGED view
    BY <2>2 DEF TypeOK
  <2> QED
    BY <2>1, <2>2 DEF AskToLeave, StopWaiting
<1>3. UNCHANGED <<hostVars, net, acks, pid, next, queue, freed, log, handled, tainted, excused>>
  BY DEF Connect, AskToLeave, StopWaiting
<1> QED
  BY <1>1, <1>2, <1>3 DEF TypeOK, hostVars

LEMMA QueueTypes ==
  ASSUME TypeOK, NEW p \in Players
  PROVE  /\ queue[p] \in Seq(Entries(Body))
         /\ \A k \in DOMAIN queue[p] : queue[p][k].id \in Nat /\ queue[p][k].body \in Body
<1>1. queue[p] \in Seq(Entries(Body))
  BY DEF TypeOK, Entries
<1>2. \A k \in DOMAIN queue[p] : queue[p][k] \in Entries(Body)
  BY <1>1, ElementOfSeq, LenProperties
<1> QED
  BY <1>1, <1>2 DEF Entries

\* Putting a message into a typed list keeps the types of the list and of excused.
LEMMA AddToHandleType ==
  ASSUME TypeOK, NEW p \in Players, NEW i \in Nat, NEW b \in Body,
         AddToHandle(p, queue[p], i, b)
  PROVE  /\ queue' \in [Players -> Seq([id : Nat, body : Body, prev : BOOLEAN])]
         /\ excused' \in [Players -> SUBSET Nat]
<1>1. queue[p] \in Seq(Entries(Body))
  BY QueueTypes
<1>2. Insert(queue[p], i, b) \in Seq(Entries(Body))
  BY <1>1, InsertEntries
<1>3. \A k \in DOMAIN queue[p] : queue[p][k].id \in Nat
  BY QueueTypes
<1>4. PICK lost : /\ lost \subseteq {i} \cup {queue[p][k].id : k \in DOMAIN queue[p]}
                  /\ excused' = [excused EXCEPT ![p] = @ \cup lost]
  BY DEF AddToHandle
<1>5. lost \in SUBSET Nat
  BY <1>3, <1>4
<1>6. excused' \in [Players -> SUBSET Nat]
  BY <1>4, <1>5 DEF TypeOK
<1> QED
  BY <1>2, <1>6 DEF AddToHandle, TypeOK, Entries

LEMMA AcknowledgeType ==
  ASSUME TypeOK, NEW p \in Players, NEW i \in Nat, Acknowledge(p, i)
  PROVE  acks' \subseteq Ack
BY DEF Acknowledge, Ack, TypeOK

LEMMA ReceiveType ==
  ASSUME TypeOK, NEW p \in Players, NEW m \in net, Receive(p, m)
  PROVE  TypeOK'
<1>1. m.to = p /\ m.id \in Nat /\ m.body \in Body
  BY DEF Receive, TypeOK, Datagram
<1>2. /\ queue' \in [Players -> Seq([id : Nat, body : Body, prev : BOOLEAN])]
      /\ excused' \in [Players -> SUBSET Nat]
      /\ acks' \subseteq Ack
  <2>1. CASE ReceiveUpdate(p, m)
    BY <1>1, <2>1, AddToHandleType, AcknowledgeType DEF ReceiveUpdate, TypeOK
  <2>2. CASE ReceiveLeave(p, m)
    BY <1>1, <2>2, AddToHandleType, AcknowledgeType DEF ReceiveLeave, TypeOK
  <2>3. CASE ReceiveOwnLeave(p, m)
    <3>1. Insert(<< >>, next[p], m.body) \in Seq(Entries(Body))
      BY <1>1, InsertEntries, EmptySeq DEF TypeOK
    <3> QED
      BY <2>3, <3>1 DEF ReceiveOwnLeave, TypeOK, Entries
  <2> QED
    BY <2>1, <2>2, <2>3 DEF Receive
<1> QED
  BY <1>2 DEF Receive, TypeOK, hostVars

LEMMA HandleType ==
  ASSUME TypeOK, NEW p \in Players, Handle(p)
  PROVE  TypeOK'
<1> DEFINE e == Head(queue[p])
<1>1. queue[p] \in Seq(Entries(Body)) /\ queue[p] # << >>
  BY DEF Handle, Ready, TypeOK, Entries
<1>2. e \in Entries(Body)
  BY <1>1, HeadTailProperties
<1>3. Popped(queue[p]) \in Seq(Entries(Body))
  BY <1>1, PoppedEntries
<1>4. queue' \in [Players -> Seq([id : Nat, body : Body, prev : BOOLEAN])]
  BY <1>3 DEF Handle, TypeOK, Entries
<1>5. e.body \in Body /\ e.prev \in BOOLEAN
  BY <1>2 DEF Entries
<1>6. handled' \in [Players -> Seq(Body)]
  BY <1>5, AppendProperties DEF Handle, TypeOK
<1>7. view' \in [Players -> PlayerList]
  BY <1>5, AppliedType DEF Handle, TypeOK
<1>8. freed' \in [Players -> BOOLEAN]
  BY <1>5 DEF Handle, TypeOK
<1>9. /\ next' \in [Players -> Nat]
      /\ conn' \in [Players -> {"out", "in", "leaving", "gone"}]
  BY DEF Handle, TypeOK
<1> QED
  BY <1>4, <1>6, <1>7, <1>8, <1>9 DEF Handle, TypeOK, hostVars

LEMMA HandleFreedType ==
  ASSUME TypeOK, NEW p \in Players, HandleFreed(p)
  PROVE  TypeOK'
<1>1. PICK i \in DOMAIN log[p] :
        /\ handled' = [handled EXCEPT ![p] = Append(@, log[p][i])]
        /\ view' = [view EXCEPT ![p] = Applied(@, log[p][i])]
  BY DEF HandleFreed
<1>2. log[p][i] \in Body
  BY ElementOfSeq, LenProperties DEF TypeOK
<1>3. handled' \in [Players -> Seq(Body)]
  BY <1>1, <1>2, AppendProperties DEF TypeOK
<1>4. view' \in [Players -> PlayerList]
  BY <1>1, <1>2, AppliedType DEF TypeOK
<1>5. next' \in [Players -> Nat]
  BY DEF HandleFreed, TypeOK
<1> QED
  BY <1>3, <1>4, <1>5 DEF HandleFreed, TypeOK, hostVars

LEMMA TypeStep == TypeOK /\ [Next]_vars => TypeOK'
<1> SUFFICES ASSUME TypeOK, [Next]_vars
             PROVE  TypeOK'
  OBVIOUS
<1>1. ASSUME NEW p \in Players, Join(p) PROVE TypeOK'
  BY <1>1, JoinType
<1>2. ASSUME NEW p \in Players, DestroyPlayer(p) PROVE TypeOK'
  BY <1>2, DestroyPlayerType
<1>3. ASSUME NEW p \in Players, Kick(p) PROVE TypeOK'
  BY <1>3, RemoveType DEF Kick, Threads
<1>4. ASSUME NEW p \in Players, Connect(p) \/ AskToLeave(p) \/ StopWaiting(p) PROVE TypeOK'
  BY <1>4, ConnectType
<1>5. ASSUME NEW p \in Players, Handle(p) PROVE TypeOK'
  BY <1>5, HandleType
<1>6. ASSUME NEW p \in Players, HandleFreed(p) PROVE TypeOK'
  BY <1>6, HandleFreedType
<1>7. ASSUME NEW p \in Players, NEW m \in net, Receive(p, m) PROVE TypeOK'
  BY <1>7, ReceiveType
<1>8. ASSUME NEW t \in Threads, ScheduleLeave(t) PROVE TypeOK'
  BY <1>8, ScheduleLeaveType
<1>9. ASSUME NEW a \in acks, HandleAck(a) PROVE TypeOK'
  BY <1>9, HandleAckType
<1>10. CASE Deliver
  BY <1>10, DeliverType
<1>11. CASE UNCHANGED vars
  BY <1>11 DEF TypeOK, vars
<1> QED
  BY <1>1, <1>2, <1>3, <1>4, <1>5, <1>6, <1>7, <1>8, <1>9, <1>10, <1>11 DEF Next

\* Every variable of host, network and clients keeps its type in every step.
THEOREM Types == Spec => []TypeOK
<1>1. Init => TypeOK
  BY TypeInit
<1>2. TypeOK /\ [Next]_vars => TypeOK'
  BY TypeStep
<1> QED
  BY <1>1, <1>2, PTL DEF Spec

-----------------------------------------------------------------------------
(* Order.  The invariant follows a message from the log through the table, the *)
(* overflow queue, the network and the client's list: wherever it is found     *)
(* under number i, it is the message logged under number i.                    *)

Carries(lg, x) == x.id < Len(lg) /\ x.body = lg[x.id + 1]

Staying(p) == conn[p] \in {"out", "in"}
Held == inflight \cup {overflow[k] : k \in DOMAIN overflow}

\* Who is where: a slot, the id it gave and the state of that player agree.
Members ==
  /\ \A s \in Slots : list[s] # NoPlayer => pid[list[s]] = s
  /\ \A s \in Slots : list[s] = NoPlayer => nextId[s] = 0
  /\ \A p \in Players : pid[p] = 0 => conn[p] = "out" /\ log[p] = << >>
  /\ \A m \in net : pid[m.to] # 0
  /\ \A t \in Threads : pending[t] # NoPlayer =>
       pid[pending[t]] # 0 /\ ~Joined(list, pending[t])
  /\ pending["listen"] # NoPlayer => ~Staying(pending["listen"])
  /\ \A p \in Players : conn[p] = "out" =>
       queue[p] = << >> /\ next[p] = 0 /\ handled[p] = << >>

Numbers == \A s \in Slots : list[s] # NoPlayer => nextId[s] = Len(log[list[s]])

HeldMatch ==
  \A x \in Held : (list[x.slot] # NoPlayer /\ ~tainted[list[x.slot]])
                    => Carries(log[list[x.slot]], x)

NetMatch ==
  \A m \in net : (~tainted[m.to] /\ Staying(m.to)) => Carries(log[m.to], m)

QueueMatch ==
  \A p \in Players : (Sound(p) /\ Staying(p)) =>
    \A k \in DOMAIN queue[p] : Carries(log[p], queue[p][k])

\* Nobody is told of its own leave by a scheduled message.
NoOwnLeave ==
  \A p \in Players : \A i \in DOMAIN log[p] : log[p][i] # [ty |-> "Leave", who |-> p]

IInv ==
  /\ TypeOK /\ Members /\ Numbers
  /\ HeldMatch /\ NetMatch /\ QueueMatch /\ NoOwnLeave
  /\ InOrder

\* A log that grows keeps what was in it.
LEMMA Grown ==
  ASSUME NEW lg \in Seq(Body), NEW b \in Body
  PROVE  /\ \A x : (x.id \in Nat /\ Carries(lg, x)) => Carries(Append(lg, b), x)
         /\ \A n \in 0..Len(lg) : SubSeq(Append(lg, b), 1, n) = SubSeq(lg, 1, n)
         /\ \A x : (x.id = Len(lg) /\ x.body = b) => Carries(Append(lg, b), x)
         /\ Len(Append(lg, b)) = Len(lg) + 1
<1>1. /\ Append(lg, b) \in Seq(Body) /\ Len(Append(lg, b)) = Len(lg) + 1
      /\ \A i \in 1..Len(lg) : Append(lg, b)[i] = lg[i]
      /\ Append(lg, b)[Len(lg) + 1] = b
      /\ Len(lg) \in Nat
  BY AppendProperties, LenProperties
<1>2. ASSUME NEW x, x.id \in Nat, Carries(lg, x) PROVE Carries(Append(lg, b), x)
  BY <1>1, <1>2 DEF Carries
<1>3. ASSUME NEW n \in 0..Len(lg)
      PROVE  SubSeq(Append(lg, b), 1, n) = SubSeq(lg, 1, n)
  <2>1. /\ SubSeq(Append(lg, b), 1, n) \in Seq(Body)
        /\ Len(SubSeq(Append(lg, b), 1, n)) = n
        /\ \A i \in 1..n : SubSeq(Append(lg, b), 1, n)[i] = lg[i]
    BY <1>1, SubSeqProperties, ElementOfSeq
  <2>2. /\ SubSeq(lg, 1, n) \in Seq(Body)
        /\ Len(SubSeq(lg, 1, n)) = n
        /\ \A i \in 1..n : SubSeq(lg, 1, n)[i] = lg[i]
    BY <1>1, SubSeqProperties, ElementOfSeq
  <2> QED
    BY <2>1, <2>2, SeqEqual
<1>4. ASSUME NEW x, x.id = Len(lg), x.body = b PROVE Carries(Append(lg, b), x)
  BY <1>1, <1>4 DEF Carries
<1> QED
  BY <1>1, <1>2, <1>3, <1>4

\* One message more, or none, in every log.
LogsGrow ==
  \A p \in Players : log'[p] = log[p] \/ \E b \in Body : log'[p] = Append(log[p], b)

LEMMA LoggedGrows ==
  ASSUME TypeOK, NEW l \in PlayerList, NEW b \in Body
  PROVE  \A p \in Players : Logged(l, b)[p] = log[p] \/ Logged(l, b)[p] = Append(log[p], b)
BY DEF Logged

\* What host steps leave alone on the clients stays right.
LEMMA ClientsKeep ==
  ASSUME IInv, TypeOK', LogsGrow, UNCHANGED <<conn, next, queue, freed, handled>>,
         \A p \in Players : tainted'[p] = tainted[p] \/ conn[p] = "out"
  PROVE  QueueMatch' /\ InOrder'
<1>1. ASSUME NEW p \in Players, Sound(p)', Staying(p)',
             NEW k \in DOMAIN queue'[p]
      PROVE  Carries(log'[p], queue'[p][k])
  <2>1. k \in DOMAIN queue[p] /\ queue' = queue /\ Staying(p)
    BY <1>1 DEF Staying
  <2>2. conn[p] # "out"
    BY <2>1, EmptySeq, LenProperties DEF IInv, Members, TypeOK
  <2>3. Carries(log[p], queue[p][k])
    BY <1>1, <2>1, <2>2 DEF IInv, QueueMatch, Sound
  <2>4. queue[p][k].id \in Nat /\ log[p] \in Seq(Body)
    BY <2>1, QueueTypes DEF IInv, TypeOK
  <2>5. CASE log'[p] = log[p]
    BY <2>1, <2>3, <2>5
  <2>6. ASSUME NEW b \in Body, log'[p] = Append(log[p], b)
        PROVE  Carries(log'[p], queue'[p][k])
    <3>1. Carries(Append(log[p], b), queue[p][k])
      BY <2>3, <2>4, Grown
    <3> QED
      BY <2>1, <2>6, <3>1
  <2> QED
    BY <2>5, <2>6 DEF LogsGrow
<1>2. ASSUME NEW p \in Players, Sound(p)', conn'[p] \in {"out", "in"}
      PROVE  next'[p] <= Len(log'[p]) /\ handled'[p] = SubSeq(log'[p], 1, next'[p])
  <2>1. log[p] \in Seq(Body) /\ log'[p] \in Seq(Body) /\ next[p] \in Nat
    BY DEF IInv, TypeOK
  <2>2. CASE conn[p] = "out"
    <3>1. next[p] = 0 /\ handled[p] = << >>
      BY <2>2 DEF IInv, Members
    <3> QED
      BY <2>1, <3>1, SubSeqEmpty, LenProperties
  <2>3. CASE conn[p] # "out"
    <3>1. next[p] <= Len(log[p]) /\ handled[p] = SubSeq(log[p], 1, next[p])
      BY <1>2, <2>3 DEF IInv, InOrder, Sound
    <3>2. next[p] \in 0..Len(log[p])
      BY <2>1, <3>1, LenProperties
    <3>3. CASE log'[p] = log[p]
      BY <3>1, <3>3
    <3>4. ASSUME NEW b \in Body, log'[p] = Append(log[p], b)
          PROVE  next'[p] <= Len(log'[p]) /\ handled'[p] = SubSeq(log'[p], 1, next'[p])
      <4>1. /\ Len(Append(log[p], b)) = Len(log[p]) + 1
            /\ SubSeq(Append(log[p], b), 1, next[p]) = SubSeq(log[p], 1, next[p])
        BY <2>1, <3>2, Grown
      <4> QED
        BY <2>1, <3>1, <3>2, <3>4, <4>1, LenProperties
    <3> QED
      BY <3>3, <3>4 DEF LogsGrow
  <2> QED
    BY <2>2, <2>3
<1> QED
  BY <1>1, <1>2 DEF QueueMatch, InOrder

LEMMA HeldTypes == TypeOK => Held \subseteq Packet
BY ElementOfSeq, LenProperties DEF Held, TypeOK

\* What is held after a scheduling step was held before or is one of the new packets.
LEMMA HeldAfter ==
  ASSUME TypeOK, NEW q \in Seq(Packet), Refill(inflight, overflow \o q)
  PROVE  \A x \in Held' : x \in Held \/ \E i \in DOMAIN q : x = q[i]
<1>1. /\ overflow \o q \in Seq(Packet)
      /\ \A k \in DOMAIN (overflow \o q) :
           \/ \E i \in DOMAIN overflow : (overflow \o q)[k] = overflow[i]
           \/ \E i \in DOMAIN q : (overflow \o q)[k] = q[i]
  <2>1. /\ overflow \o q \in Seq(Packet)
        /\ DOMAIN (overflow \o q) = 1..(Len(overflow) + Len(q))
        /\ DOMAIN overflow = 1..Len(overflow) /\ DOMAIN q = 1..Len(q)
        /\ Len(overflow) \in Nat /\ Len(q) \in Nat
        /\ \A k \in 1..(Len(overflow) + Len(q)) : (overflow \o q)[k] =
             IF k <= Len(overflow) THEN overflow[k] ELSE q[k - Len(overflow)]
    BY ConcatProperties, LenProperties DEF TypeOK
  <2>2. ASSUME NEW k \in 1..(Len(overflow) + Len(q))
        PROVE  \/ \E i \in DOMAIN overflow : (overflow \o q)[k] = overflow[i]
               \/ \E i \in DOMAIN q : (overflow \o q)[k] = q[i]
    <3>1. CASE k <= Len(overflow)
      BY <2>1, <3>1
    <3>2. CASE ~(k <= Len(overflow))
      <4>1. k - Len(overflow) \in DOMAIN q
        BY <2>1, <3>2
      <4> QED
        BY <2>1, <3>2, <4>1
    <3> QED
      BY <3>1, <3>2
  <2> QED
    BY <2>1, <2>2
<1>2. PICK w : w = overflow \o q
  OBVIOUS
<1>3. /\ \A x \in inflight' : x \in inflight \/ \E i \in DOMAIN w : x = w[i]
      /\ \A k \in DOMAIN overflow' : \E i \in DOMAIN w : overflow'[k] = w[i]
  <2>1. w \in Seq(Packet) /\ Refill(inflight, w) /\ inflight \in SUBSET Packet
    BY <1>1, <1>2 DEF TypeOK
  <2> QED
    BY <2>1, RefillPackets
<1>4. \A i \in DOMAIN w : w[i] \in Held \/ \E j \in DOMAIN q : w[i] = q[j]
  BY <1>1, <1>2 DEF Held
<1> QED
  BY <1>3, <1>4 DEF Held

\* A packet of an unharmed slot stays right when its log grows.
LEMMA HeldGrown ==
  ASSUME IInv, NEW x \in Held, LogsGrow,
         list[x.slot] # NoPlayer, ~tainted[list[x.slot]]
  PROVE  Carries(log'[list[x.slot]], x)
<1> DEFINE r == list[x.slot]
<1>1. x \in Packet /\ x.id \in Nat /\ x.slot \in Slots
  BY HeldTypes DEF IInv, Packet
<1>2. r \in Players /\ log[r] \in Seq(Body)
  BY <1>1 DEF IInv, TypeOK, PlayerList
<1>3. Carries(log[r], x)
  BY DEF IInv, HeldMatch
<1>4. ASSUME NEW b \in Body, log'[r] = Append(log[r], b) PROVE Carries(log'[r], x)
  BY <1>1, <1>2, <1>3, <1>4, Grown
<1> QED
  BY <1>2, <1>3, <1>4 DEF LogsGrow

LEMMA NetGrown ==
  ASSUME IInv, NEW m \in net, LogsGrow, ~tainted[m.to], Staying(m.to)
  PROVE  Carries(log'[m.to], m)
<1>1. m.to \in Players /\ m.id \in Nat
  BY DEF IInv, TypeOK, Datagram
<1>2. log[m.to] \in Seq(Body)
  BY <1>1 DEF IInv, TypeOK
<1>3. Carries(log[m.to], m)
  BY DEF IInv, NetMatch
<1>4. ASSUME NEW b \in Body, log'[m.to] = Append(log[m.to], b) PROVE Carries(log'[m.to], m)
  BY <1>1, <1>2, <1>3, <1>4, Grown
<1> QED
  BY <1>1, <1>3, <1>4 DEF LogsGrow

LEMMA NoOwnLeaveGrown ==
  ASSUME TypeOK, NoOwnLeave,
         \A p \in Players : \/ log'[p] = log[p]
                            \/ \E b \in Body : /\ log'[p] = Append(log[p], b)
                                               /\ b # [ty |-> "Leave", who |-> p]
  PROVE  NoOwnLeave'
<1> SUFFICES ASSUME NEW p \in Players, NEW i \in DOMAIN log'[p]
             PROVE  log'[p][i] # [ty |-> "Leave", who |-> p]
  BY DEF NoOwnLeave
<1>1. log[p] \in Seq(Body)
  BY DEF TypeOK
<1>2. CASE log'[p] = log[p]
  BY <1>2 DEF NoOwnLeave
<1>3. ASSUME NEW b \in Body, log'[p] = Append(log[p], b), b # [ty |-> "Leave", who |-> p]
      PROVE  log'[p][i] # [ty |-> "Leave", who |-> p]
  <2>1. /\ DOMAIN Append(log[p], b) = 1..(Len(log[p]) + 1)
        /\ DOMAIN log[p] = 1..Len(log[p]) /\ Len(log[p]) \in Nat
        /\ \A j \in 1..Len(log[p]) : Append(log[p], b)[j] = log[p][j]
        /\ Append(log[p], b)[Len(log[p]) + 1] = b
    BY <1>1, AppendProperties, LenProperties
  <2> QED
    BY <1>3, <2>1 DEF NoOwnLeave
<1> QED
  BY <1>2, <1>3

LEMMA JoinInv ==
  ASSUME IInv, NEW p \in Players, Join(p)
  PROVE  IInv'
<1>1. PICK s \in Slots :
        LET l == [list EXCEPT ![s] = p]
            plist == [ty |-> "List", list |-> l]
            create == [ty |-> "Create", slot |-> s, who |-> p]
        IN /\ list[s] = NoPlayer
           /\ list' = l
           /\ pid' = [pid EXCEPT ![p] = s]
           /\ nextId' = [Numbered(list) EXCEPT ![s] = nextId[s] + 1]
           /\ log' = [Logged(list, create) EXCEPT ![p] = Append(log[p], plist)]
           /\ \E q \in InSlotOrder(Scheduled(list, create)) :
                Refill(inflight,
                       overflow \o Append(q, [slot |-> s, id |-> nextId[s],
                                              body |-> plist, sent |-> FALSE]))
           /\ tainted' = [tainted EXCEPT ![p] =
                \/ \E x \in inflight : x.slot = s
                \/ \E i \in DOMAIN overflow : overflow[i].slot = s]
  BY DEF Join
<1> DEFINE l == [list EXCEPT ![s] = p]
           plist == [ty |-> "List", list |-> l]
           create == [ty |-> "Create", slot |-> s, who |-> p]
           last == [slot |-> s, id |-> nextId[s], body |-> plist, sent |-> FALSE]
<1>2. TypeOK /\ TypeOK'
  BY JoinType DEF IInv
<1>3. pid[p] = 0 /\ UNCHANGED <<pending, net, acks, conn, next, queue, freed, view, handled, excused>>
  BY DEF Join, clientVars
<1>4. conn[p] = "out" /\ log[p] = << >> /\ nextId[s] = 0
  BY <1>1, <1>3 DEF IInv, Members
<1>5. l \in PlayerList /\ plist \in Body /\ create \in Body /\ list \in PlayerList
  BY <1>2, BodyTypes DEF TypeOK, PlayerList
<1>6. \A r \in Players : list[s] # r /\ ~\E t \in Slots : list[t] = p
  <2>1. p # NoPlayer
    OBVIOUS
  <2> QED
    BY <1>1, <1>3, <2>1 DEF IInv, Members, Slots
<1>7. \A r \in Players : r # p => log'[r] = Logged(list, create)[r]
  BY <1>1, <1>2 DEF Logged
<1>8. log'[p] = Append(log[p], plist)
  BY <1>1, <1>2 DEF Logged
<1>9. LogsGrow
  BY <1>2, <1>5, <1>7, <1>8, LoggedGrows DEF LogsGrow
<1>10. Members'
  <2>1. \A t \in Slots : list'[t] = (IF t = s THEN p ELSE list[t])
    BY <1>1, <1>2 DEF TypeOK, PlayerList
  <2>2. \A r \in Players : pid'[r] = (IF r = p THEN s ELSE pid[r])
    BY <1>1, <1>2 DEF TypeOK
  <2>3. s # 0 /\ p # NoPlayer
    BY DEF Slots
  <2>4. \A t \in Slots : list'[t] # NoPlayer => pid'[list'[t]] = t
    <3>1. ASSUME NEW t \in Slots, t # s, list[t] # NoPlayer PROVE pid'[list[t]] = t
      <4>1. list[t] \in Players /\ list[t] # p /\ pid[list[t]] = t
        BY <1>2, <1>6, <3>1 DEF IInv, Members, TypeOK, PlayerList
      <4> QED
        BY <2>2, <4>1
    <3> QED
      BY <2>1, <2>2, <3>1
  <2>5. \A t \in Slots : list'[t] = NoPlayer => nextId'[t] = 0
    BY <1>1, <1>2, <2>1, <2>3 DEF IInv, Members, TypeOK, Numbered
  <2>6. \A r \in Players : pid'[r] = 0 => conn'[r] = "out" /\ log'[r] = << >>
    <3>1. ASSUME NEW r \in Players, pid'[r] = 0 PROVE conn'[r] = "out" /\ log'[r] = << >>
      <4>1. r # p /\ pid[r] = 0
        BY <2>2, <2>3, <3>1
      <4>2. ~Joined(list, r)
        BY <4>1 DEF Joined, IInv, Members, Slots
      <4> QED
        BY <1>3, <1>7, <4>1, <4>2 DEF IInv, Members, Logged
    <3> QED
      BY <3>1
  <2>7. \A m \in net' : pid'[m.to] # 0
    BY <1>2, <1>3, <2>2, <2>3 DEF IInv, Members, TypeOK, Datagram
  <2>8. \A t \in Threads : pending'[t] # NoPlayer =>
          pid'[pending'[t]] # 0 /\ ~Joined(list', pending'[t])
    <3>1. ASSUME NEW t \in Threads, pending[t] # NoPlayer
          PROVE  pid'[pending[t]] # 0 /\ ~Joined(list', pending[t])
      <4>1. pending[t] \in Players /\ pid[pending[t]] # 0 /\ ~Joined(list, pending[t])
        BY <1>2, <3>1 DEF IInv, Members, TypeOK
      <4>2. pending[t] # p
        BY <1>3, <4>1
      <4> QED
        BY <2>1, <2>2, <4>1, <4>2 DEF Joined
    <3> QED
      BY <1>3, <3>1
  <2>9. \A r \in Players : conn'[r] = "out" =>
          queue'[r] = << >> /\ next'[r] = 0 /\ handled'[r] = << >>
    BY <1>3 DEF IInv, Members
  <2>10. pending'["listen"] # NoPlayer => ~Staying(pending'["listen"])
    BY <1>3 DEF IInv, Members
  <2> QED
    BY <1>3, <2>4, <2>5, <2>6, <2>7, <2>8, <2>9, <2>10 DEF Members, Staying
<1>11. Numbers'
  <2>1. ASSUME NEW t \in Slots, list'[t] # NoPlayer PROVE nextId'[t] = Len(log'[list'[t]])
    <3>1. CASE t = s
      BY <1>1, <1>2, <1>4, <1>8, <3>1 DEF TypeOK, PlayerList, Numbered
    <3>2. CASE t # s
      <4>1. list'[t] = list[t] /\ list[t] \in Players /\ list[t] # p
        BY <1>1, <1>2, <1>6, <2>1, <3>2 DEF TypeOK, PlayerList
      <4>2. nextId'[t] = nextId[t] + 1 /\ nextId[t] = Len(log[list[t]])
        BY <1>1, <1>2, <3>2, <4>1 DEF IInv, Numbers, TypeOK, Numbered
      <4>3. log'[list[t]] = Append(log[list[t]], create)
        BY <1>7, <4>1 DEF Logged, Joined
      <4> QED
        BY <1>2, <1>5, <4>1, <4>2, <4>3, Grown DEF TypeOK
    <3> QED
      BY <3>1, <3>2
  <2> QED
    BY <2>1 DEF Numbers
<1>12. HeldMatch'
  <2>1. PICK q \in InSlotOrder(Scheduled(list, create)) :
          Refill(inflight, overflow \o Append(q, last))
    BY <1>1
  <2>2. q \in Seq(Packet) /\ \A i \in DOMAIN q : q[i] \in Scheduled(list, create)
    BY <1>2, <1>5, ScheduledPackets, InSlotOrderSeq
  <2>3. last \in Packet
    BY <1>2, <1>5 DEF Packet, TypeOK
  <2>4. PICK w : w = Append(q, last)
    OBVIOUS
  <2>5. /\ w \in Seq(Packet) /\ DOMAIN w = 1..(Len(q) + 1)
        /\ Len(q) \in Nat /\ DOMAIN q = 1..Len(q)
        /\ \A i \in 1..Len(q) : w[i] = q[i]
        /\ w[Len(q) + 1] = last
    BY <2>2, <2>3, <2>4, AppendProperties, LenProperties
  <2>6. \A i \in DOMAIN w : w[i] = last \/ w[i] \in Scheduled(list, create)
    BY <2>2, <2>5
  <2>7. \A x \in Held' : x \in Held \/ x = last \/ x \in Scheduled(list, create)
    <3>1. Refill(inflight, overflow \o w)
      BY <2>1, <2>4
    <3> QED
      BY <1>2, <2>5, <2>6, <3>1, HeldAfter
  <2>8. ASSUME NEW x \in Held', list'[x.slot] # NoPlayer, ~tainted'[list'[x.slot]]
        PROVE  Carries(log'[list'[x.slot]], x)
    <3>1. CASE x \in Held
      <4>1. x.slot # s
        BY <1>1, <1>2, <2>8, <3>1 DEF Held, TypeOK, PlayerList
      <4>2. x.slot \in Slots
        BY <1>2, <3>1, HeldTypes DEF Packet
      <4>3. list'[x.slot] = list[x.slot] /\ list[x.slot] # p
        BY <1>1, <1>2, <1>6, <4>1, <4>2 DEF TypeOK, PlayerList
      <4>4. ~tainted[list[x.slot]]
        BY <1>1, <1>2, <2>8, <4>2, <4>3 DEF TypeOK, PlayerList
      <4> QED
        BY <1>9, <2>8, <3>1, <4>3, <4>4, HeldGrown
    <3>2. CASE x = last
      <4>1. list'[x.slot] = p /\ x.id = Len(log[p]) /\ x.body = plist
        BY <1>1, <1>2, <1>4, <3>2 DEF TypeOK, PlayerList
      <4>2. Carries(Append(log[p], plist), x)
        BY <1>2, <1>5, <4>1, Grown DEF TypeOK
      <4> QED
        BY <1>8, <4>1, <4>2
    <3>3. CASE x \in Scheduled(list, create)
      <4>1. x.slot \in Slots /\ list[x.slot] # NoPlayer /\ x.id = nextId[x.slot] /\ x.body = create
        BY <1>2, <1>5, <3>3, ScheduledPackets DEF Packet
      <4>2. x.slot # s /\ list'[x.slot] = list[x.slot] /\ list[x.slot] # p /\ list[x.slot] \in Players
        <5>1. list \in [Slots -> Players \cup {NoPlayer}]
          BY <1>2 DEF TypeOK, PlayerList
        <5>2. x.slot # s /\ list[x.slot] \in Players
          BY <1>1, <4>1, <5>1
        <5>3. list' = [list EXCEPT ![s] = p]
          BY <1>1
        <5>4. list'[x.slot] = list[x.slot]
          BY <4>1, <5>1, <5>2, <5>3
        <5> QED
          BY <1>6, <4>1, <5>2, <5>4
      <4>3. x.id = Len(log[list[x.slot]])
        BY <4>1 DEF IInv, Numbers
      <4>4. log'[list[x.slot]] = Append(log[list[x.slot]], create)
        BY <1>7, <4>1, <4>2 DEF Logged, Joined
      <4>5. Carries(Append(log[list[x.slot]], create), x)
        <5>1. PICK b \in Body : b = create
          BY <1>5
        <5>2. log[list[x.slot]] \in Seq(Body)
          BY <1>2, <4>2 DEF TypeOK
        <5>3. Carries(Append(log[list[x.slot]], b), x)
          BY <4>1, <4>3, <5>1, <5>2, Grown
        <5> QED
          BY <5>1, <5>3
      <4> QED
        BY <4>2, <4>4, <4>5
    <3> QED
      BY <2>7, <3>1, <3>2, <3>3
  <2> QED
    BY <2>8 DEF HeldMatch
<1>13. NetMatch'
  <2>1. ASSUME NEW m \in net, ~tainted'[m.to], Staying(m.to)'
        PROVE  Carries(log'[m.to], m)
    <3>1. m.to # p /\ m.to \in Players
      BY <1>2, <1>3 DEF IInv, Members, TypeOK, Datagram
    <3>2. ~tainted[m.to] /\ Staying(m.to)
      BY <1>1, <1>2, <1>3, <2>1, <3>1 DEF TypeOK, Staying
    <3> QED
      BY <1>9, <3>2, NetGrown
  <2> QED
    BY <1>3, <2>1 DEF NetMatch
<1>14. NoOwnLeave'
  <2>1. create # [ty |-> "Leave", who |-> p] /\ plist # [ty |-> "Leave", who |-> p]
        /\ \A r \in Players : create # [ty |-> "Leave", who |-> r]
    <3>1. create.ty = "Create" /\ plist.ty = "List"
          /\ \A r \in Players : [ty |-> "Leave", who |-> r].ty = "Leave"
      OBVIOUS
    <3> QED
      BY <3>1
  <2>2. \A r \in Players : r # p =>
          log'[r] = log[r] \/ log'[r] = Append(log[r], create)
    BY <1>2, <1>5, <1>7, LoggedGrows
  <2> QED
    BY <1>2, <1>5, <1>8, <2>1, <2>2, NoOwnLeaveGrown DEF IInv
<1>15. QueueMatch' /\ InOrder'
  <2>1. \A r \in Players : tainted'[r] = tainted[r] \/ conn[r] = "out"
    BY <1>1, <1>2, <1>4 DEF TypeOK
  <2> QED
    BY <1>2, <1>3, <1>9, <2>1, ClientsKeep
<1> QED
  BY <1>2, <1>10, <1>11, <1>12, <1>13, <1>14, <1>15 DEF IInv

LEMMA RemoveInv ==
  ASSUME IInv, NEW t \in Threads, NEW p \in Players, Remove(t, p),
         pid[p] \in Slots, list[pid[p]] = p, t = "listen" => ~Staying(p)
  PROVE  IInv'
<1>1. TypeOK /\ TypeOK'
  BY RemoveType DEF IInv
<1>2. /\ list' = [list EXCEPT ![pid[p]] = NoPlayer]
      /\ nextId' = [nextId EXCEPT ![pid[p]] = 0]
      /\ pending' = [pending EXCEPT ![t] = p]
      /\ UNCHANGED <<overflow, net, acks, pid, conn, next, queue, freed, view, handled, log, tainted, excused>>
  BY DEF Remove, clientVars
<1>3. \A r \in Slots : list'[r] = (IF r = pid[p] THEN NoPlayer ELSE list[r])
  BY <1>1, <1>2 DEF TypeOK, PlayerList
<1>4. pid[p] # 0
  BY DEF Slots
<1>5. Members'
  <2>1. \A r \in Slots : list'[r] # NoPlayer => pid'[list'[r]] = r
    BY <1>2, <1>3 DEF IInv, Members
  <2>2. \A r \in Slots : list'[r] = NoPlayer => nextId'[r] = 0
    BY <1>1, <1>2, <1>3 DEF IInv, Members, TypeOK
  <2>3. ASSUME NEW u \in Threads, pending'[u] # NoPlayer
        PROVE  pid'[pending'[u]] # 0 /\ ~Joined(list', pending'[u])
    <3>1. CASE u = t
      <4>1. pending'[u] = p
        BY <1>1, <1>2, <3>1 DEF TypeOK
      <4>2. ~Joined(list', p)
        BY <1>3 DEF Joined, IInv, Members
      <4> QED
        BY <1>2, <1>4, <4>1, <4>2
    <3>2. CASE u # t
      BY <1>1, <1>2, <1>3, <2>3, <3>2 DEF Joined, IInv, Members, TypeOK
    <3> QED
      BY <3>1, <3>2
  <2>4. pending'["listen"] # NoPlayer => ~Staying(pending'["listen"])
    BY <1>1, <1>2 DEF IInv, Members, TypeOK, Threads
  <2> QED
    BY <1>2, <2>1, <2>2, <2>3, <2>4 DEF IInv, Members, Staying
<1>6. Numbers'
  BY <1>1, <1>2, <1>3 DEF IInv, Numbers, TypeOK
<1>7. HeldMatch'
  <2>1. Held' \subseteq Held
    BY <1>2 DEF Remove, Released, Held
  <2>2. \A x \in Held : x.slot \in Slots
    BY <1>1, HeldTypes DEF Packet
  <2> QED
    BY <1>2, <1>3, <2>1, <2>2 DEF IInv, HeldMatch
<1>8. NetMatch' /\ QueueMatch' /\ NoOwnLeave' /\ InOrder'
  BY <1>2 DEF IInv, NetMatch, QueueMatch, NoOwnLeave, InOrder, Staying, Sound
<1> QED
  BY <1>1, <1>5, <1>6, <1>7, <1>8 DEF IInv

LEMMA JoinedAt ==
  ASSUME IInv, NEW p \in Players, Joined(list, p)
  PROVE  pid[p] \in Slots /\ list[pid[p]] = p
BY DEF Joined, IInv, Members

LEMMA KickInv ==
  ASSUME IInv, NEW p \in Players, Kick(p)
  PROVE  IInv'
BY RemoveInv, JoinedAt DEF Kick, Threads

LEMMA DestroyPlayerInv ==
  ASSUME IInv, NEW p \in Players, DestroyPlayer(p)
  PROVE  IInv'
<1>1. CASE list[pid[p]] = p /\ Remove("listen", p)
  <2>1. pid[p] \in Slots /\ ~Staying(p)
    BY DEF DestroyPlayer, Staying, IInv, TypeOK
  <2> QED
    BY <1>1, <2>1, RemoveInv DEF Threads
<1>2. CASE /\ net' = net \cup {Echo(p)}
           /\ UNCHANGED <<hostVars, acks, pid, clientVars, log, tainted, excused>>
  <2>1. TypeOK'
    BY DestroyPlayerType DEF IInv
  <2>2. Echo(p).to = p /\ pid[p] # 0 /\ ~Staying(p)
    BY DEF Echo, DestroyPlayer, Staying
  <2>3. Members'
    BY <1>2, <2>2 DEF IInv, Members, hostVars, clientVars, Joined, Staying
  <2>4. NetMatch'
    BY <1>2, <2>2 DEF IInv, NetMatch, Staying, hostVars, clientVars
  <2>5. Numbers' /\ HeldMatch' /\ QueueMatch' /\ NoOwnLeave' /\ InOrder'
    BY <1>2 DEF IInv, Numbers, HeldMatch, Held, QueueMatch, NoOwnLeave, InOrder, Staying,
                Sound, hostVars, clientVars
  <2> QED
    BY <2>1, <2>3, <2>4, <2>5 DEF IInv
<1> QED
  BY <1>1, <1>2 DEF DestroyPlayer

LEMMA ScheduleLeaveInv ==
  ASSUME IInv, NEW t \in Threads, ScheduleLeave(t)
  PROVE  IInv'
<1>1. PICK p \in Players : p = pending[t]
  BY DEF ScheduleLeave, IInv, TypeOK
<1>2. PICK bye \in Body : bye = [ty |-> "Leave", who |-> p]
  BY BodyTypes
<1>3. /\ p # NoPlayer
      /\ pending' = [pending EXCEPT ![t] = NoPlayer]
      /\ net' = IF t = "listen" THEN net \cup {Echo(p)} ELSE net
      /\ nextId' = Numbered(list)
      /\ log' = Logged(list, bye)
      /\ \E q \in InSlotOrder(Scheduled(list, bye)) : Refill(inflight, overflow \o q)
      /\ UNCHANGED <<list, acks, pid, conn, next, queue, freed, view, handled, tainted, excused>>
  BY <1>1, <1>2 DEF ScheduleLeave, clientVars
<1>4. TypeOK /\ TypeOK' /\ list \in PlayerList
  BY ScheduleLeaveType DEF IInv, TypeOK
<1>5. LogsGrow
  BY <1>3, <1>4, LoggedGrows DEF LogsGrow
<1>6. pid[p] # 0 /\ ~Joined(list, p)
  BY <1>1, <1>3 DEF IInv, Members
<1>7. \A s \in Slots : list[s] # NoPlayer =>
        /\ list[s] \in Players /\ log[list[s]] \in Seq(Body)
        /\ log'[list[s]] = Append(log[list[s]], bye)
        /\ nextId'[s] = nextId[s] + 1 /\ nextId[s] = Len(log[list[s]])
  BY <1>3, <1>4 DEF Logged, Joined, Numbered, TypeOK, PlayerList, IInv, Numbers
<1>8. Members'
  <2>1. \A r \in Players : pid[r] = 0 => log'[r] = << >>
    BY <1>3 DEF Logged, Joined, IInv, Members, Slots
  <2>2. \A m \in net' : pid[m.to] # 0
    BY <1>3, <1>6 DEF Echo, IInv, Members
  <2>3. \A s \in Slots : list[s] = NoPlayer => nextId'[s] = 0
    BY <1>3 DEF Numbered, IInv, Members
  <2>4. \A u \in Threads : pending'[u] # NoPlayer =>
          pid[pending'[u]] # 0 /\ ~Joined(list, pending'[u])
    BY <1>3, <1>4 DEF IInv, Members, TypeOK
  <2>5. pending'["listen"] # NoPlayer => ~Staying(pending'["listen"])
    BY <1>3, <1>4 DEF IInv, Members, TypeOK, Threads
  <2> QED
    BY <1>3, <2>1, <2>2, <2>3, <2>4, <2>5 DEF IInv, Members, Staying
<1>9. Numbers'
  <2>1. \A s \in Slots : list[s] # NoPlayer =>
          Len(Append(log[list[s]], bye)) = Len(log[list[s]]) + 1
    BY <1>7, Grown
  <2> QED
    BY <1>3, <1>7, <2>1 DEF Numbers
<1>10. HeldMatch'
  <2>1. PICK q \in InSlotOrder(Scheduled(list, bye)) : Refill(inflight, overflow \o q)
    BY <1>3
  <2>2. q \in Seq(Packet) /\ \A i \in DOMAIN q : q[i] \in Scheduled(list, bye)
    BY <1>4, ScheduledPackets, InSlotOrderSeq
  <2>3. \A x \in Held' : x \in Held \/ x \in Scheduled(list, bye)
    BY <1>4, <2>1, <2>2, HeldAfter
  <2>4. ASSUME NEW x \in Held', list[x.slot] # NoPlayer, ~tainted[list[x.slot]]
        PROVE  Carries(log'[list[x.slot]], x)
    <3>1. CASE x \in Held
      BY <1>5, <2>4, <3>1, HeldGrown
    <3>2. CASE x \in Scheduled(list, bye)
      <4>1. x.slot \in Slots /\ x.id = nextId[x.slot] /\ x.body = bye
        BY <1>4, <3>2, ScheduledPackets DEF Packet
      <4>2. Carries(Append(log[list[x.slot]], bye), x)
        BY <1>7, <2>4, <4>1, Grown
      <4> QED
        BY <1>7, <2>4, <4>1, <4>2
    <3> QED
      BY <2>3, <3>1, <3>2
  <2> QED
    BY <1>3, <2>4 DEF HeldMatch
<1>11. NetMatch'
  <2>1. ASSUME NEW m \in net', ~tainted[m.to], Staying(m.to)
        PROVE  Carries(log'[m.to], m)
    <3>1. CASE m \in net
      BY <1>5, <2>1, <3>1, NetGrown
    <3>2. CASE t = "listen" /\ m = Echo(p)
      <4>1. m.to = p /\ ~Staying(p)
        BY <1>1, <1>3, <3>2 DEF Echo, IInv, Members
      <4> QED
        BY <2>1, <4>1
    <3> QED
      BY <1>3, <3>1, <3>2
  <2> QED
    BY <1>3, <2>1 DEF NetMatch, Staying
<1>12. NoOwnLeave'
  <2>1. ASSUME NEW r \in Players
        PROVE  \/ log'[r] = log[r]
               \/ \E b \in Body : log'[r] = Append(log[r], b) /\ b # [ty |-> "Leave", who |-> r]
    <3>1. CASE r = p
      BY <1>3, <1>6, <3>1 DEF Logged
    <3>2. CASE r # p
      <4>1. bye # [ty |-> "Leave", who |-> r]
        BY <1>2, <3>2
      <4> QED
        BY <1>3, <4>1 DEF Logged
    <3> QED
      BY <3>1, <3>2
  <2> QED
    BY <1>4, <2>1, NoOwnLeaveGrown DEF IInv
<1>13. QueueMatch' /\ InOrder'
  BY <1>3, <1>4, <1>5, ClientsKeep
<1> QED
  BY <1>4, <1>8, <1>9, <1>10, <1>11, <1>12, <1>13 DEF IInv

\* The k-th entry of what is left of a sequence is the one n further on in it.
LEMMA SuffixEntry ==
  ASSUME NEW S, NEW q \in Seq(S), NEW n \in 0..Len(q), NEW k \in DOMAIN SubSeq(q, n + 1, Len(q))
  PROVE  k + n \in DOMAIN q /\ SubSeq(q, n + 1, Len(q))[k] = q[k + n]
<1>1. Len(q) \in Nat /\ DOMAIN q = 1..Len(q) /\ \A i \in n + 1..Len(q) : q[i] \in S
  BY LenProperties, ElementOfSeq
<1>2. n \in Nat /\ n <= Len(q)
  BY <1>1
<1>3. PICK r : r = SubSeq(q, n + 1, Len(q))
  OBVIOUS
<1>4. /\ r \in Seq(S)
      /\ Len(r) = IF n + 1 <= Len(q) THEN Len(q) - (n + 1) + 1 ELSE 0
      /\ \A i \in 1..Len(q) - (n + 1) + 1 : r[i] = q[n + 1 + i - 1]
  BY SMTT(40), <1>1, <1>2, <1>3, SubSeqProperties
<1>5. Len(r) = Len(q) - n
  <2>1. PICK l : l = Len(q)
    BY SMTT(40)
  <2>2. l \in Nat /\ n \in Nat /\ n <= l /\ Len(r) = IF n + 1 <= l THEN l - (n + 1) + 1 ELSE 0
    BY <1>1, <1>2, <1>4, <2>1
  <2>3. (IF n + 1 <= l THEN l - (n + 1) + 1 ELSE 0) = l - n
    BY <2>2
  <2> QED
    BY <2>1, <2>2, <2>3
<1>6. k \in 1..Len(r)
  BY SMTT(40), <1>3, <1>4, LenProperties
<1>7. k \in 1..Len(q) - n /\ k + n \in 1..Len(q) /\ n + 1 + k - 1 = k + n
  BY <1>1, <1>2, <1>5, <1>6
<1>8. r[k] = q[n + 1 + k - 1]
  <2>1. Len(q) - (n + 1) + 1 = Len(q) - n
    BY <1>1, <1>2
  <2> QED
    BY <1>4, <1>7, <2>1
<1> QED
  BY <1>1, <1>3, <1>7, <1>8

LEMMA DeliverInv ==
  ASSUME IInv, Deliver
  PROVE  IInv'
<1>1. PICK due \in SUBSET Sent : \E old \in SUBSET (Sent \ due) : DeliverThese(due, old)
  BY DEF Deliver
<1>2. PICK old \in SUBSET (Sent \ due) : DeliverThese(due, old)
  BY <1>1
<1>3. PICK n \in 0..Len(overflow) :
        LET arr == inflight \cup {overflow[i] : i \in 1..n}
            out == due \cup {x \in arr : ~x.sent}
        IN /\ overflow' = SubSeq(overflow, n + 1, Len(overflow))
           /\ inflight' = (arr \ (out \cup old)) \cup {[x EXCEPT !.sent = TRUE] : x \in out}
           /\ net' = net \cup {[to |-> list[x.slot], id |-> x.id, body |-> x.body] :
                                x \in {y \in out : list[y.slot] # NoPlayer}}
  BY <1>2 DEF DeliverThese
<1>4. UNCHANGED <<list, nextId, pending, acks, pid, conn, next, queue, freed, view, handled, log, tainted>>
  BY <1>2 DEF DeliverThese, clientVars
<1> DEFINE arr == inflight \cup {overflow[i] : i \in 1..n}
           out == due \cup {x \in arr : ~x.sent}
<1>5. TypeOK /\ TypeOK'
  BY DeliverType DEF IInv
<1>6. arr \subseteq Held /\ out \subseteq Held
  BY <1>5, LenProperties DEF Held, Sent, TypeOK
<1>7. \A x \in Held' : \E y \in Held : x.slot = y.slot /\ x.id = y.id /\ x.body = y.body
  <2>1. ASSUME NEW x \in inflight'
        PROVE  \E y \in Held : x.slot = y.slot /\ x.id = y.id /\ x.body = y.body
    <3>1. CASE x \in arr
      BY <1>6, <3>1
    <3>2. ASSUME NEW y \in out, x = [y EXCEPT !.sent = TRUE]
          PROVE  \E z \in Held : x.slot = z.slot /\ x.id = z.id /\ x.body = z.body
      <4>1. y \in Packet /\ y \in Held
        BY <1>5, <1>6, HeldTypes
      <4>2. x.slot = y.slot /\ x.id = y.id /\ x.body = y.body
        BY <3>2, <4>1 DEF Packet
      <4> QED
        BY <4>1, <4>2
    <3> QED
      BY <1>3, <3>1, <3>2
  <2>2. ASSUME NEW k \in DOMAIN overflow'
        PROVE  overflow'[k] \in Held
    <3>1. k + n \in DOMAIN overflow /\ overflow'[k] = overflow[k + n]
      <4>1. overflow \in Seq(Packet) /\ overflow' = SubSeq(overflow, n + 1, Len(overflow))
        BY <1>3, <1>5 DEF TypeOK
      <4> HIDE DEF arr, out
      <4> QED
        BY <4>1, SuffixEntry
    <3> QED
      BY <3>1 DEF Held
  <2> QED
    BY <2>1, <2>2 DEF Held
<1>8. HeldMatch'
  BY <1>4, <1>7 DEF IInv, HeldMatch, Carries
<1>9. \A m \in net' : m \in net \/ \E x \in Held :
        x.slot \in Slots /\ m.to = list[x.slot] /\ m.to # NoPlayer /\ m.id = x.id /\ m.body = x.body
  <2>1. \A x \in out : x \in Held /\ x.slot \in Slots
    BY <1>5, <1>6, HeldTypes DEF Packet
  <2>2. ASSUME NEW m \in net', m \notin net
        PROVE  \E x \in out : /\ list[x.slot] # NoPlayer
                              /\ m = [to |-> list[x.slot], id |-> x.id, body |-> x.body]
    BY <1>3, <2>2
  <2> QED
    BY <2>1, <2>2
<1>10. NetMatch'
  BY <1>4, <1>9 DEF IInv, NetMatch, HeldMatch, Carries, Staying
<1>11. Members'
  <2>1. \A m \in net' : pid[m.to] # 0
    BY <1>9 DEF IInv, Members, Slots
  <2> QED
    BY <1>4, <2>1 DEF IInv, Members, Joined, Staying
<1>12. Numbers' /\ QueueMatch' /\ NoOwnLeave' /\ InOrder'
  BY <1>4 DEF IInv, Numbers, QueueMatch, NoOwnLeave, InOrder, Staying, Sound
<1> QED
  BY <1>5, <1>8, <1>10, <1>11, <1>12 DEF IInv

LEMMA HandleAckInv ==
  ASSUME IInv, NEW a \in acks, HandleAck(a)
  PROVE  IInv'
<1>1. TypeOK'
  BY HandleAckType DEF IInv
<1>2. /\ inflight' \subseteq inflight
      /\ UNCHANGED <<list, nextId, overflow, pending, net, pid, conn, next, queue, freed,
                     handled, log, tainted>>
  BY DEF HandleAck, clientVars
<1>3. HeldMatch'
  BY <1>2 DEF IInv, HeldMatch, Held
<1>4. Members' /\ Numbers' /\ NetMatch' /\ QueueMatch' /\ NoOwnLeave' /\ InOrder'
  BY <1>2 DEF IInv, Members, Numbers, NetMatch, QueueMatch, NoOwnLeave, InOrder, Staying,
              Sound, Joined
<1> QED
  BY <1>1, <1>3, <1>4 DEF IInv

LEMMA ConnectInv ==
  ASSUME IInv, NEW p \in Players, Connect(p) \/ AskToLeave(p) \/ StopWaiting(p)
  PROVE  IInv'
<1>1. TypeOK /\ TypeOK'
  BY ConnectType DEF IInv
<1>2. UNCHANGED <<list, nextId, inflight, overflow, pending, net, pid, next, queue, freed,
                  log, handled, tainted>>
  BY DEF Connect, AskToLeave, StopWaiting, hostVars
<1>3. /\ \A r \in Players : r # p => conn'[r] = conn[r]
      /\ conn'[p] # "out" /\ (Staying(p)' => Staying(p))
      /\ pid[p] # 0
  BY <1>1 DEF Connect, AskToLeave, StopWaiting, Staying, TypeOK, IInv, Members
<1>4. \A r \in Players : Staying(r)' => Staying(r)
  BY <1>3 DEF Staying
<1>5. Members'
  <2>1. \A r \in Players : pid'[r] = 0 => conn'[r] = "out" /\ log'[r] = << >>
    BY <1>2, <1>3 DEF IInv, Members
  <2>2. pending["listen"] # NoPlayer => ~Staying(pending["listen"]) /\ pending["listen"] \in Players
    BY <1>1 DEF IInv, Members, TypeOK, Threads
  <2>5. (pending["listen"] # NoPlayer => ~Staying(pending["listen"]))'
    <3> DEFINE r == pending["listen"]
    <3>1. pending' = pending
      BY <1>2
    <3>2. ASSUME r # NoPlayer PROVE ~(conn'[r] \in {"out", "in"})
      BY <2>2, <1>4, <3>2 DEF Staying
    <3> QED
      BY <3>1, <3>2 DEF Staying
  <2>3. \A r \in Players : conn'[r] = "out" =>
          queue'[r] = << >> /\ next'[r] = 0 /\ handled'[r] = << >>
    BY <1>2, <1>3 DEF IInv, Members
  <2> QED
    BY <1>2, <2>1, <2>3, <2>5 DEF IInv, Members, Joined
<1>6. NetMatch'
  BY <1>1, <1>2, <1>4 DEF IInv, NetMatch, TypeOK, Datagram
<1>7. QueueMatch' /\ InOrder'
  BY <1>2, <1>4 DEF IInv, QueueMatch, InOrder, Sound, Staying
<1>8. Numbers' /\ HeldMatch' /\ NoOwnLeave'
  BY <1>2 DEF IInv, Numbers, HeldMatch, Held, NoOwnLeave
<1> QED
  BY <1>1, <1>5, <1>6, <1>7, <1>8 DEF IInv

LEMMA ReceiveInv ==
  ASSUME IInv, NEW p \in Players, NEW m \in net, Receive(p, m)
  PROVE  IInv'
<1>1. TypeOK /\ TypeOK'
  BY ReceiveType DEF IInv
<1>2. UNCHANGED <<list, nextId, inflight, overflow, pending, net, pid, conn, next, freed,
                  log, handled, tainted>>
  BY DEF Receive, hostVars
<1>3. m.to = p /\ conn[p] # "out" /\ m.id \in Nat /\ m.body \in Body
  BY <1>1 DEF Receive, Connected, TypeOK, Datagram
<1>4. \A r \in Players : r # p => queue'[r] = queue[r]
  BY <1>1 DEF Receive, ReceiveUpdate, ReceiveLeave, ReceiveOwnLeave, AddToHandle, TypeOK
<1>5. Members'
  BY <1>2, <1>3, <1>4 DEF IInv, Members, Joined, Staying
<1>6. ASSUME Sound(p), Staying(p), NEW k \in DOMAIN queue'[p]
      PROVE  Carries(log[p], queue'[p][k])
  <2>1. Carries(log[p], m)
    BY <1>3, <1>6 DEF IInv, NetMatch, Sound
  <2>2. ~ReceiveOwnLeave(p, m)
    <3>1. ASSUME m.body.ty = "Leave", m.body.who = p PROVE FALSE
      <4>1. m.body = [ty |-> "Leave", who |-> p]
        BY <1>3, <3>1 DEF Body
      <4>2. m.id + 1 \in DOMAIN log[p] /\ log[p][m.id + 1] = m.body
        BY SMTT(40), <1>1, <1>3, <2>1, LenProperties DEF Carries, TypeOK
      <4> QED
        BY <4>1, <4>2 DEF IInv, NoOwnLeave
    <3> QED
      BY <3>1 DEF ReceiveOwnLeave
  <2>3. CASE queue' = queue
    BY <1>6, <2>3 DEF IInv, QueueMatch
  <2>4. CASE queue' = [queue EXCEPT ![p] = Insert(queue[p], m.id, m.body)]
    <3>1. PICK w : w = Insert(queue[p], m.id, m.body)
      OBVIOUS
    <3>2. queue'[p] = w
      BY <1>1, <2>4, <3>1 DEF TypeOK
    <3>3. \A j \in DOMAIN w :
            \/ w[j].id = m.id /\ w[j].body = m.body
            \/ \E i \in DOMAIN queue[p] :
                 w[j].id = queue[p][i].id /\ w[j].body = queue[p][i].body
      <4>1. queue[p] \in Seq(Entries(Body)) /\ m.id \in Nat /\ m.body \in Body
        BY <1>1, <1>3, QueueTypes
      <4>2. PICK q : q = queue[p]
        OBVIOUS
      <4>3. PICK i : i = m.id
        OBVIOUS
      <4>4. PICK b : b = m.body
        OBVIOUS
      <4>5. q \in Seq(Entries(Body)) /\ i \in Nat /\ b \in Body
        BY <4>1, <4>2, <4>3, <4>4
      <4>6. OneMore(q, i, b, Insert(q, i, b))
        BY <4>5, InsertEntries
      <4>7. w = Insert(q, i, b)
        BY <3>1, <4>2, <4>3, <4>4
      <4> QED
        BY <4>2, <4>3, <4>4, <4>6, <4>7 DEF OneMore
    <3>4. \A i \in DOMAIN queue[p] : Carries(log[p], queue[p][i])
      BY <1>6 DEF IInv, QueueMatch
    <3> QED
      BY <1>6, <2>1, <3>2, <3>3, <3>4 DEF Carries
  <2> QED
    BY <2>2, <2>3, <2>4 DEF Receive, ReceiveUpdate, ReceiveLeave, AddToHandle
<1>7. QueueMatch'
  BY <1>2, <1>4, <1>6 DEF IInv, QueueMatch, Sound, Staying
<1>8. Numbers' /\ HeldMatch' /\ NetMatch' /\ NoOwnLeave' /\ InOrder'
  BY <1>2 DEF IInv, Numbers, HeldMatch, Held, NetMatch, NoOwnLeave, InOrder, Sound, Staying
<1> QED
  BY <1>1, <1>5, <1>7, <1>8 DEF IInv

\* A client in order handles the message that its log holds next.
LEMMA HandlesNext ==
  ASSUME IInv, NEW p \in Players, Handle(p), Sound(p), Staying(p)
  PROVE  /\ next[p] < Len(log[p])
         /\ Head(queue[p]).body = log[p][next[p] + 1]
         /\ handled[p] = SubSeq(log[p], 1, next[p])
<1>1. TypeOK /\ queue[p] # << >> /\ Head(queue[p]).id = next[p]
  BY DEF Handle, Ready, IInv
<1>2. 1 \in DOMAIN queue[p] /\ Head(queue[p]) = queue[p][1]
  <2>1. queue[p] \in Seq(Entries(Body))
    BY <1>1, QueueTypes
  <2> QED
    BY <1>1, <2>1, EmptySeq, LenProperties
<1>3. Carries(log[p], Head(queue[p]))
  BY <1>2 DEF IInv, QueueMatch
<1> QED
  BY <1>1, <1>3 DEF Carries, IInv, InOrder, Staying

LEMMA HandleInv ==
  ASSUME IInv, NEW p \in Players, Handle(p)
  PROVE  IInv'
<1>1. TypeOK /\ TypeOK'
  BY HandleType DEF IInv
<1>2. UNCHANGED <<list, nextId, inflight, overflow, pending, net, pid, log, tainted>>
  BY DEF Handle, hostVars
<1>3. /\ conn[p] # "out" /\ conn'[p] # "out" /\ ~freed[p]
      /\ Staying(p)' => Staying(p)
      /\ \A r \in Players : r # p =>
           /\ conn'[r] = conn[r] /\ queue'[r] = queue[r] /\ next'[r] = next[r]
           /\ handled'[r] = handled[r] /\ freed'[r] = freed[r]
  BY <1>1 DEF Handle, Ready, Connected, Staying, TypeOK
<1>4. \A r \in Players : Staying(r)' => Staying(r)
  BY <1>3 DEF Staying
<1>5. Members'
  <2>1. pid[p] # 0
    BY <1>3 DEF IInv, Members
  <2>2. pending["listen"] # NoPlayer => ~Staying(pending["listen"]) /\ pending["listen"] \in Players
    BY <1>1 DEF IInv, Members, TypeOK, Threads
  <2>5. (pending["listen"] # NoPlayer => ~Staying(pending["listen"]))'
    <3> DEFINE r == pending["listen"]
    <3>1. pending' = pending
      BY <1>2
    <3>2. ASSUME r # NoPlayer PROVE ~(conn'[r] \in {"out", "in"})
      BY <2>2, <1>4, <3>2 DEF Staying
    <3> QED
      BY <3>1, <3>2 DEF Staying
  <2>3. \A r \in Players : conn'[r] = "out" =>
          queue'[r] = << >> /\ next'[r] = 0 /\ handled'[r] = << >>
    BY <1>3 DEF IInv, Members
  <2>4. \A r \in Players : pid'[r] = 0 => conn'[r] = "out" /\ log'[r] = << >>
    BY <1>2, <1>3, <2>1 DEF IInv, Members
  <2> QED
    BY <1>2, <2>3, <2>4, <2>5 DEF IInv, Members, Joined
<1>6. NetMatch'
  BY <1>1, <1>2, <1>4 DEF IInv, NetMatch, TypeOK, Datagram
<1>7. ASSUME Sound(p)', Staying(p)'
      PROVE  /\ next'[p] <= Len(log'[p])
             /\ handled'[p] = SubSeq(log'[p], 1, next'[p])
             /\ \A k \in DOMAIN queue'[p] : Carries(log'[p], queue'[p][k])
  <2>1. Sound(p) /\ Staying(p)
    BY <1>2, <1>3, <1>7 DEF Sound
  <2>2. /\ next[p] < Len(log[p])
        /\ Head(queue[p]).body = log[p][next[p] + 1]
        /\ handled[p] = SubSeq(log[p], 1, next[p])
    BY <2>1, HandlesNext
  <2>3. next'[p] = next[p] + 1 /\ handled'[p] = Append(handled[p], log[p][next[p] + 1])
    BY <1>1, <2>2 DEF Handle, TypeOK
  <2>4. next[p] \in Nat /\ log[p] \in Seq(Body) /\ Len(log[p]) \in Nat
    BY <1>1, LenProperties DEF TypeOK
  <2>5. Append(handled[p], log[p][next[p] + 1]) = SubSeq(log[p], 1, next[p] + 1)
    <3>1. SubSeq(log[p], 1, next[p] + 1)
            = SubSeq(log[p], 1, (next[p] + 1) - 1) \o <<log[p][next[p] + 1]>>
      <4>1. PICK lg : lg = log[p]
        OBVIOUS
      <4>2. PICK n : n = next[p] + 1
        OBVIOUS
      <4>3. lg \in Seq(Body) /\ 1 \in 1..Len(lg) /\ n \in 1..Len(lg)
        BY <2>2, <2>4, <4>1, <4>2
      <4>4. SubSeq(lg, 1, n) = SubSeq(lg, 1, n - 1) \o <<lg[n]>>
        BY <4>3, SubSeqRecursiveSecond
      <4> QED
        BY <4>1, <4>2, <4>4
    <3>2. (next[p] + 1) - 1 = next[p] /\ log[p][next[p] + 1] \in Body
      BY <2>2, <2>4, ElementOfSeq
    <3>3. handled[p] \in Seq(Body)
      BY <1>1 DEF TypeOK
    <3>4. Append(handled[p], log[p][next[p] + 1]) = handled[p] \o <<log[p][next[p] + 1]>>
      BY <3>2, <3>3, AppendIsConcat
    <3> QED
      BY <2>2, <3>1, <3>2, <3>4
  <2>6. \A k \in DOMAIN queue'[p] : Carries(log[p], queue'[p][k])
    <3>1. PICK w : w = Popped(queue[p])
      OBVIOUS
    <3>2. queue'[p] = w /\ queue[p] # << >>
      BY <1>1, <3>1 DEF Handle, Ready, TypeOK
    <3>3. \A k \in DOMAIN w : \E j \in DOMAIN queue[p] :
            w[k].id = queue[p][j].id /\ w[k].body = queue[p][j].body
      <4>1. PICK q : q = queue[p]
        OBVIOUS
      <4>2. q \in Seq(Entries(Body)) /\ q # << >>
        BY <1>1, <3>2, <4>1, QueueTypes
      <4>3. \A k \in DOMAIN Popped(q) : \E j \in DOMAIN q :
              Popped(q)[k].id = q[j].id /\ Popped(q)[k].body = q[j].body
        BY <4>2, PoppedEntries
      <4> QED
        BY <3>1, <4>1, <4>3
    <3>4. \A j \in DOMAIN queue[p] : Carries(log[p], queue[p][j])
      BY <2>1 DEF IInv, QueueMatch
    <3> QED
      BY <3>2, <3>3, <3>4 DEF Carries
  <2> QED
    BY <1>2, <2>2, <2>3, <2>4, <2>5, <2>6
<1>8. QueueMatch' /\ InOrder'
  BY <1>2, <1>3, <1>4, <1>7 DEF IInv, QueueMatch, InOrder, Sound, Staying
<1>9. Numbers' /\ HeldMatch' /\ NoOwnLeave'
  BY <1>2 DEF IInv, Numbers, HeldMatch, Held, NoOwnLeave
<1> QED
  BY <1>1, <1>5, <1>6, <1>8, <1>9 DEF IInv

LEMMA HandleFreedInv ==
  ASSUME IInv, NEW p \in Players, HandleFreed(p)
  PROVE  IInv'
<1>1. TypeOK /\ TypeOK'
  BY HandleFreedType DEF IInv
<1>2. UNCHANGED <<list, nextId, inflight, overflow, pending, net, conn, pid, queue, freed, log, tainted>>
  BY DEF HandleFreed, hostVars
<1>3. /\ conn[p] # "out" /\ freed[p]
      /\ \A r \in Players : r # p => next'[r] = next[r] /\ handled'[r] = handled[r]
  BY <1>1 DEF HandleFreed, Connected, TypeOK
<1>4. Members'
  BY <1>2, <1>3 DEF IInv, Members, Joined, Staying
<1>5. InOrder'
  BY <1>2, <1>3 DEF IInv, InOrder, Sound
<1>6. Numbers' /\ HeldMatch' /\ NetMatch' /\ QueueMatch' /\ NoOwnLeave'
  BY <1>2 DEF IInv, Numbers, HeldMatch, Held, NetMatch, QueueMatch, NoOwnLeave, Staying, Sound
<1> QED
  BY <1>1, <1>4, <1>5, <1>6 DEF IInv

LEMMA InitInv == Init => IInv
<1> SUFFICES ASSUME Init PROVE IInv
  OBVIOUS
<1>1. TypeOK
  BY TypeInit
<1>2. Held = {}
  BY DEF Init, Held
<1>3. Members /\ Numbers /\ NetMatch /\ QueueMatch /\ NoOwnLeave
  <2>1. net = {} /\ \A t \in Threads : pending[t] = NoPlayer
    BY DEF Init
  <2>2. \A s \in Slots : list[s] = NoPlayer /\ nextId[s] = 0
    BY DEF Init
  <2>3. \A p \in Players : /\ conn[p] = "out" /\ log[p] = << >> /\ queue[p] = << >>
                            /\ next[p] = 0 /\ handled[p] = << >>
    BY DEF Init
  <2>4. DOMAIN << >> = {}
    OBVIOUS
  <2>5. Members
    BY <2>1, <2>2, <2>3 DEF Members, Threads
  <2>6. Numbers /\ NetMatch
    BY <2>1, <2>2 DEF Numbers, NetMatch
  <2>7. QueueMatch /\ NoOwnLeave
    BY <2>3, <2>4 DEF QueueMatch, NoOwnLeave
  <2> QED
    BY <2>5, <2>6, <2>7
<1>4. HeldMatch
  BY <1>2 DEF HeldMatch
<1>5. InOrder
  BY SubSeqEmpty DEF Init, InOrder
<1> QED
  BY <1>1, <1>3, <1>4, <1>5 DEF IInv

LEMMA StepInv == IInv /\ [Next]_vars => IInv'
<1> SUFFICES ASSUME IInv, [Next]_vars
             PROVE  IInv'
  OBVIOUS
<1>1. ASSUME NEW p \in Players, Join(p) PROVE IInv'
  BY <1>1, JoinInv
<1>2. ASSUME NEW p \in Players, DestroyPlayer(p) PROVE IInv'
  BY <1>2, DestroyPlayerInv
<1>3. ASSUME NEW p \in Players, Kick(p) PROVE IInv'
  BY <1>3, KickInv
<1>4. ASSUME NEW p \in Players, Connect(p) \/ AskToLeave(p) \/ StopWaiting(p) PROVE IInv'
  BY <1>4, ConnectInv
<1>5. ASSUME NEW p \in Players, Handle(p) PROVE IInv'
  BY <1>5, HandleInv
<1>6. ASSUME NEW p \in Players, HandleFreed(p) PROVE IInv'
  BY <1>6, HandleFreedInv
<1>7. ASSUME NEW p \in Players, NEW m \in net, Receive(p, m) PROVE IInv'
  BY <1>7, ReceiveInv
<1>8. ASSUME NEW t \in Threads, ScheduleLeave(t) PROVE IInv'
  BY <1>8, ScheduleLeaveInv
<1>9. ASSUME NEW a \in acks, HandleAck(a) PROVE IInv'
  BY <1>9, HandleAckInv
<1>10. CASE Deliver
  BY <1>10, DeliverInv
<1>11. CASE UNCHANGED vars
  <2>1. TypeOK'
    BY TypeStep DEF IInv
  <2>2. Members' /\ Numbers' /\ HeldMatch' /\ NetMatch' /\ QueueMatch' /\ NoOwnLeave' /\ InOrder'
    BY <1>11 DEF vars, IInv, Members, Numbers, HeldMatch, Held, NetMatch, QueueMatch,
                 NoOwnLeave, InOrder, Staying, Sound, Joined
  <2> QED
    BY <2>1, <2>2 DEF IInv
<1> QED
  BY <1>1, <1>2, <1>3, <1>4, <1>5, <1>6, <1>7, <1>8, <1>9, <1>10, <1>11 DEF Next

\* Whatever the network does and whatever the number of clients, slots and table
\* entries, a client whose channel is sound has handled exactly the first next[p]
\* messages scheduled for it, in their order (popReceivedPacketToHandle).
THEOREM Order == Spec => []InOrder
<1>1. IInv => InOrder
  BY DEF IInv
<1> QED
  BY InitInv, StepInv, <1>1, PTL DEF Spec

-----------------------------------------------------------------------------
(* The channel implements the ordered delivery.                            *)

Broken(p) == ~Sound(p) \/ conn[p] \in {"leaving", "gone"}

\* A client that never joined has not got a slot with old messages.
Fresh == \A p \in Players : pid[p] = 0 => ~tainted[p]

\* Only the two ways of handling a message change what a client has handled, and
\* they schedule nothing.
LEMMA SendOrHandle ==
  ASSUME IInv, [Next]_vars
  PROVE  \/ handled' = handled /\ LogsGrow
         \/ log' = log /\ \E p \in Players : Handle(p) \/ HandleFreed(p)
<1>1. CASE log' = log /\ handled' = handled
  BY <1>1 DEF LogsGrow
<1>2. ASSUME NEW p \in Players, Join(p)
      PROVE  handled' = handled /\ LogsGrow
  <2>1. PICK s \in Slots :
          log' = [Logged(list, [ty |-> "Create", slot |-> s, who |-> p]) EXCEPT
                    ![p] = Append(log[p], [ty |-> "List", list |-> [list EXCEPT ![s] = p]])]
    BY <1>2 DEF Join
  <2>2. TypeOK /\ list \in PlayerList /\ [list EXCEPT ![s] = p] \in PlayerList
    BY DEF IInv, TypeOK, PlayerList
  <2>3. PICK create \in Body : create = [ty |-> "Create", slot |-> s, who |-> p]
    BY BodyTypes
  <2>4. PICK plist \in Body : plist = [ty |-> "List", list |-> [list EXCEPT ![s] = p]]
    BY <2>2, BodyTypes
  <2>5. log' = [Logged(list, create) EXCEPT ![p] = Append(log[p], plist)]
    BY <2>1, <2>3, <2>4
  <2>6. \A r \in Players : r # p => log'[r] = Logged(list, create)[r]
    BY <2>2, <2>5 DEF Logged
  <2>7. log'[p] = Append(log[p], plist)
    BY <2>2, <2>5 DEF Logged
  <2>8. handled' = handled
    BY <1>2 DEF Join, clientVars
  <2> QED
    BY <2>2, <2>6, <2>7, <2>8, LoggedGrows DEF LogsGrow
<1>3. ASSUME NEW t \in Threads, ScheduleLeave(t)
      PROVE  handled' = handled /\ LogsGrow
  <2>1. pending[t] \in Players /\ TypeOK /\ list \in PlayerList
    BY <1>3 DEF ScheduleLeave, IInv, TypeOK
  <2>2. PICK bye \in Body : bye = [ty |-> "Leave", who |-> pending[t]]
    BY <2>1, BodyTypes
  <2>3. log' = Logged(list, bye) /\ handled' = handled
    BY <1>3, <2>2 DEF ScheduleLeave, clientVars
  <2> QED
    BY <2>1, <2>3, LoggedGrows DEF LogsGrow
<1>4. ASSUME NEW p \in Players, DestroyPlayer(p) \/ Kick(p)
      PROVE  log' = log /\ handled' = handled
  BY <1>4 DEF DestroyPlayer, Kick, Remove, clientVars
<1>5. ASSUME NEW p \in Players, Connect(p) \/ AskToLeave(p) \/ StopWaiting(p)
      PROVE  log' = log /\ handled' = handled
  BY <1>5 DEF Connect, AskToLeave, StopWaiting
<1>6. ASSUME NEW p \in Players, Handle(p) \/ HandleFreed(p)
      PROVE  log' = log
  BY <1>6 DEF Handle, HandleFreed
<1>7. ASSUME NEW p \in Players, NEW m \in net, Receive(p, m)
      PROVE  log' = log /\ handled' = handled
  BY <1>7 DEF Receive
<1>8. ASSUME NEW a \in acks, HandleAck(a)
      PROVE  log' = log /\ handled' = handled
  BY <1>8 DEF HandleAck, clientVars
<1>9. ASSUME Deliver
      PROVE  log' = log /\ handled' = handled
  BY <1>9 DEF Deliver, DeliverThese, clientVars
<1>10. CASE UNCHANGED vars
  BY <1>1, <1>10 DEF vars
<1> QED
  BY <1>1, <1>2, <1>3, <1>4, <1>5, <1>6, <1>7, <1>8, <1>9, <1>10 DEF Next

LEMMA BrokenStays ==
  ASSUME IInv, Fresh, [Next]_vars
  PROVE  Fresh' /\ \A p \in Players : Broken(p) => Broken(p)'
<1> USE DEF Fresh, Broken, Sound
<1>0. TypeOK
  BY DEF IInv
<1>1. CASE UNCHANGED <<pid, tainted, freed, conn>>
  BY <1>1
<1>2. ASSUME NEW p \in Players, Join(p)
      PROVE  Fresh' /\ \A r \in Players : Broken(r) => Broken(r)'
  <2>1. PICK s \in Slots : pid' = [pid EXCEPT ![p] = s]
    BY <1>2 DEF Join
  <2>2. /\ pid[p] = 0 /\ s # 0 /\ ~tainted[p]
        /\ \A r \in Players : r # p => tainted'[r] = tainted[r]
        /\ UNCHANGED <<conn, freed>>
    BY <1>0, <1>2 DEF Join, clientVars, TypeOK, Slots
  <2>3. \A r \in Players : pid'[r] = (IF r = p THEN s ELSE pid[r])
    BY <1>0, <2>1 DEF TypeOK
  <2>4. Fresh'
    BY <2>2, <2>3
  <2> QED
    BY <2>2, <2>4
<1>3. ASSUME NEW p \in Players, DestroyPlayer(p) \/ Kick(p)
      PROVE  UNCHANGED <<pid, tainted, freed, conn>>
  BY <1>3 DEF DestroyPlayer, Kick, Remove, clientVars
<1>4. ASSUME NEW p \in Players, Connect(p) \/ AskToLeave(p) \/ StopWaiting(p)
      PROVE  Fresh' /\ \A r \in Players : Broken(r) => Broken(r)'
  BY <1>0, <1>4 DEF Connect, AskToLeave, StopWaiting, TypeOK
<1>5. ASSUME NEW p \in Players, Handle(p)
      PROVE  Fresh' /\ \A r \in Players : Broken(r) => Broken(r)'
  BY <1>0, <1>5 DEF Handle, Ready, Connected, TypeOK
<1>6. ASSUME NEW p \in Players, HandleFreed(p)
      PROVE  UNCHANGED <<pid, tainted, freed, conn>>
  BY <1>6 DEF HandleFreed
<1>7. ASSUME NEW p \in Players, NEW m \in net, Receive(p, m)
      PROVE  UNCHANGED <<pid, tainted, freed, conn>>
  BY <1>7 DEF Receive
<1>8. ASSUME NEW a \in acks, HandleAck(a)
      PROVE  UNCHANGED <<pid, tainted, freed, conn>>
  BY <1>8 DEF HandleAck, clientVars
<1>9. ASSUME NEW t \in Threads, ScheduleLeave(t)
      PROVE  UNCHANGED <<pid, tainted, freed, conn>>
  BY <1>9 DEF ScheduleLeave, clientVars
<1>10. ASSUME Deliver
      PROVE  UNCHANGED <<pid, tainted, freed, conn>>
  BY <1>10 DEF Deliver, DeliverThese, clientVars
<1>11. ASSUME UNCHANGED vars
       PROVE  UNCHANGED <<pid, tainted, freed, conn>>
  BY <1>11 DEF vars
<1> QED
  BY <1>1, <1>2, <1>3, <1>4, <1>5, <1>6, <1>7, <1>8, <1>9, <1>10, <1>11 DEF Next

\* A client in order that handles a message delivers the next one of its log.
LEMMA HandleDelivers ==
  ASSUME IInv, NEW p \in Players, Handle(p), ~Broken(p)
  PROVE  /\ Len(handled[p]) < Len(log[p])
         /\ handled'[p] = Append(handled[p], log[p][Len(handled[p]) + 1])
<1>1. TypeOK
  BY DEF IInv
<1>2. Sound(p) /\ Staying(p)
  BY <1>1 DEF Broken, Staying, TypeOK
<1>3. /\ next[p] < Len(log[p])
      /\ Head(queue[p]).body = log[p][next[p] + 1]
      /\ handled[p] = SubSeq(log[p], 1, next[p])
  BY <1>2, HandlesNext
<1>4. next[p] \in Nat /\ log[p] \in Seq(Body) /\ Len(log[p]) \in Nat
  BY <1>1, LenProperties DEF TypeOK
<1>5. PICK lg, n : lg = log[p] /\ n = next[p]
  OBVIOUS
<1>6. Len(SubSeq(lg, 1, n)) = n
  <2>1. lg \in Seq(Body) /\ n \in 0..Len(lg)
    BY <1>3, <1>4, <1>5
  <2>2. \A i \in 1..n : lg[i] \in Body
    BY <2>1, ElementOfSeq
  <2> QED
    BY <2>1, <2>2, SubSeqProperties
<1>7. handled'[p] = Append(handled[p], Head(queue[p]).body)
  BY <1>1 DEF Handle, TypeOK
<1> QED
  BY <1>3, <1>5, <1>6, <1>7

LEMMA OrderedStep ==
  ASSUME IInv, IInv', Fresh, [Next]_vars
  PROVE  Ordered!Next
<1> DEFINE broken == [p \in Players |-> ~Sound(p) \/ conn[p] \in {"leaving", "gone"}]
<1>1. \A p \in Players : (broken[p] <=> Broken(p)) /\ (broken'[p] <=> Broken(p)')
  BY DEF Broken
<1>2. \A p \in Players : broken[p] => broken'[p]
  BY <1>1, BrokenStays
<1>3. /\ log' = [p \in Players |-> log'[p]]
      /\ handled' = [p \in Players |-> handled'[p]]
      /\ broken' = [p \in Players |-> broken'[p]]
  BY DEF IInv, TypeOK
<1>4. ASSUME NEW p \in Players PROVE Ordered!Step(p)
  <2>1. CASE handled' = handled /\ LogsGrow
    BY <1>2, <2>1 DEF LogsGrow, Ordered!Step, Ordered!Rests, Ordered!Send, Ordered!StaysBroken
  <2>2. ASSUME log' = log, NEW r \in Players, Handle(r) \/ HandleFreed(r)
        PROVE  Ordered!Step(p)
    <3>1. CASE r # p
      <4>1. handled'[p] = handled[p]
        BY SMTT(40), <2>2, <3>1 DEF Handle, HandleFreed, IInv, TypeOK
      <4> QED
        BY <1>2, <2>2, <4>1 DEF Ordered!Step, Ordered!Rests, Ordered!StaysBroken
    <3>2. CASE r = p /\ Broken(p)
      BY <1>1, <1>2, <2>2, <3>2 DEF Ordered!Step, Ordered!Misdeliver
    <3>3. CASE r = p /\ ~Broken(p)
      <4>1. Handle(p)
        BY <2>2, <3>3 DEF HandleFreed, Broken, Sound
      <4> QED
        BY <1>2, <2>2, <3>3, <4>1, HandleDelivers DEF Ordered!Step, Ordered!Deliver, Ordered!StaysBroken
    <3> QED
      BY <3>1, <3>2, <3>3
  <2> QED
    BY <2>1, <2>2, SendOrHandle
<1> QED
  BY <1>3, <1>4 DEF Ordered!Next

\* The host-to-client system messages, with their numbers, table, resends and lists,
\* are an ordered delivery (OrderedDelivery) to every client whose channel is sound,
\* for any number of clients, slots and table entries.
THEOREM Implements == Spec => ImplementsOrderedDelivery
<1>1. Init => Fresh /\ Ordered!Init
  <2> SUFFICES ASSUME Init PROVE Fresh /\ Ordered!Init
    OBVIOUS
  <2>1. \A p \in Players : ~(~Sound(p) \/ conn[p] \in {"leaving", "gone"})
    BY DEF Init, Sound
  <2> QED
    BY <2>1 DEF Init, Fresh, Ordered!Init
<1>2. IInv /\ Fresh /\ [Next]_vars => Fresh'
  BY BrokenStays
<1>3. IInv /\ IInv' /\ Fresh /\ [Next]_vars => [Ordered!Next]_Ordered!vars
  BY OrderedStep
<1> QED
  BY InitInv, StepInv, <1>1, <1>2, <1>3, PTL DEF Spec, ImplementsOrderedDelivery, Ordered!Spec

-----------------------------------------------------------------------------
(* Nothing is lost but what is excused.  A client that acknowledges a number has it, *)
(* and keeps it until it is handled.                                                  *)

\* p has handled number i, or will, or lost it in one of the known ways.
Has(p, i) == i < next[p] \/ i \in excused[p] \/ Holds(queue[p], i)

AckGot ==
  \A a \in acks : /\ conn[a.from] # "out"
                  /\ Sound(a.from) /\ Staying(a.from) => a.id = 0 \/ Has(a.from, a.id)

KInv == IInv /\ AckGot

\* Of what is popped only the first entry goes, if it is linked as a first entry is.
LEMMA PoppedHolds ==
  ASSUME NEW Payload, NEW q \in Seq(Entries(Payload)), q # << >>, ~Head(q).prev,
         NEW i, Holds(q, i), i # Head(q).id
  PROVE  Holds(Popped(q), i)
<1>1. /\ Len(q) \in Nat /\ DOMAIN q = 1..Len(q) /\ Len(q) >= 1 /\ Head(q) = q[1]
  BY LenProperties, EmptySeq
<1>2. PICK k \in 2..Len(q) : q[k].id = i
  BY <1>1 DEF Holds
<1>3. Len(q) # 1
  BY <1>1, <1>2
<1>4. PICK t : t = Tail(q)
  OBVIOUS
<1>5. /\ t \in Seq(Entries(Payload)) /\ Len(t) = Len(q) - 1 /\ DOMAIN t = 1..Len(q) - 1
      /\ t[k - 1] = q[k] /\ k - 1 \in DOMAIN t /\ 1 \in DOMAIN t
  BY <1>1, <1>2, <1>4, HeadTailProperties, LenProperties
<1>6. [t EXCEPT ![1].prev = FALSE][k - 1].id = i
  <2>1. t[1] \in Entries(Payload)
    BY <1>5, ElementOfSeq, LenProperties
  <2>2. [t[1] EXCEPT !.prev = FALSE].id = t[1].id
    BY <2>1, WritePrev
  <2> QED
    BY <1>2, <1>5, <2>2
<1>7. k - 1 \in DOMAIN [t EXCEPT ![1].prev = FALSE]
  BY <1>5
<1>8. Popped(q) = [t EXCEPT ![1].prev = FALSE]
  BY <1>3, <1>4 DEF Popped
<1> QED
  BY <1>6, <1>7, <1>8 DEF Holds

\* A client that stays is never sent its own leave.
LEMMA NotOwnLeave ==
  ASSUME IInv, NEW p \in Players, NEW m \in net, Receive(p, m), Sound(p), Staying(p)
  PROVE  ~ReceiveOwnLeave(p, m)
<1>1. m.to = p /\ m.id \in Nat /\ m.body \in Body /\ log[p] \in Seq(Body)
  BY DEF Receive, IInv, TypeOK, Datagram
<1>2. Carries(log[p], m)
  BY <1>1 DEF IInv, NetMatch, Sound
<1>3. ASSUME m.body.ty = "Leave", m.body.who = p PROVE FALSE
  <2>1. m.body = [ty |-> "Leave", who |-> p]
    BY <1>1, <1>3 DEF Body
  <2>2. m.id + 1 \in DOMAIN log[p] /\ log[p][m.id + 1] = m.body
    BY <1>1, <1>2, LenProperties DEF Carries
  <2> QED
    BY <2>1, <2>2 DEF IInv, NoOwnLeave
<1> QED
  BY <1>3 DEF ReceiveOwnLeave

\* What p has it keeps, and with the acknowledged message it has that one too.
LEMMA ReceiveKeeps ==
  ASSUME IInv, NEW p \in Players, NEW m \in net, Receive(p, m), Sound(p), Staying(p)
  PROVE  /\ \A i \in Nat : Has(p, i) => Has(p, i)'
         /\ acks' \subseteq acks \cup {[from |-> p, id |-> 0]}
              \/ (acks' = acks \cup {[from |-> p, id |-> m.id]} /\ Has(p, m.id)')
<1>1. TypeOK /\ next' = next /\ m.id \in Nat
  BY DEF Receive, IInv, TypeOK, Datagram
<1>2. ASSUME AddToHandle(p, queue[p], m.id, m.body)
      PROVE  /\ \A i \in Nat : Has(p, i) => Has(p, i)'
             /\ Has(p, m.id)'
  <2>1. PICK w : w = Insert(queue[p], m.id, m.body)
    OBVIOUS
  <2>2. queue'[p] = w
    BY <1>1, <1>2, <2>1 DEF AddToHandle, TypeOK
  <2>3. excused'[p] = excused[p] \cup
          {n \in {m.id} \cup {queue[p][k].id : k \in DOMAIN queue[p]} : ~Holds(w, n)}
    BY <1>1, <1>2, <2>1 DEF AddToHandle, TypeOK
  <2>4. ASSUME NEW i \in Nat, Holds(queue[p], i)
        PROVE  i \in {queue[p][k].id : k \in DOMAIN queue[p]}
    BY <2>4 DEF Holds
  <2> QED
    BY <1>1, <2>2, <2>3, <2>4 DEF Has
<1>3. ~ReceiveOwnLeave(p, m)
  BY NotOwnLeave
<1>4. CASE ReceiveUpdate(p, m)
  <2>1. acks' = acks \cup {[from |-> p, id |-> m.id]}
    BY <1>4 DEF ReceiveUpdate, Acknowledge
  <2>2. CASE m.id >= next[p]
    BY <1>2, <1>4, <2>1, <2>2 DEF ReceiveUpdate
  <2>3. CASE ~(m.id >= next[p])
    <3>1. UNCHANGED <<queue, excused>> /\ m.id < next[p]
      BY <1>1, <1>4, <2>3 DEF ReceiveUpdate, TypeOK
    <3> QED
      BY <1>1, <2>1, <3>1 DEF Has
  <2> QED
    BY <2>2, <2>3
<1>5. CASE ReceiveLeave(p, m)
  <2>1. CASE Joined(view[p], m.body.who) /\ m.id >= next[p]
    BY <1>2, <1>5, <2>1 DEF ReceiveLeave, Acknowledge
  <2>2. CASE ~(Joined(view[p], m.body.who) /\ m.id >= next[p])
    BY <1>1, <1>5, <2>2 DEF ReceiveLeave, Acknowledge, Has
  <2> QED
    BY <2>1, <2>2
<1> QED
  BY <1>3, <1>4, <1>5 DEF Receive

\* Handling goes on by one number, and the list keeps the others.
LEMMA HandleKeeps ==
  ASSUME IInv, NEW p \in Players, Handle(p), ~freed'[p]
  PROVE  \A i \in Nat : Has(p, i) => Has(p, i)'
<1>1. PICK q : q = queue[p]
  OBVIOUS
<1>2. /\ q \in Seq(Entries(Body)) /\ q # << >> /\ Head(q).id = next[p]
      /\ next[p] \in Nat
  BY <1>1, QueueTypes DEF IInv, TypeOK, Handle, Ready
<1>3. /\ queue'[p] = Popped(q) /\ next'[p] = next[p] + 1 /\ ~Head(q).prev
      /\ excused' = excused
  BY <1>1 DEF Handle, IInv, TypeOK
<1>4. ASSUME NEW i \in Nat, Holds(q, i), i # Head(q).id
      PROVE  Holds(Popped(q), i)
  BY <1>2, <1>3, <1>4, PoppedHolds
<1> QED
  BY <1>1, <1>2, <1>3, <1>4 DEF Has

\* What p has it keeps, whatever happens.
LEMMA HasStays ==
  ASSUME IInv, [Next]_vars, NEW p \in Players, Sound(p)', Staying(p)', NEW i \in Nat, Has(p, i)
  PROVE  Has(p, i)'
<1>1. TypeOK /\ TypeOK'
  BY TypeStep DEF IInv
<1>2. CASE UNCHANGED <<next, queue, excused>>
  BY <1>2 DEF Has
<1>3. ASSUME NEW r \in Players, Handle(r) PROVE Has(p, i)'
  <2>1. CASE r = p
    BY <1>3, <2>1, HandleKeeps DEF Sound
  <2>2. CASE r # p
    BY <1>1, <1>3, <2>2 DEF Handle, Has, TypeOK
  <2> QED
    BY <2>1, <2>2
<1>4. ASSUME NEW r \in Players, HandleFreed(r) PROVE Has(p, i)'
  <2>1. r # p
    BY <1>4 DEF HandleFreed, Sound
  <2> QED
    BY <1>1, <1>4, <2>1 DEF HandleFreed, Has, TypeOK
<1>5. ASSUME NEW r \in Players, NEW m \in net, Receive(r, m) PROVE Has(p, i)'
  <2>1. CASE r = p
    <3>1. Sound(p) /\ Staying(p)
      BY <1>5 DEF Receive, Sound, Staying
    <3> QED
      BY <1>5, <2>1, <3>1, ReceiveKeeps
  <2>2. CASE r # p
    BY <1>1, <1>5, <2>2
    DEF Receive, ReceiveUpdate, ReceiveLeave, ReceiveOwnLeave, AddToHandle, Has, TypeOK
  <2> QED
    BY <2>1, <2>2
<1>6. ASSUME NEW a \in acks, HandleAck(a) PROVE Has(p, i)'
  <2>1. excused[p] \subseteq excused'[p]
    BY <1>1, <1>6 DEF HandleAck, TypeOK
  <2> QED
    BY <1>6, <2>1 DEF HandleAck, Has, clientVars
<1>7. CASE Deliver
  <2>1. excused[p] \subseteq excused'[p]
    BY <1>7 DEF Deliver, DeliverThese
  <2> QED
    BY <1>7, <2>1 DEF Deliver, DeliverThese, Has, clientVars
<1>8. ASSUME NEW r \in Players,
             \/ Join(r) \/ DestroyPlayer(r) \/ Kick(r) \/ Connect(r) \/ AskToLeave(r) \/ StopWaiting(r)
      PROVE  UNCHANGED <<next, queue, excused>>
  BY <1>8 DEF Join, DestroyPlayer, Kick, Remove, Connect, AskToLeave, StopWaiting, clientVars
<1>9. ASSUME NEW t \in Threads, ScheduleLeave(t) PROVE UNCHANGED <<next, queue, excused>>
  BY <1>9 DEF ScheduleLeave, clientVars
<1>10. CASE UNCHANGED vars
  BY <1>2, <1>10 DEF vars
<1> QED
  BY <1>2, <1>3, <1>4, <1>5, <1>6, <1>7, <1>8, <1>9, <1>10 DEF Next

\* Where the entries of a sequence come in what is left of it.
LEMMA SuffixHas ==
  ASSUME NEW S, NEW q \in Seq(S), NEW n \in 0..Len(q), NEW j \in n + 1..Len(q)
  PROVE  /\ j - n \in DOMAIN SubSeq(q, n + 1, Len(q))
         /\ SubSeq(q, n + 1, Len(q))[j - n] = q[j]
<1>1. Len(q) \in Nat /\ n \in Nat /\ n + 1 \in Nat /\ \A i \in n + 1..Len(q) : q[i] \in S
  BY LenProperties, ElementOfSeq
<1>2. PICK r : r = SubSeq(q, n + 1, Len(q))
  OBVIOUS
<1>3. /\ r \in Seq(S)
      /\ Len(r) = IF n + 1 <= Len(q) THEN Len(q) - (n + 1) + 1 ELSE 0
      /\ \A i \in 1..Len(q) - (n + 1) + 1 : r[i] = q[n + 1 + i - 1]
  BY <1>1, <1>2, SubSeqProperties
<1>4. PICK l : l = Len(q)
  OBVIOUS
<1>5. l - (n + 1) + 1 = l - n /\ j - n \in 1..l - n /\ n + 1 + (j - n) - 1 = j /\ n + 1 <= l
  BY <1>1, <1>4
<1>6. Len(r) = l - n /\ \A i \in 1..l - n : r[i] = q[n + 1 + i - 1]
  BY <1>3, <1>4, <1>5
<1>7. j - n \in DOMAIN r /\ r[j - n] = q[j]
  BY <1>3, <1>5, <1>6, LenProperties
<1> QED
  BY <1>2, <1>7

\* What was held, and what is new, is held after a scheduling step.
LEMMA HeldBefore ==
  ASSUME TypeOK, NEW q \in Seq(Packet), Refill(inflight, overflow \o q)
  PROVE  Held \subseteq Held' /\ \A i \in DOMAIN q : q[i] \in Held'
<1>1. PICK w : w = overflow \o q
  OBVIOUS
<1>2. /\ w \in Seq(Packet) /\ DOMAIN w = 1..Len(w) /\ Len(w) \in Nat
      /\ \A k \in DOMAIN overflow : k \in DOMAIN w /\ w[k] = overflow[k]
      /\ \A i \in DOMAIN q : \E k \in DOMAIN w : w[k] = q[i]
  <2>1. /\ overflow \o q \in Seq(Packet)
        /\ DOMAIN (overflow \o q) = 1..(Len(overflow) + Len(q))
        /\ DOMAIN overflow = 1..Len(overflow) /\ DOMAIN q = 1..Len(q)
        /\ Len(overflow) \in Nat /\ Len(q) \in Nat
        /\ \A k \in 1..(Len(overflow) + Len(q)) : (overflow \o q)[k] =
             IF k <= Len(overflow) THEN overflow[k] ELSE q[k - Len(overflow)]
    BY ConcatProperties, LenProperties DEF TypeOK
  <2>2. ASSUME NEW k \in DOMAIN overflow PROVE k \in DOMAIN w /\ w[k] = overflow[k]
    BY <1>1, <2>1
  <2>3. ASSUME NEW i \in DOMAIN q PROVE \E k \in DOMAIN w : w[k] = q[i]
    <3>1. /\ i + Len(overflow) \in 1..(Len(overflow) + Len(q))
          /\ ~(i + Len(overflow) <= Len(overflow))
          /\ i + Len(overflow) - Len(overflow) = i
      BY <2>1
    <3>2. w[i + Len(overflow)] = q[i] /\ i + Len(overflow) \in DOMAIN w
      BY <1>1, <2>1, <3>1
    <3> QED
      BY <3>2
  <2> QED
    BY <1>1, <2>1, <2>2, <2>3, LenProperties
<1>3. PICK n \in 0..Len(w) :
        /\ inflight' = inflight \cup {w[i] : i \in 1..n}
        /\ overflow' = SubSeq(w, n + 1, Len(w))
  BY <1>1 DEF Refill
<1>4. ASSUME NEW k \in DOMAIN w PROVE w[k] \in Held'
  <2>1. CASE k <= n
    BY <1>2, <1>3, <2>1 DEF Held
  <2>2. CASE ~(k <= n)
    <3>1. k \in n + 1..Len(w)
      BY <1>2, <1>3, <2>2
    <3>2. k - n \in DOMAIN overflow' /\ overflow'[k - n] = w[k]
      BY <1>2, <1>3, <3>1, SuffixHas
    <3> QED
      BY <3>2 DEF Held
  <2> QED
    BY <2>1, <2>2
<1>5. ASSUME NEW x \in Held PROVE x \in Held'
  <2>1. CASE x \in inflight
    BY <1>3, <2>1 DEF Held
  <2>2. CASE x \notin inflight
    <3>1. PICK k \in DOMAIN overflow : x = overflow[k]
      BY <2>2 DEF Held
    <3> QED
      BY <1>2, <1>4, <3>1
  <2> QED
    BY <2>1, <2>2
<1>6. ASSUME NEW i \in DOMAIN q PROVE q[i] \in Held'
  BY <1>2, <1>4
<1> QED
  BY <1>5, <1>6

\* The deliver thread keeps all but what has been there for 60 seconds.
LEMMA DeliverHolds ==
  ASSUME TypeOK, NEW due \in SUBSET Sent, NEW old \in SUBSET (Sent \ due), DeliverThese(due, old),
         NEW x \in Held
  PROVE  x \in old \/ \E y \in Held' : y.slot = x.slot /\ y.id = x.id
<1>1. PICK n \in 0..Len(overflow) :
        LET arr == inflight \cup {overflow[i] : i \in 1..n}
            out == due \cup {y \in arr : ~y.sent}
        IN /\ overflow' = SubSeq(overflow, n + 1, Len(overflow))
           /\ inflight' = (arr \ (out \cup old)) \cup {[y EXCEPT !.sent = TRUE] : y \in out}
  BY DEF DeliverThese
<1> DEFINE arr == inflight \cup {overflow[i] : i \in 1..n}
           out == due \cup {y \in arr : ~y.sent}
<1>2. overflow \in Seq(Packet) /\ DOMAIN overflow = 1..Len(overflow) /\ Len(overflow) \in Nat
  BY LenProperties DEF TypeOK
<1>3. CASE x \in arr
  <2>1. CASE x \in out
    <3>1. [x EXCEPT !.sent = TRUE] \in Held'
      BY <1>1, <2>1 DEF Held
    <3>2. x \in Packet
      BY HeldTypes
    <3>3. [x EXCEPT !.sent = TRUE].slot = x.slot /\ [x EXCEPT !.sent = TRUE].id = x.id
      BY <3>2 DEF Packet
    <3> QED
      BY <3>1, <3>3
  <2>2. CASE x \notin out
    BY <1>1, <1>3, <2>2 DEF Held
  <2> QED
    BY <2>1, <2>2
<1>4. CASE x \notin arr
  <2>1. PICK k \in DOMAIN overflow : x = overflow[k]
    BY <1>4 DEF Held
  <2>2. k \in n + 1..Len(overflow)
    BY <1>2, <1>4, <2>1
  <2>3. overflow' = SubSeq(overflow, n + 1, Len(overflow))
    BY <1>1
  <2>4. k - n \in DOMAIN overflow' /\ overflow'[k - n] = x
    <3> HIDE DEF arr, out
    <3> QED
      BY <1>2, <2>1, <2>2, <2>3, SuffixHas
  <2> QED
    BY <2>4 DEF Held
<1> QED
  BY <1>3, <1>4

\* The host still keeps message i for p.
Keeps(p, i) == \E x \in Held : x.slot = pid[p] /\ x.id = i

NotLost ==
  \A p \in Players : \A i \in 0..Len(log[p]) - 1 :
    (Sound(p) /\ Staying(p) /\ Joined(list, p)) => Has(p, i) \/ Keeps(p, i)

LEMMA NotLostIs ==
  ASSUME TypeOK
  PROVE  NotLost <=> LostOnlyIfExcused
<1>1. ASSUME NEW p \in Players, NEW i \in 0..Len(log[p]) - 1
      PROVE  /\ Keeps(p, i) <=> \E x \in Kept(p) : x.id = i
             /\ i < next[p] <=> ~(i >= next[p])
  <2>1. i \in Int /\ next[p] \in Nat
    BY LenProperties DEF TypeOK
  <2> QED
    BY <2>1 DEF Keeps, Kept, Held
<1> QED
  BY <1>1 DEF NotLost, LostOnlyIfExcused, Has, Staying

\* A step that leaves the log of p alone loses nothing that the host does not drop.
LEMMA NothingNew ==
  ASSUME IInv, NotLost, [Next]_vars,
         NEW p \in Players, Sound(p)', Staying(p)',
         Sound(p), Staying(p), Joined(list, p),
         log'[p] = log[p], pid'[p] = pid[p],
         \A x \in Held : x.slot = pid[p] =>
           x.id \in excused'[p] \/ Has(p, x.id)' \/ \E y \in Held' : y.slot = x.slot /\ y.id = x.id
  PROVE  \A i \in 0..Len(log'[p]) - 1 : Has(p, i)' \/ Keeps(p, i)'
<1> SUFFICES ASSUME NEW i \in 0..Len(log[p]) - 1
             PROVE  Has(p, i)' \/ Keeps(p, i)'
  OBVIOUS
<1>1. i \in Nat
  BY LenProperties DEF IInv, TypeOK
<1>2. CASE Has(p, i)
  BY <1>1, <1>2, HasStays
<1>3. CASE Keeps(p, i)
  BY <1>3 DEF Keeps, Has
<1> QED
  BY <1>2, <1>3 DEF NotLost

\* Whoever stays in the session was in it and sound before, but for the one who joins.
Was(p) ==
  /\ Sound(p) /\ Staying(p) /\ pid'[p] = pid[p]
  /\ Joined(list', p) => Joined(list, p)

LEMMA WasThere ==
  ASSUME IInv, [Next]_vars, NEW p \in Players, Sound(p)', Staying(p)', ~Join(p)
  PROVE  Was(p)
<1>1. TypeOK /\ TypeOK' /\ p # NoPlayer
  BY TypeStep, NoPlayerAssumption DEF IInv
<1>2. ASSUME NEW r \in Players, Join(r), r # p
      PROVE  Was(p)
  <2>1. /\ freed' = freed /\ tainted'[p] = tainted[p] /\ conn' = conn /\ pid'[p] = pid[p]
    BY ZenonT(60), <1>1, <1>2 DEF Join, clientVars, TypeOK
  <2>2. PICK s \in Slots : list' = [list EXCEPT ![s] = r]
    BY <1>2 DEF Join
  <2>3. Joined(list', p) => Joined(list, p)
    BY <1>1, <1>2, <2>2 DEF Joined, TypeOK, PlayerList
  <2> QED
    BY <2>1, <2>3 DEF Was, Sound, Staying, Joined
<1>3. ASSUME NEW r \in Players, NEW t \in Threads, Remove(t, r)
      PROVE  Was(p)
  <2>1. UNCHANGED <<freed, tainted, conn, pid>> /\ list' = [list EXCEPT ![pid[r]] = NoPlayer]
    BY <1>3 DEF Remove, clientVars
  <2>2. Joined(list', p) => Joined(list, p)
    BY <1>1, <2>1 DEF Joined, TypeOK, PlayerList
  <2> QED
    BY <2>1, <2>2 DEF Was, Sound, Staying, Joined
<1>4. ASSUME NEW r \in Players, DestroyPlayer(r) \/ Kick(r)
      PROVE  Was(p)
  <2>1. CASE UNCHANGED <<list, conn, pid, freed, tainted>>
    BY <2>1 DEF Was, Sound, Staying, Joined
  <2>2. (\E t \in Threads : Remove(t, r)) \/ UNCHANGED <<list, conn, pid, freed, tainted>>
    BY <1>4 DEF DestroyPlayer, Kick, Threads, hostVars, clientVars
  <2> QED
    BY <1>3, <2>1, <2>2
<1>5. ASSUME NEW r \in Players, Connect(r) \/ AskToLeave(r) \/ StopWaiting(r)
      PROVE  Was(p)
  <2>1. UNCHANGED <<list, pid, freed, tainted>> /\ (conn'[p] \in {"out", "in"} => Staying(p))
    BY <1>1, <1>5 DEF Connect, AskToLeave, StopWaiting, hostVars, TypeOK, Staying
  <2> QED
    BY <2>1 DEF Was, Sound, Staying, Joined
<1>6. ASSUME NEW r \in Players, Handle(r) \/ HandleFreed(r)
      PROVE  Was(p)
  <2>1. UNCHANGED <<list, pid, tainted>> /\ (~freed'[p] => ~freed[p])
        /\ (conn'[p] \in {"out", "in"} => Staying(p))
    BY ZenonT(60), <1>1, <1>6 DEF Handle, HandleFreed, Ready, hostVars, TypeOK, Staying
  <2> QED
    BY <2>1 DEF Was, Sound, Staying, Joined
<1>7. ASSUME UNCHANGED <<list, conn, pid, freed, tainted>>
      PROVE  Was(p)
  BY <1>7 DEF Was, Sound, Staying, Joined
<1>8. ASSUME NEW r \in Players, NEW m \in net, Receive(r, m)
      PROVE  UNCHANGED <<list, conn, pid, freed, tainted>>
  BY <1>8 DEF Receive, hostVars
<1>9. ASSUME NEW t \in Threads, ScheduleLeave(t)
      PROVE  UNCHANGED <<list, conn, pid, freed, tainted>>
  BY <1>9 DEF ScheduleLeave, clientVars
<1>10. ASSUME NEW a \in acks, HandleAck(a)
       PROVE  UNCHANGED <<list, conn, pid, freed, tainted>>
  BY <1>10 DEF HandleAck, clientVars
<1>11. CASE Deliver
  <2>1. UNCHANGED <<list, conn, pid, freed, tainted>>
    BY <1>11 DEF Deliver, DeliverThese, clientVars
  <2> QED
    BY <1>7, <2>1
<1>12. CASE UNCHANGED vars
  <2>1. UNCHANGED <<list, conn, pid, freed, tainted>>
    BY <1>12 DEF vars
  <2> QED
    BY <1>7, <2>1
<1>13. \A r \in Players : Join(r) => r # p
  OBVIOUS
<1> QED
  BY <1>2, <1>4, <1>5, <1>6, <1>7, <1>8, <1>9, <1>10, <1>11, <1>12, <1>13 DEF Next

LEMMA OnlyReceiveAcks ==
  ASSUME [Next]_vars
  PROVE  acks' = acks \/ \E p \in Players : \E m \in net : Receive(p, m)
BY DEF Next, Join, DestroyPlayer, Kick, Remove, Connect, AskToLeave, StopWaiting, Handle,
       HandleFreed, ScheduleLeave, HandleAck, Deliver, DeliverThese, vars

LEMMA ConnStays ==
  ASSUME TypeOK, [Next]_vars, NEW p \in Players, conn[p] # "out"
  PROVE  conn'[p] # "out"
<1>1. conn' = conn \/ \E r \in Players :
        Connect(r) \/ AskToLeave(r) \/ StopWaiting(r) \/ Handle(r)
  BY DEF Next, Join, DestroyPlayer, Kick, Remove, HandleFreed, Receive, ScheduleLeave,
         HandleAck, Deliver, DeliverThese, vars, clientVars
<1>2. ASSUME NEW r \in Players, Connect(r) \/ AskToLeave(r) \/ StopWaiting(r) \/ Handle(r)
      PROVE  conn'[p] # "out"
  BY <1>2 DEF Connect, AskToLeave, StopWaiting, Handle, TypeOK
<1> QED
  BY <1>1, <1>2

LEMMA AckGotStep ==
  ASSUME KInv, [Next]_vars
  PROVE  AckGot'
<1> SUFFICES ASSUME NEW a \in acks', Sound(a.from)', Staying(a.from)', a.id # 0
             PROVE  Has(a.from, a.id)'
  <2>1. \A a \in acks' : conn'[a.from] # "out"
    <3> SUFFICES ASSUME NEW a \in acks' PROVE conn'[a.from] # "out"
      OBVIOUS
    <3>1. IInv /\ TypeOK /\ TypeOK' /\ a \in Ack
      BY TypeStep DEF KInv, IInv, TypeOK
    <3>2. a.from \in Players
      BY <3>1 DEF Ack
    <3>3. conn[a.from] # "out" => conn'[a.from] # "out"
      BY <3>1, <3>2, ConnStays
    <3>4. CASE a \in acks
      BY <3>3, <3>4 DEF KInv, AckGot
    <3>5. CASE a \notin acks
      <4>1. PICK p \in Players, m \in net : Receive(p, m)
        BY <3>5, OnlyReceiveAcks
      <4> QED
        BY <3>3, <3>5, <4>1 DEF Receive, ReceiveUpdate, ReceiveLeave, ReceiveOwnLeave,
                                Acknowledge, Connected
    <3> QED
      BY <3>4, <3>5
  <2> QED
    BY <2>1 DEF AckGot
<1>1. IInv /\ TypeOK /\ TypeOK' /\ a \in Ack
  BY TypeStep DEF KInv, IInv, TypeOK
<1>2. a.from \in Players /\ a.id \in Nat
  BY <1>1 DEF Ack
<1>3. CASE a \in acks
  <2>1. Sound(a.from) /\ Staying(a.from)
    <3>1. ~Join(a.from)
      BY <1>1, <1>2, <1>3 DEF Join, KInv, AckGot, IInv, Members
    <3> QED
      BY <1>1, <1>2, <3>1, WasThere DEF Was
  <2>2. Has(a.from, a.id)
    BY <1>3, <2>1 DEF KInv, AckGot
  <2> QED
    BY <1>1, <1>2, <2>2, HasStays
<1>4. CASE a \notin acks
  <2>1. PICK p \in Players, m \in net : Receive(p, m)
    BY <1>4, OnlyReceiveAcks
  <2>2. a.from = p
    BY <1>4, <2>1 DEF Receive, ReceiveUpdate, ReceiveLeave, ReceiveOwnLeave, Acknowledge
  <2>3. Sound(p) /\ Staying(p)
    BY <2>1, <2>2 DEF Receive, Sound, Staying
  <2> QED
    BY <1>1, <1>4, <2>1, <2>2, <2>3, ReceiveKeeps
<1> QED
  BY <1>3, <1>4

\* A message that is scheduled for p is held.
LEMMA OneScheduled ==
  ASSUME IInv, NotLost, [Next]_vars,
         NEW p \in Players, Sound(p)', Staying(p)', Sound(p), Staying(p), Joined(list, p),
         pid'[p] = pid[p], NEW b \in Body, log'[p] = Append(log[p], b),
         NEW q \in Seq(Packet), Refill(inflight, overflow \o q),
         NEW j \in DOMAIN q, q[j].slot = pid[p], q[j].id = Len(log[p])
  PROVE  \A i \in 0..Len(log'[p]) - 1 : Has(p, i)' \/ Keeps(p, i)'
<1> SUFFICES ASSUME NEW i \in 0..Len(log'[p]) - 1
             PROVE  Has(p, i)' \/ Keeps(p, i)'
  OBVIOUS
<1>1. TypeOK /\ log[p] \in Seq(Body) /\ Len(log[p]) \in Nat
  BY LenProperties DEF IInv, TypeOK
<1>2. Len(log'[p]) = Len(log[p]) + 1
  BY <1>1, Grown
<1>3. Held \subseteq Held' /\ q[j] \in Held'
  BY <1>1, HeldBefore
<1>4. CASE i = Len(log[p])
  BY <1>3, <1>4 DEF Keeps
<1>5. CASE i # Len(log[p])
  <2>1. i \in 0..Len(log[p]) - 1 /\ i \in Nat
    BY <1>1, <1>2, <1>5
  <2>2. CASE Has(p, i)
    BY <2>1, <2>2, HasStays
  <2>3. CASE Keeps(p, i)
    BY <1>3, <2>3 DEF Keeps
  <2> QED
    BY <2>1, <2>2, <2>3 DEF NotLost
<1> QED
  BY <1>4, <1>5

\* Every player of the list is scheduled a packet with its next number.
LEMMA ScheduledFor ==
  ASSUME IInv, NEW b \in Body, NEW p \in Players, pid[p] \in Slots, list[pid[p]] = p,
         NEW q \in InSlotOrder(Scheduled(list, b))
  PROVE  \E j \in DOMAIN q : q[j].slot = pid[p] /\ q[j].id = Len(log[p])
<1> DEFINE x == [slot |-> pid[p], id |-> nextId[pid[p]], body |-> b, sent |-> FALSE]
<1>0. list[pid[p]] # NoPlayer
  BY NoPlayerAssumption
<1>1. x \in Scheduled(list, b)
  BY <1>0 DEF Scheduled
<1>2. PICK j \in DOMAIN q : q[j] = x
  BY <1>1 DEF InSlotOrder
<1>3. x.slot = pid[p] /\ x.id = nextId[pid[p]]
  OBVIOUS
<1>4. nextId[pid[p]] = Len(log[p])
  BY <1>0 DEF IInv, Numbers
<1> QED
  BY <1>2, <1>3, <1>4

LEMMA JoinNotLost ==
  ASSUME IInv, NotLost, NEW r \in Players, Join(r),
         NEW p \in Players, Sound(p)', Staying(p)', Joined(list, p)'
  PROVE  \A i \in 0..Len(log'[p]) - 1 : Has(p, i)' \/ Keeps(p, i)'
<1>1. PICK s \in Slots :
        LET l == [list EXCEPT ![s] = r]
            plist == [ty |-> "List", list |-> l]
            create == [ty |-> "Create", slot |-> s, who |-> r]
        IN /\ list[s] = NoPlayer
           /\ list' = l
           /\ pid' = [pid EXCEPT ![r] = s]
           /\ log' = [Logged(list, create) EXCEPT ![r] = Append(log[r], plist)]
           /\ \E q \in InSlotOrder(Scheduled(list, create)) :
                Refill(inflight,
                       overflow \o Append(q, [slot |-> s, id |-> nextId[s],
                                              body |-> plist, sent |-> FALSE]))
  BY DEF Join
<1> DEFINE l == [list EXCEPT ![s] = r]
           plist == [ty |-> "List", list |-> l]
           create == [ty |-> "Create", slot |-> s, who |-> r]
           last == [slot |-> s, id |-> nextId[s], body |-> plist, sent |-> FALSE]
<1>2. TypeOK /\ TypeOK' /\ [Next]_vars
  BY JoinType DEF IInv, Next
<1>3. l \in PlayerList /\ plist \in Body /\ create \in Body /\ list \in PlayerList
  BY <1>2, BodyTypes DEF TypeOK, PlayerList
<1>4. last \in Packet
  BY <1>2, <1>3 DEF Packet, TypeOK
<1>5. PICK q0 \in InSlotOrder(Scheduled(list, create)) :
        Refill(inflight, overflow \o Append(q0, last))
  BY <1>1
<1>6. PICK q : q = Append(q0, last)
  OBVIOUS
<1>7. /\ q \in Seq(Packet) /\ DOMAIN q = 1..(Len(q0) + 1)
      /\ Len(q0) \in Nat /\ DOMAIN q0 = 1..Len(q0)
      /\ \A i \in 1..Len(q0) : q[i] = q0[i]
      /\ q[Len(q0) + 1] = last
  <2>1. q0 \in Seq(Packet)
    BY <1>2, <1>3, ScheduledPackets, InSlotOrderSeq
  <2> QED
    BY <1>4, <1>6, <2>1, AppendProperties, LenProperties
<1>8. Refill(inflight, overflow \o q)
  BY <1>5, <1>6
<1>9. CASE p = r
  <2>1. pid[p] = 0 /\ log[p] = << >> /\ nextId[s] = 0
    BY <1>1, <1>9 DEF Join, IInv, Members
  <2>2. log'[p] = Append(log[p], plist) /\ pid'[p] = s
    BY <1>1, <1>2, <1>9 DEF Logged, TypeOK
  <2>3. Len(log'[p]) = 1
    BY <1>2, <1>3, <2>1, <2>2, Grown, EmptySeq DEF TypeOK
  <2>4. last \in Held' /\ last.slot = s /\ last.id = 0
    BY <1>2, <1>7, <1>8, <2>1, HeldBefore
  <2>5. Keeps(p, 0)'
    BY <2>2, <2>4 DEF Keeps
  <2> QED
    BY <2>3, <2>5
<1>10. CASE p # r
  <2>1. Sound(p) /\ Staying(p) /\ Joined(list, p) /\ pid'[p] = pid[p]
    BY <1>1, <1>2, <1>10 DEF Join, clientVars, Sound, Staying, Joined, TypeOK, PlayerList
  <2>2. pid[p] \in Slots /\ list[pid[p]] = p
    BY <2>1, JoinedAt
  <2>3. log'[p] = Append(log[p], create)
    BY <1>1, <1>2, <1>10, <2>1 DEF Logged
  <2>4. PICK j \in DOMAIN q0 : q0[j].slot = pid[p] /\ q0[j].id = Len(log[p])
    BY <1>3, <2>2, ScheduledFor
  <2>5. j \in DOMAIN q /\ q[j].slot = pid[p] /\ q[j].id = Len(log[p])
    BY <1>7, <2>4
  <2>6. PICK b \in Body : b = create
    BY <1>3
  <2> QED
    BY <1>2, <1>7, <1>8, <2>1, <2>3, <2>5, <2>6, OneScheduled
<1> QED
  BY <1>9, <1>10

LEMMA ScheduleLeaveNotLost ==
  ASSUME IInv, NotLost, NEW t \in Threads, ScheduleLeave(t),
         NEW p \in Players, Sound(p)', Staying(p)', Joined(list, p)'
  PROVE  \A i \in 0..Len(log'[p]) - 1 : Has(p, i)' \/ Keeps(p, i)'
<1>1. PICK bye \in Body :
        /\ log' = Logged(list, bye)
        /\ \E q \in InSlotOrder(Scheduled(list, bye)) : Refill(inflight, overflow \o q)
        /\ UNCHANGED <<list, pid, conn, freed, tainted>>
  <2>1. pending[t] \in Players
    BY DEF ScheduleLeave, IInv, TypeOK
  <2>2. [ty |-> "Leave", who |-> pending[t]] \in Body
    BY <2>1, BodyTypes
  <2> QED
    BY <2>2 DEF ScheduleLeave, clientVars
<1>2. PICK q \in InSlotOrder(Scheduled(list, bye)) : Refill(inflight, overflow \o q)
  BY <1>1
<1>3. TypeOK /\ [Next]_vars /\ list \in PlayerList
  BY DEF IInv, Next, TypeOK
<1>4. q \in Seq(Packet)
  BY <1>3, ScheduledPackets, InSlotOrderSeq
<1>5. Sound(p) /\ Staying(p) /\ Joined(list, p) /\ pid'[p] = pid[p]
  BY <1>1 DEF Sound, Staying, Joined
<1>6. log'[p] = Append(log[p], bye)
  BY <1>1, <1>5 DEF Logged
<1>7. PICK j \in DOMAIN q : q[j].slot = pid[p] /\ q[j].id = Len(log[p])
  BY <1>5, JoinedAt, ScheduledFor
<1> QED
  BY <1>2, <1>3, <1>4, <1>5, <1>6, <1>7, OneScheduled

\* The table loses what the deliver thread and acknowledgements take out of it.
LEMMA DeliverNotLost ==
  ASSUME IInv, NotLost, Deliver, NEW p \in Players, Sound(p)', Staying(p)', Joined(list, p)'
  PROVE  \A i \in 0..Len(log'[p]) - 1 : Has(p, i)' \/ Keeps(p, i)'
<1>1. UNCHANGED <<list, pid, conn, freed, tainted, log, next, queue>> /\ [Next]_vars
  BY DEF Deliver, DeliverThese, clientVars, Next
<1>2. Sound(p) /\ Staying(p) /\ Joined(list, p) /\ pid'[p] = pid[p] /\ log'[p] = log[p]
  BY <1>1 DEF Sound, Staying, Joined
<1>3. list[pid[p]] = p
  BY <1>2, JoinedAt
<1>4. ASSUME NEW x \in Held, x.slot = pid[p]
      PROVE  x.id \in excused'[p] \/ \E y \in Held' : y.slot = x.slot /\ y.id = x.id
  <2>1. PICK due \in SUBSET Sent, old \in SUBSET Sent :
          old \in SUBSET (Sent \ due) /\ DeliverThese(due, old)
    BY DEF Deliver
  <2>2. CASE x \in old
    BY <1>3, <1>4, <2>1, <2>2 DEF DeliverThese
  <2>3. TypeOK
    BY DEF IInv
  <2> QED
    BY <1>4, <2>1, <2>2, <2>3, DeliverHolds
<1> QED
  BY <1>1, <1>2, <1>4, NothingNew

LEMMA HandleAckNotLost ==
  ASSUME KInv, NotLost, NEW a \in acks, HandleAck(a),
         NEW p \in Players, Sound(p)', Staying(p)', Joined(list, p)'
  PROVE  \A i \in 0..Len(log'[p]) - 1 : Has(p, i)' \/ Keeps(p, i)'
<1>1. UNCHANGED <<list, pid, conn, freed, tainted, log, next, queue, overflow>> /\ [Next]_vars
  BY DEF HandleAck, clientVars, Next
<1>2. Sound(p) /\ Staying(p) /\ Joined(list, p) /\ pid'[p] = pid[p] /\ log'[p] = log[p]
  BY <1>1 DEF Sound, Staying, Joined
<1>3. IInv /\ TypeOK /\ a \in Ack /\ a.from \in Players
  BY DEF KInv, IInv, TypeOK, Ack
<1>4. pid[p] \in Slots /\ list[pid[p]] = p
  BY <1>2, <1>3, JoinedAt
<1> DEFINE gone == {x \in inflight : x.slot = pid[a.from] /\ x.id \in AckedIds(a.id)}
<1>5. ASSUME NEW x \in Held, x.slot = pid[p]
      PROVE  x.id \in excused'[p] \/ Has(p, x.id)' \/ \E y \in Held' : y.slot = x.slot /\ y.id = x.id
  <2>1. CASE x \notin gone
    <3>1. x \in Held'
      BY <1>1, <2>1 DEF HandleAck, Held
    <3> QED
      BY <3>1
  <2>2. CASE x \in gone
    <3>1. a.from = p
      BY <1>4, <1>5, <2>2 DEF HandleAck
    <3>2. excused'[p] = excused[p] \cup
            {y.id : y \in {z \in gone : z.id = 0 /\ next[p] = 0 /\ ~Holds(queue[p], 0)}}
      BY <1>3, <3>1 DEF HandleAck, TypeOK
    <3>3. next[p] \in Nat
      BY <1>3 DEF TypeOK
    <3>4. CASE x.id = 0
      <4>1. Has(p, 0)' \/ x.id \in excused'[p]
        BY <1>1, <2>2, <3>2, <3>3, <3>4 DEF Has
      <4> QED
        BY <3>4, <4>1
    <3>5. CASE x.id # 0
      <4>1. x.id = a.id
        BY <2>2, <3>5 DEF AckedIds
      <4>2. Has(p, x.id)
        BY <1>2, <3>1, <3>5, <4>1 DEF KInv, AckGot
      <4> QED
        BY <1>1, <3>2, <4>2 DEF Has
    <3> QED
      BY <3>4, <3>5
  <2> QED
    BY <2>1, <2>2
<1> QED
  BY <1>1, <1>2, <1>3, <1>5, NothingNew

LEMMA RemoveNotLost ==
  ASSUME IInv, NotLost, NEW t \in Threads, NEW r \in Players, Remove(t, r), [Next]_vars,
         pid[r] \in Slots, list[pid[r]] = r,
         NEW p \in Players, Sound(p)', Staying(p)', Joined(list, p)'
  PROVE  \A i \in 0..Len(log'[p]) - 1 : Has(p, i)' \/ Keeps(p, i)'
<1>1. /\ UNCHANGED <<pid, conn, freed, tainted, log, next, queue, overflow>>
      /\ list' = [list EXCEPT ![pid[r]] = NoPlayer]
      /\ inflight' = Released(pid[r])
  BY DEF Remove, clientVars
<1>2. TypeOK /\ p # NoPlayer
  BY NoPlayerAssumption DEF IInv
<1>3. PICK s \in Slots : list[s] = p /\ s # pid[r]
  BY <1>1, <1>2 DEF Joined, TypeOK, PlayerList
<1>4. Sound(p) /\ Staying(p) /\ Joined(list, p) /\ pid'[p] = pid[p] /\ log'[p] = log[p]
  BY <1>1, <1>3 DEF Sound, Staying, Joined
<1>5. pid[p] = s
  BY <1>2, <1>3 DEF IInv, Members
<1>6. ASSUME NEW x \in Held, x.slot = pid[p] PROVE x \in Held'
  BY <1>1, <1>3, <1>5, <1>6 DEF Held, Released
<1> QED
  BY <1>4, <1>6, NothingNew

LEMMA NotLostStep ==
  ASSUME KInv, NotLost, [Next]_vars
  PROVE  NotLost'
<1> SUFFICES ASSUME NEW p \in Players, Sound(p)', Staying(p)', Joined(list, p)'
             PROVE  \A i \in 0..Len(log'[p]) - 1 : Has(p, i)' \/ Keeps(p, i)'
  BY DEF NotLost
<1> DEFINE Goal == \A i \in 0..Len(log'[p]) - 1 : Has(p, i)' \/ Keeps(p, i)'
<1>1. IInv
  BY DEF KInv
<1>2. ASSUME NEW r \in Players, Join(r) PROVE Goal
  BY <1>1, <1>2, JoinNotLost
<1>3. ASSUME NEW t \in Threads, ScheduleLeave(t) PROVE Goal
  BY <1>1, <1>3, ScheduleLeaveNotLost
<1>4. ASSUME Deliver PROVE Goal
  BY <1>1, <1>4, DeliverNotLost
<1>5. ASSUME NEW a \in acks, HandleAck(a) PROVE Goal
  BY <1>5, HandleAckNotLost
<1>6. ASSUME NEW r \in Players, Kick(r) PROVE Goal
  <2>1. Remove("game", r) /\ pid[r] \in Slots /\ list[pid[r]] = r
    BY <1>1, <1>6, JoinedAt DEF Kick
  <2> QED
    BY <1>1, <2>1, RemoveNotLost DEF Threads
<1>7. ASSUME UNCHANGED <<list, log, pid, inflight, overflow>>, ~Join(p) PROVE Goal
  <2>1. Sound(p) /\ Staying(p) /\ Joined(list, p)
    BY <1>1, <1>7, WasThere DEF Was
  <2>2. Held' = Held
    BY <1>7 DEF Held
  <2> QED
    BY <1>1, <1>7, <2>1, <2>2, NothingNew
<1>8. ASSUME NEW r \in Players, DestroyPlayer(r) PROVE Goal
  <2>1. CASE list[pid[r]] = r /\ Remove("listen", r)
    <3>1. pid[r] \in Slots
      BY <1>1, <1>8 DEF DestroyPlayer, IInv, TypeOK
    <3> QED
      BY <1>1, <2>1, <3>1, RemoveNotLost DEF Threads
  <2>2. CASE ~(list[pid[r]] = r /\ Remove("listen", r))
    <3>1. UNCHANGED <<list, log, pid, inflight, overflow>>
      BY <1>8, <2>2 DEF DestroyPlayer, hostVars
    <3>2. CASE Join(p)
      BY <1>2, <3>2
    <3> QED
      BY <1>7, <3>1, <3>2
  <2> QED
    BY <2>1, <2>2
<1>9. ASSUME UNCHANGED <<list, log, pid, inflight, overflow>> PROVE Goal
  BY <1>2, <1>7, <1>9
<1>10. ASSUME NEW r \in Players,
              \/ Connect(r) \/ AskToLeave(r) \/ StopWaiting(r) \/ Handle(r) \/ HandleFreed(r)
              \/ \E m \in net : Receive(r, m)
       PROVE  Goal
  <2>1. UNCHANGED <<list, log, pid, inflight, overflow>>
    BY <1>10 DEF Connect, AskToLeave, StopWaiting, Handle, HandleFreed, Receive, hostVars
  <2> QED
    BY <1>9, <2>1
<1> HIDE DEF Goal
<1>11. \/ \E r \in Players : Join(r) \/ DestroyPlayer(r) \/ Kick(r)
       \/ \E r \in Players :
            \/ Connect(r) \/ AskToLeave(r) \/ StopWaiting(r) \/ Handle(r) \/ HandleFreed(r)
            \/ \E m \in net : Receive(r, m)
       \/ \E t \in Threads : ScheduleLeave(t)
       \/ \E a \in acks : HandleAck(a)
       \/ Deliver \/ UNCHANGED <<list, log, pid, inflight, overflow>>
  BY DEF Next, vars
<1>12. Goal
  BY <1>2, <1>3, <1>4, <1>5, <1>6, <1>8, <1>9, <1>10, <1>11
<1> QED
  BY <1>12 DEF Goal

\* Nothing is lost but in the three ways that the code is known to lose it, by the network,
\* the table, the overflow queue or the client's list, however many of each there are.
THEOREM NothingLost == Spec => []LostOnlyIfExcused
<1> DEFINE I == IInv /\ AckGot /\ NotLost
<1>1. Init => I
  <2> SUFFICES ASSUME Init PROVE I
    OBVIOUS
  <2>1. AckGot
    BY DEF Init, AckGot
  <2>2. \A p \in Players : ~Joined(list, p)
    BY NoPlayerAssumption DEF Init, Joined
  <2> QED
    BY <2>1, <2>2, InitInv DEF NotLost
<1>2. I /\ [Next]_vars => I'
  <2> SUFFICES ASSUME I, [Next]_vars PROVE I'
    OBVIOUS
  <2>1. KInv
    BY DEF KInv
  <2> QED
    BY <2>1, StepInv, AckGotStep, NotLostStep
<1>3. I => LostOnlyIfExcused
  BY NotLostIs DEF IInv
<1> QED
  BY <1>1, <1>2, <1>3, PTL DEF Spec

-----------------------------------------------------------------------------
(* A client that has handled all there is agrees with the host.  What the messages of *)
(* a log make of a player list, one after the other, is its course; it ends where the  *)
(* host is, but for players whose leave is not scheduled yet.                         *)

\* f[i] is the list after the first i messages of lg, of which the first is a whole list.
Course(f, lg) ==
  /\ lg # << >> /\ f \in [1..Len(lg) -> PlayerList]
  /\ lg[1].ty = "List" /\ f[1] = lg[1].list
  /\ \A i \in 1..Len(lg) - 1 : f[i + 1] = Applied(f[i], lg[i + 1])

\* e differs from the list l in the players of pend only.
EndsAt(e, l, pend) ==
  \A s \in Slots :
    e[s] = l[s] \/ (l[s] = NoPlayer /\ \E t \in Threads : pend[t] # NoPlayer /\ e[s] = pend[t])

\* p has come to the place in the course that its next number names.
SeenIs(p, f) == (Sound(p) /\ Staying(p) /\ next[p] >= 1) => view[p] = f[next[p]]

Courses ==
  \A p \in Players : Joined(list, p) =>
    \E f : Course(f, log[p]) /\ EndsAt(f[Len(log[p])], list, pending) /\ SeenIs(p, f)

\* Before its first message a client knows of nobody but itself, and that message names it.
Starts ==
  \A p \in Players :
    /\ pid[p] # 0 => /\ log[p] # << >> /\ log[p][1].ty = "List"
                     /\ log[p][1].list \in PlayerList /\ log[p][1].list[pid[p]] = p
    /\ next[p] = 0 =>
         \A s \in Slots : view[p][s] = NoPlayer \/ (s = pid[p] /\ view[p][s] = p)

\* A course goes on with each message that is scheduled.
LEMMA CourseGrows ==
  ASSUME NEW lg \in Seq(Body), NEW f, Course(f, lg), NEW b \in Body
  PROVE  \E g : /\ Course(g, Append(lg, b))
                /\ \A i \in 1..Len(lg) : g[i] = f[i]
                /\ g[Len(Append(lg, b))] = Applied(f[Len(lg)], b)
<1>1. PICK n : n = Len(lg)
  OBVIOUS
<1>2. n \in Nat /\ n >= 1 /\ n = Len(lg)
  BY <1>1, EmptySeq, LenProperties DEF Course
<1>3. PICK h : h = Append(lg, b)
  OBVIOUS
<1>4. /\ h \in Seq(Body) /\ Len(h) = n + 1 /\ h[n + 1] = b
      /\ \A i \in 1..n : h[i] = lg[i]
  BY <1>2, <1>3, AppendProperties
<1>5. f \in [1..n -> PlayerList] /\ f[n] \in PlayerList
  BY <1>2 DEF Course
<1>6. Applied(f[n], b) \in PlayerList
  BY <1>5, AppliedType
<1>7. PICK g : g = [i \in 1..n + 1 |-> IF i <= n THEN f[i] ELSE Applied(f[n], b)]
  OBVIOUS
<1>8. /\ g \in [1..n + 1 -> PlayerList] /\ g[n + 1] = Applied(f[n], b)
      /\ \A i \in 1..n : g[i] = f[i]
  BY <1>2, <1>5, <1>6, <1>7
<1>9. ASSUME NEW i \in 1..n PROVE g[i + 1] = Applied(g[i], h[i + 1])
  <2>1. CASE i = n
    BY <1>2, <1>4, <1>8, <2>1
  <2>2. CASE i # n
    <3>1. i \in 1..Len(lg) - 1 /\ i + 1 \in 1..n
      BY <1>2, <2>2
    <3>2. f[i + 1] = Applied(f[i], lg[i + 1])
      BY <3>1 DEF Course
    <3> QED
      BY <1>4, <1>8, <3>1, <3>2
  <2> QED
    BY <2>1, <2>2
<1>10. h # << >>
  BY <1>2, <1>4, EmptySeq
<1>11. h[1] = lg[1] /\ g[1] = f[1] /\ Len(h) - 1 = n
  BY <1>2, <1>4, <1>8
<1>12. lg[1].ty = "List" /\ f[1] = lg[1].list
  BY DEF Course
<1>13. Course(g, h)
  BY <1>4, <1>8, <1>9, <1>10, <1>11, <1>12 DEF Course
<1> QED
  BY <1>2, <1>3, <1>4, <1>8, <1>13

\* What p has seen stays where it was in the course.
LEMMA SeenStays ==
  ASSUME IInv, [Next]_vars, NEW p \in Players, ~Join(p),
         view'[p] = view[p], next'[p] = next[p],
         NEW f, SeenIs(p, f), NEW g, \A i \in 1..Len(log[p]) : g[i] = f[i]
  PROVE  SeenIs(p, g)'
<1> SUFFICES ASSUME Sound(p)', Staying(p)', next'[p] >= 1
             PROVE  view'[p] = g[next'[p]]
  BY DEF SeenIs
<1>1. Sound(p) /\ Staying(p)
  BY WasThere DEF Was
<1>2. next[p] \in Nat /\ Len(log[p]) \in Nat /\ next[p] <= Len(log[p])
  BY <1>1, LenProperties DEF IInv, InOrder, TypeOK, Staying
<1> QED
  BY <1>1, <1>2 DEF SeenIs

\* A step that schedules nothing for p and shows it nothing keeps the course of p.
LEMMA SameCourse ==
  ASSUME IInv, Courses, [Next]_vars, NEW p \in Players, ~Join(p), Joined(list, p),
         view'[p] = view[p], next'[p] = next[p], log'[p] = log[p],
         \A e : EndsAt(e, list, pending) => EndsAt(e, list', pending')
  PROVE  \E f : Course(f, log'[p]) /\ EndsAt(f[Len(log'[p])], list', pending') /\ SeenIs(p, f)'
<1>1. PICK f : Course(f, log[p]) /\ EndsAt(f[Len(log[p])], list, pending) /\ SeenIs(p, f)
  BY DEF Courses
<1>2. SeenIs(p, f)'
  BY <1>1, SeenStays
<1> QED
  BY <1>1, <1>2

\* A step that schedules b for p makes its course longer.
LEMMA LongerCourse ==
  ASSUME IInv, Courses, [Next]_vars, NEW p \in Players, ~Join(p), Joined(list, p),
         view'[p] = view[p], next'[p] = next[p], NEW b \in Body, log'[p] = Append(log[p], b),
         \A e \in PlayerList : EndsAt(e, list, pending) => EndsAt(Applied(e, b), list', pending')
  PROVE  \E f : Course(f, log'[p]) /\ EndsAt(f[Len(log'[p])], list', pending') /\ SeenIs(p, f)'
<1>1. PICK f : Course(f, log[p]) /\ EndsAt(f[Len(log[p])], list, pending) /\ SeenIs(p, f)
  BY DEF Courses
<1>2. log[p] \in Seq(Body)
  BY DEF IInv, TypeOK
<1>3. PICK g : /\ Course(g, Append(log[p], b))
               /\ \A i \in 1..Len(log[p]) : g[i] = f[i]
               /\ g[Len(Append(log[p], b))] = Applied(f[Len(log[p])], b)
  BY <1>1, <1>2, CourseGrows
<1>4. f[Len(log[p])] \in PlayerList
  BY <1>1, <1>2, EmptySeq, LenProperties DEF Course
<1>5. SeenIs(p, g)'
  BY <1>1, <1>3, SeenStays
<1> QED
  BY <1>1, <1>3, <1>4, <1>5

\* Where a course ends, seen by the host: a newcomer is in both, a player that was removed
\* is pending until its leave is scheduled.
LEMMA EndsAfterJoin ==
  ASSUME TypeOK, Members, NEW r \in Players, NEW s \in Slots,
         NEW e \in PlayerList, EndsAt(e, list, pending)
  PROVE  EndsAt(Applied(e, [ty |-> "Create", slot |-> s, who |-> r]),
                [list EXCEPT ![s] = r], pending)
<1> DEFINE b == [ty |-> "Create", slot |-> s, who |-> r]
<1>1. b.ty = "Create" /\ b.slot = s /\ b.who = r
  OBVIOUS
<1>2. Applied(e, b) = [e EXCEPT ![s] = r]
  BY <1>1 DEF Applied
<1>3. list \in [Slots -> Players \cup {NoPlayer}] /\ e \in [Slots -> Players \cup {NoPlayer}]
  BY DEF TypeOK, PlayerList
<1>4. PICK w : w = [e EXCEPT ![s] = r]
  OBVIOUS
<1>5. PICK l : l = [list EXCEPT ![s] = r]
  OBVIOUS
<1>6. ASSUME NEW u \in Slots
      PROVE  \/ w[u] = l[u]
             \/ l[u] = NoPlayer /\ \E t \in Threads : pending[t] # NoPlayer /\ w[u] = pending[t]
  BY <1>3, <1>4, <1>5 DEF EndsAt
<1>7. EndsAt(w, l, pending)
  BY <1>6 DEF EndsAt
<1> QED
  BY <1>2, <1>4, <1>5, <1>7

LEMMA EndsAfterRemove ==
  ASSUME IInv, NEW t \in Threads, NEW r \in Players, Remove(t, r), pid[r] \in Slots, list[pid[r]] = r,
         NEW e, EndsAt(e, list, pending)
  PROVE  EndsAt(e, list', pending')
<1>1. /\ list' = [list EXCEPT ![pid[r]] = NoPlayer] /\ pending[t] = NoPlayer
      /\ pending' = [pending EXCEPT ![t] = r] /\ r # NoPlayer
  BY NoPlayerAssumption DEF Remove
<1>2. /\ list \in [Slots -> Players \cup {NoPlayer}]
      /\ pending \in [Threads -> Players \cup {NoPlayer}]
  BY DEF IInv, TypeOK, PlayerList
<1>3. ASSUME NEW s \in Slots
      PROVE  \/ e[s] = list'[s]
             \/ list'[s] = NoPlayer /\ \E u \in Threads : pending'[u] # NoPlayer /\ e[s] = pending'[u]
  <2>1. CASE e[s] = list[s]
    BY <1>1, <1>2, <2>1
  <2>2. CASE e[s] # list[s]
    <3>1. PICK u \in Threads : pending[u] # NoPlayer /\ e[s] = pending[u] /\ list[s] = NoPlayer
      BY <2>2 DEF EndsAt
    <3>2. u # t /\ pending'[u] = pending[u] /\ list'[s] = NoPlayer
      BY <1>1, <1>2, <3>1
    <3> QED
      BY <3>1, <3>2
  <2> QED
    BY <2>1, <2>2
<1> QED
  BY <1>3 DEF EndsAt

LEMMA EndsAfterLeave ==
  ASSUME IInv, NEW t \in Threads, ScheduleLeave(t),
         NEW e \in PlayerList, EndsAt(e, list, pending)
  PROVE  EndsAt(Applied(e, [ty |-> "Leave", who |-> pending[t]]), list', pending')
<1> DEFINE q == pending[t]
           b == [ty |-> "Leave", who |-> q]
<1>1. /\ list' = list /\ q # NoPlayer
      /\ pending' = [pending EXCEPT ![t] = NoPlayer]
  BY DEF ScheduleLeave
<1>2. /\ e \in [Slots -> Players \cup {NoPlayer}]
      /\ pending \in [Threads -> Players \cup {NoPlayer}]
  BY DEF IInv, TypeOK, PlayerList
<1>3. \A s \in Slots : list[s] # q
  BY <1>1 DEF IInv, Members, Joined
<1>4. b.ty = "Leave" /\ b.who = q
  OBVIOUS
<1>5. Applied(e, b) = [s \in Slots |-> IF e[s] = q THEN NoPlayer ELSE e[s]]
  BY <1>4 DEF Applied
<1>6. ASSUME NEW s \in Slots
      PROVE  \/ Applied(e, b)[s] = list'[s]
             \/ /\ list'[s] = NoPlayer
                /\ \E u \in Threads : pending'[u] # NoPlayer /\ Applied(e, b)[s] = pending'[u]
  <2>1. CASE e[s] = q
    BY <1>1, <1>3, <1>5, <2>1 DEF EndsAt
  <2>2. CASE e[s] # q
    <3>1. Applied(e, b)[s] = e[s]
      BY <1>5, <2>2
    <3>2. CASE e[s] = list[s]
      BY <1>1, <3>1, <3>2
    <3>3. CASE e[s] # list[s]
      <4>1. PICK u \in Threads : pending[u] # NoPlayer /\ e[s] = pending[u] /\ list[s] = NoPlayer
        BY <3>3 DEF EndsAt
      <4>2. u # t /\ pending'[u] = pending[u]
        BY <1>1, <1>2, <2>2, <4>1
      <4> QED
        BY <1>1, <3>1, <4>1, <4>2
    <3> QED
      BY <3>2, <3>3
  <2> QED
    BY <2>1, <2>2
<1> QED
  BY <1>6 DEF EndsAt

\* Handling brings the client one place further in its course.
LEMMA HandleSees ==
  ASSUME IInv, Starts, NEW p \in Players, Handle(p), Sound(p)', Staying(p)',
         NEW f, Course(f, log[p]), SeenIs(p, f)
  PROVE  SeenIs(p, f)'
<1>1. Sound(p) /\ Staying(p)
  <2>1. [Next]_vars /\ ~Join(p)
    BY DEF Next, Handle, Join, Ready, IInv, Members, Connected
  <2> QED
    BY <2>1, WasThere DEF Was, IInv
<1>2. /\ next[p] \in Nat /\ next[p] < Len(log[p]) /\ Len(log[p]) \in Nat
      /\ log[p] \in Seq(Body) /\ view[p] \in PlayerList
  BY <1>1, HandlesNext, LenProperties DEF IInv, TypeOK
<1>3. next'[p] = next[p] + 1 /\ view'[p] = Applied(view[p], log[p][next[p] + 1])
  <2>1. view'[p] = Applied(view[p], Head(queue[p]).body) /\ next'[p] = next[p] + 1
    BY DEF Handle, IInv, TypeOK
  <2> QED
    BY <1>1, <2>1, HandlesNext
<1>4. CASE next[p] # 0
  <2>1. next[p] \in 1..Len(log[p]) - 1 /\ next[p] >= 1
    BY <1>2, <1>4
  <2>2. view[p] = f[next[p]]
    BY <1>1, <2>1 DEF SeenIs
  <2> QED
    BY <1>3, <2>1, <2>2 DEF SeenIs, Course
<1>5. CASE next[p] = 0
  <2>1. pid[p] # 0
    BY <1>2, EmptySeq, LenProperties DEF IInv, Members
  <2>2. PICK l \in PlayerList : l = log[p][1].list /\ l[pid[p]] = p
    BY <2>1 DEF Starts
  <2>3. log[p][1].ty = "List"
    BY <2>1 DEF Starts
  <2>4. Applied(view[p], log[p][1]) = [s \in Slots |-> IF l[s] = NoPlayer THEN view[p][s] ELSE l[s]]
    BY <2>2, <2>3 DEF Applied
  <2>5. ASSUME NEW s \in Slots
        PROVE  (IF l[s] = NoPlayer THEN view[p][s] ELSE l[s]) = l[s]
    <3>1. p # NoPlayer
      BY NoPlayerAssumption
    <3> QED
      BY <1>1, <1>5, <2>2, <3>1 DEF Starts
  <2>6. l = [s \in Slots |-> l[s]]
    BY <2>2 DEF PlayerList
  <2>7. view'[p] = l
    BY <1>3, <1>5, <2>4, <2>5, <2>6
  <2>8. f[1] = l
    BY <2>2 DEF Course
  <2> QED
    BY <1>3, <1>5, <2>7, <2>8 DEF SeenIs
<1> QED
  BY <1>4, <1>5

\* The first message of a log stays the first.
LEMMA FirstStays ==
  ASSUME NEW lg \in Seq(Body), NEW b \in Body
  PROVE  Append(lg, b) # << >> /\ (lg # << >> => Append(lg, b)[1] = lg[1])
<1>1. /\ Append(lg, b) \in Seq(Body) /\ Len(Append(lg, b)) = Len(lg) + 1 /\ Len(lg) \in Nat
      /\ \A i \in 1..Len(lg) : Append(lg, b)[i] = lg[i]
  BY AppendProperties, LenProperties
<1>2. lg # << >> => 1 \in 1..Len(lg)
  BY <1>1, EmptySeq
<1> QED
  BY <1>1, <1>2, EmptySeq

\* But for a newcomer, who starts, a log that only grows starts as it did.
LEMMA StartsStays ==
  ASSUME IInv, Starts, NEW p \in Players, pid'[p] = pid[p],
         \/ log'[p] = log[p]
         \/ \E b \in Body : log'[p] = Append(log[p], b)
  PROVE  pid'[p] # 0 => /\ log'[p] # << >> /\ log'[p][1].ty = "List"
                        /\ log'[p][1].list \in PlayerList /\ log'[p][1].list[pid'[p]] = p
<1>1. log[p] \in Seq(Body)
  BY DEF IInv, TypeOK
<1>2. CASE log'[p] = log[p]
  BY <1>2 DEF Starts
<1>3. ASSUME NEW b \in Body, log'[p] = Append(log[p], b), pid[p] # 0
      PROVE  log'[p] # << >> /\ log'[p][1] = log[p][1]
  BY <1>1, <1>3, FirstStays DEF Starts
<1> QED
  BY <1>2, <1>3 DEF Starts

\* What a newcomer is sent first.
LEMMA JoinStarts ==
  ASSUME IInv, NEW r \in Players, NEW s \in Slots, NEW l, l = [list EXCEPT ![s] = r],
         log[r] = << >>
  PROVE  /\ l \in PlayerList /\ l[s] = r /\ [ty |-> "List", list |-> l] \in Body
         /\ Append(log[r], [ty |-> "List", list |-> l]) = <<[ty |-> "List", list |-> l]>>
         /\ Course([i \in 1..1 |-> l], <<[ty |-> "List", list |-> l]>>)
<1>1. list \in [Slots -> Players \cup {NoPlayer}]
  BY DEF IInv, TypeOK, PlayerList
<1>2. l \in PlayerList /\ l[s] = r
  BY <1>1 DEF PlayerList
<1>3. PICK b : b = [ty |-> "List", list |-> l]
  OBVIOUS
<1>4. b \in Body /\ b.ty = "List" /\ b.list = l
  BY <1>2, <1>3, BodyTypes
<1>5. Append(log[r], b) = <<b>>
  OBVIOUS
<1>6. PICK h : h = <<b>>
  OBVIOUS
<1>7. PICK f : f = [i \in 1..1 |-> l]
  OBVIOUS
<1>8. h # << >> /\ Len(h) = 1 /\ h[1] = b
  BY <1>6
<1>9. f \in [1..1 -> PlayerList] /\ f[1] = l
  BY <1>2, <1>7
<1>10. Course(f, h)
  BY <1>4, <1>8, <1>9 DEF Course
<1> QED
  BY <1>2, <1>3, <1>4, <1>5, <1>6, <1>7, <1>10

\* The view of a client that has handled nothing.
Blank(p) ==
  next[p] = 0 => \A s \in Slots : view[p][s] = NoPlayer \/ (s = pid[p] /\ view[p][s] = p)

LEMMA BlankStays ==
  ASSUME IInv, Starts, [Next]_vars, NEW p \in Players
  PROVE  Blank(p)'
<1>1. TypeOK /\ Blank(p) /\ TypeOK'
  BY TypeStep DEF Starts, Blank, IInv
<1>2. CASE view'[p] = view[p] /\ next'[p] = next[p] /\ pid'[p] = pid[p]
  BY <1>1, <1>2 DEF Blank
<1>3. CASE next'[p] = next[p] + 1
  BY <1>1, <1>3 DEF Blank, TypeOK
<1>4. CASE Join(p)
  <2>1. pid[p] = 0 /\ view' = view /\ next' = next
    BY <1>4 DEF Join, clientVars
  <2>2. \A s \in Slots : s # 0
    BY DEF Slots
  <2> QED
    BY <1>1, <2>1, <2>2 DEF Blank
<1>5. ASSUME NEW r \in Players, Join(r), r # p
      PROVE  view'[p] = view[p] /\ next'[p] = next[p] /\ pid'[p] = pid[p]
  BY <1>1, <1>5 DEF Join, clientVars, TypeOK
<1>6. CASE Connect(p)
  <2>1. /\ view' = [view EXCEPT ![p] = [view[p] EXCEPT ![pid[p]] = p]]
        /\ next' = next /\ pid' = pid
    BY <1>6 DEF Connect
  <2>2. view'[p] = [view[p] EXCEPT ![pid[p]] = p] /\ view[p] \in [Slots -> Players \cup {NoPlayer}]
    BY <1>1, <2>1 DEF TypeOK, PlayerList
  <2> QED
    BY <1>1, <2>1, <2>2 DEF Blank
<1>7. ASSUME NEW r \in Players, Connect(r), r # p
      PROVE  view'[p] = view[p] /\ next'[p] = next[p] /\ pid'[p] = pid[p]
  BY <1>1, <1>7 DEF Connect, TypeOK
<1>8. ASSUME NEW r \in Players, Handle(r) \/ HandleFreed(r)
      PROVE  \/ next'[p] = next[p] + 1
             \/ view'[p] = view[p] /\ next'[p] = next[p] /\ pid'[p] = pid[p]
  <2>1. pid' = pid /\ next' = [next EXCEPT ![r] = @ + 1]
    BY <1>8 DEF Handle, HandleFreed
  <2>2. CASE r = p
    BY <1>1, <2>1, <2>2 DEF TypeOK
  <2>3. CASE r # p
    <3>1. view'[p] = view[p]
      BY <1>1, <1>8, <2>3 DEF Handle, HandleFreed, TypeOK
    <3> QED
      BY <1>1, <2>1, <2>3, <3>1 DEF TypeOK
  <2> QED
    BY <2>2, <2>3
<1>9. ASSUME NEW r \in Players,
             \/ DestroyPlayer(r) \/ Kick(r) \/ AskToLeave(r) \/ StopWaiting(r)
             \/ \E m \in net : Receive(r, m)
      PROVE  view'[p] = view[p] /\ next'[p] = next[p] /\ pid'[p] = pid[p]
  BY <1>9 DEF DestroyPlayer, Kick, Remove, AskToLeave, StopWaiting, Receive, clientVars
<1>10. ASSUME \/ \E t \in Threads : ScheduleLeave(t)
              \/ \E a \in acks : HandleAck(a)
              \/ Deliver \/ UNCHANGED vars
       PROVE  view'[p] = view[p] /\ next'[p] = next[p] /\ pid'[p] = pid[p]
  BY <1>10 DEF ScheduleLeave, HandleAck, Deliver, DeliverThese, clientVars, vars
<1> QED
  BY <1>2, <1>3, <1>4, <1>5, <1>6, <1>7, <1>8, <1>9, <1>10 DEF Next

LEMMA StartsStep ==
  ASSUME IInv, Starts, [Next]_vars
  PROVE  Starts'
<1> DEFINE First(p) == pid'[p] # 0 =>
             /\ log'[p] # << >> /\ log'[p][1].ty = "List"
             /\ log'[p][1].list \in PlayerList /\ log'[p][1].list[pid'[p]] = p
<1>1. TypeOK /\ TypeOK'
  BY TypeStep DEF IInv
<1>2. ASSUME NEW r \in Players, Join(r), NEW p \in Players
      PROVE  First(p)
  <2>1. PICK s \in Slots :
          LET l == [list EXCEPT ![s] = r]
              plist == [ty |-> "List", list |-> l]
              create == [ty |-> "Create", slot |-> s, who |-> r]
          IN /\ pid' = [pid EXCEPT ![r] = s]
             /\ log' = [Logged(list, create) EXCEPT ![r] = Append(log[r], plist)]
    BY <1>2 DEF Join
  <2> DEFINE l == [list EXCEPT ![s] = r]
             plist == [ty |-> "List", list |-> l]
             create == [ty |-> "Create", slot |-> s, who |-> r]
  <2>2. CASE p = r
    <3>1. log[r] = << >> /\ pid'[r] = s /\ log'[r] = Append(log[r], plist)
      BY <1>1, <1>2, <2>1 DEF Join, IInv, Members, Logged, TypeOK
    <3>2. l \in PlayerList /\ l[s] = r /\ Append(log[r], plist) = <<plist>>
      BY ZenonT(60), <3>1, JoinStarts
    <3>3. plist.ty = "List" /\ plist.list = l
      OBVIOUS
    <3>4. log'[p] # << >> /\ log'[p][1] = plist
      BY <2>2, <3>1, <3>2
    <3> QED
      BY <2>2, <3>1, <3>2, <3>3, <3>4
  <2>3. CASE p # r
    <3>1. pid'[p] = pid[p] /\ (log'[p] = log[p] \/ log'[p] = Append(log[p], create))
      BY <1>1, <2>1, <2>3 DEF Logged, TypeOK
    <3>2. create \in Body
      BY BodyTypes
    <3> HIDE DEF create
    <3> QED
      BY <3>1, <3>2, StartsStays
  <2> QED
    BY <2>2, <2>3
<1>3. ASSUME NEW t \in Threads, ScheduleLeave(t), NEW p \in Players
      PROVE  First(p)
  <2>1. PICK bye \in Body : log' = Logged(list, bye) /\ pid' = pid
    <3>1. pending[t] \in Players
      BY <1>1, <1>3 DEF ScheduleLeave, TypeOK
    <3>2. [ty |-> "Leave", who |-> pending[t]] \in Body
      BY <3>1, BodyTypes
    <3> QED
      BY <1>3, <3>2 DEF ScheduleLeave
  <2>2. log'[p] = log[p] \/ log'[p] = Append(log[p], bye)
    BY <2>1 DEF Logged
  <2> QED
    BY <2>1, <2>2, StartsStays
<1>4. ASSUME UNCHANGED <<pid, log>>, NEW p \in Players PROVE First(p)
  BY <1>4, StartsStays
<1>5. ASSUME NEW r \in Players,
             \/ DestroyPlayer(r) \/ Kick(r) \/ Connect(r) \/ AskToLeave(r) \/ StopWaiting(r)
             \/ Handle(r) \/ HandleFreed(r) \/ \E m \in net : Receive(r, m)
      PROVE  UNCHANGED <<pid, log>>
  BY <1>5 DEF DestroyPlayer, Kick, Remove, Connect, AskToLeave, StopWaiting, Handle, HandleFreed,
              Receive
<1>6. ASSUME \/ \E a \in acks : HandleAck(a)
             \/ Deliver \/ UNCHANGED vars
      PROVE  UNCHANGED <<pid, log>>
  BY <1>6 DEF HandleAck, Deliver, DeliverThese, vars
<1>7. \/ \E r \in Players : Join(r)
      \/ \E t \in Threads : ScheduleLeave(t)
      \/ UNCHANGED <<pid, log>>
  BY <1>5, <1>6 DEF Next
<1>8. ASSUME NEW p \in Players PROVE First(p)
  <2> HIDE DEF First
  <2> QED
    BY <1>2, <1>3, <1>4, <1>7
<1>9. ASSUME NEW p \in Players PROVE Blank(p)'
  BY BlankStays
<1> QED
  BY <1>8, <1>9 DEF Starts, Blank

\* Whoever is in the session does not join it.
LEMMA MemberStays ==
  ASSUME IInv, NEW p \in Players, Joined(list, p)
  PROVE  ~Join(p)
<1>1. pid[p] \in 1..NSlots
  BY JoinedAt DEF Slots
<1>2. pid[p] # 0
  BY <1>1
<1> QED
  BY <1>2 DEF Join

HasCourse(p) ==
  \E f : Course(f, log[p]) /\ EndsAt(f[Len(log[p])], list, pending) /\ SeenIs(p, f)

LEMMA JoinCourses ==
  ASSUME IInv, Courses, NEW r \in Players, Join(r), NEW p \in Players, Joined(list, p)'
  PROVE  HasCourse(p)'
<1>1. TypeOK /\ TypeOK' /\ [Next]_vars /\ p # NoPlayer
  BY JoinType, NoPlayerAssumption DEF IInv, Next
<1>2. PICK s \in Slots :
        LET l == [list EXCEPT ![s] = r]
            plist == [ty |-> "List", list |-> l]
            create == [ty |-> "Create", slot |-> s, who |-> r]
        IN /\ list' = l
           /\ log' = [Logged(list, create) EXCEPT ![r] = Append(log[r], plist)]
  BY DEF Join
<1>3. PICK l : l = [list EXCEPT ![s] = r]
  OBVIOUS
<1> DEFINE plist == [ty |-> "List", list |-> l]
           create == [ty |-> "Create", slot |-> s, who |-> r]
<1>4. /\ list' = l /\ pending' = pending /\ next' = next /\ view' = view
      /\ log' = [Logged(list, create) EXCEPT ![r] = Append(log[r], plist)]
  BY <1>2, <1>3 DEF Join, clientVars
<1>5. CASE p = r
  <2>1. log[r] = << >> /\ next[r] = 0 /\ log'[r] = Append(log[r], plist)
    BY <1>1, <1>4 DEF Join, IInv, Members, Logged, TypeOK
  <2>2. /\ Append(log[r], plist) = <<plist>> /\ Course([i \in 1..1 |-> l], <<plist>>)
    BY <1>3, <2>1, JoinStarts
  <2>3. PICK f : f = [i \in 1..1 |-> l]
    OBVIOUS
  <2>4. log'[p] = <<plist>> /\ Len(<<plist>>) = 1 /\ f[1] = l
    BY <1>5, <2>1, <2>2, <2>3
  <2>5. EndsAt(f[Len(log'[p])], list', pending')
    BY <1>4, <2>4 DEF EndsAt
  <2>6. SeenIs(p, f)'
    BY <1>4, <1>5, <2>1 DEF SeenIs
  <2>7. Course(f, log'[p])
    BY <2>2, <2>3, <2>4
  <2> QED
    BY <2>5, <2>6, <2>7 DEF HasCourse
<1>6. CASE p # r
  <2>1. Joined(list, p)
    BY <1>1, <1>3, <1>4, <1>6 DEF Joined, TypeOK, PlayerList
  <2>2. ~Join(p)
    BY <2>1, MemberStays
  <2>3. PICK b \in Body : b = create
    BY BodyTypes
  <2>4. log'[p] = Append(log[p], b)
    BY <1>1, <1>4, <1>6, <2>1, <2>3 DEF Logged
  <2>5. ASSUME NEW e \in PlayerList, EndsAt(e, list, pending)
        PROVE  EndsAt(Applied(e, b), list', pending')
    BY <1>1, <1>3, <1>4, <2>3, <2>5, EndsAfterJoin DEF IInv
  <2> QED
    BY <1>1, <1>4, <2>1, <2>2, <2>4, <2>5, LongerCourse DEF HasCourse
<1> QED
  BY <1>5, <1>6

LEMMA LeaveCourses ==
  ASSUME IInv, Courses, NEW t \in Threads, ScheduleLeave(t),
         NEW p \in Players, Joined(list, p)'
  PROVE  HasCourse(p)'
<1>1. PICK b \in Body : b = [ty |-> "Leave", who |-> pending[t]]
  <2>1. pending[t] \in Players
    BY DEF ScheduleLeave, IInv, TypeOK
  <2> QED
    BY <2>1, BodyTypes
<1>2. /\ list' = list /\ next' = next /\ view' = view /\ log' = Logged(list, b) /\ [Next]_vars
  BY <1>1 DEF ScheduleLeave, clientVars, Next
<1>3. Joined(list, p) /\ log'[p] = Append(log[p], b)
  BY <1>2 DEF Joined, Logged
<1>4. ~Join(p)
  BY <1>3, MemberStays
<1>5. ASSUME NEW e \in PlayerList, EndsAt(e, list, pending)
      PROVE  EndsAt(Applied(e, b), list', pending')
  BY <1>1, <1>5, EndsAfterLeave
<1> QED
  BY <1>2, <1>3, <1>4, <1>5, LongerCourse DEF HasCourse

LEMMA RemoveCourses ==
  ASSUME IInv, Courses, NEW t \in Threads, NEW r \in Players, Remove(t, r), [Next]_vars,
         pid[r] \in Slots, list[pid[r]] = r,
         NEW p \in Players, Joined(list, p)'
  PROVE  HasCourse(p)'
<1>1. UNCHANGED <<next, view, log>> /\ list' = [list EXCEPT ![pid[r]] = NoPlayer]
  BY DEF Remove, clientVars
<1>2. TypeOK /\ p # NoPlayer
  BY NoPlayerAssumption DEF IInv
<1>3. Joined(list, p)
  BY <1>1, <1>2 DEF Joined, TypeOK, PlayerList
<1>4. ~Join(p)
  BY <1>3, MemberStays
<1>5. \A e : EndsAt(e, list, pending) => EndsAt(e, list', pending')
  BY EndsAfterRemove
<1> QED
  BY <1>1, <1>3, <1>4, <1>5, SameCourse DEF HasCourse

\* What one client handles shows nothing to the others.
LEMMA HandleCourses ==
  ASSUME IInv, Courses, Starts, NEW r \in Players, Handle(r) \/ HandleFreed(r) \/ Connect(r),
         NEW p \in Players, Joined(list, p)'
  PROVE  HasCourse(p)'
<1>1. UNCHANGED <<list, log, pending>> /\ [Next]_vars /\ TypeOK
  BY DEF Handle, HandleFreed, Connect, hostVars, Next, IInv
<1>2. Joined(list, p)
  BY <1>1 DEF Joined
<1>3. PICK f : Course(f, log[p]) /\ EndsAt(f[Len(log[p])], list, pending) /\ SeenIs(p, f)
  BY <1>2 DEF Courses
<1>4. ~Join(p)
  BY <1>2, MemberStays
<1>5. CASE r # p
  <2>1. view'[p] = view[p] /\ next'[p] = next[p]
    BY <1>1, <1>5 DEF Handle, HandleFreed, Connect, TypeOK
  <2> QED
    BY <1>1, <1>2, <1>4, <2>1, SameCourse DEF HasCourse
<1>6. CASE r = p
  <2>1. SeenIs(p, f)'
    <3> SUFFICES ASSUME Sound(p)', Staying(p)', next'[p] >= 1
                 PROVE  SeenIs(p, f)'
      BY DEF SeenIs
    <3>1. ~HandleFreed(p)
      BY DEF HandleFreed, Sound
    <3>2. ~Connect(p)
      BY DEF Connect, IInv, Members
    <3> QED
      BY <1>3, <1>6, <3>1, <3>2, HandleSees
  <2> QED
    BY <1>1, <1>3, <2>1 DEF HasCourse
<1> QED
  BY <1>5, <1>6

LEMMA CoursesStep ==
  ASSUME IInv, Courses, Starts, [Next]_vars
  PROVE  Courses'
<1> SUFFICES ASSUME NEW p \in Players, Joined(list, p)'
             PROVE  HasCourse(p)'
  BY DEF Courses, HasCourse
<1>1. ASSUME NEW r \in Players, Join(r) PROVE HasCourse(p)'
  BY <1>1, JoinCourses
<1>2. ASSUME NEW t \in Threads, ScheduleLeave(t) PROVE HasCourse(p)'
  BY <1>2, LeaveCourses
<1>3. ASSUME NEW r \in Players, Handle(r) \/ HandleFreed(r) \/ Connect(r) PROVE HasCourse(p)'
  BY <1>3, HandleCourses
<1>4. ASSUME NEW r \in Players, Kick(r) PROVE HasCourse(p)'
  <2>1. Remove("game", r) /\ pid[r] \in Slots /\ list[pid[r]] = r
    BY <1>4, JoinedAt DEF Kick
  <2> QED
    BY <2>1, RemoveCourses DEF Threads
<1>5. ASSUME UNCHANGED <<list, log, pending, view, next>> PROVE HasCourse(p)'
  <2>1. Joined(list, p)
    BY <1>5 DEF Joined
  <2>2. ~Join(p)
    BY <2>1, MemberStays
  <2> QED
    BY <1>5, <2>1, <2>2, SameCourse DEF HasCourse
<1>6. ASSUME NEW r \in Players, DestroyPlayer(r) PROVE HasCourse(p)'
  <2>1. CASE list[pid[r]] = r /\ Remove("listen", r)
    <3>1. pid[r] \in Slots
      BY <1>6 DEF DestroyPlayer, IInv, TypeOK
    <3> QED
      BY <2>1, <3>1, RemoveCourses DEF Threads
  <2>2. CASE ~(list[pid[r]] = r /\ Remove("listen", r))
    <3>1. UNCHANGED <<list, log, pending, view, next>>
      BY <1>6, <2>2 DEF DestroyPlayer, hostVars, clientVars
    <3> QED
      BY <1>5, <3>1
  <2> QED
    BY <2>1, <2>2
<1>7. ASSUME NEW r \in Players,
             AskToLeave(r) \/ StopWaiting(r) \/ \E m \in net : Receive(r, m)
      PROVE  UNCHANGED <<list, log, pending, view, next>>
  BY <1>7 DEF AskToLeave, StopWaiting, Receive, hostVars
<1>8. ASSUME (\E a \in acks : HandleAck(a)) \/ Deliver \/ UNCHANGED vars
      PROVE  UNCHANGED <<list, log, pending, view, next>>
  BY <1>8 DEF HandleAck, Deliver, DeliverThese, clientVars, vars
<1> QED
  BY <1>1, <1>2, <1>3, <1>4, <1>5, <1>6, <1>7, <1>8 DEF Next

\* A client that has handled all there is for it has the host's player list, whoever joins,
\* leaves and is kicked meanwhile, in any number and in any order.
THEOREM Agreement == Spec => []AgreesWhenCaughtUp
<1> DEFINE I == IInv /\ Starts /\ Courses
<1>1. Init => I
  <2> SUFFICES ASSUME Init PROVE I
    OBVIOUS
  <2>1. Starts
    BY DEF Init, Starts
  <2>2. \A p \in Players : ~Joined(list, p)
    BY NoPlayerAssumption DEF Init, Joined
  <2> QED
    BY <2>1, <2>2, InitInv DEF Courses
<1>2. I /\ [Next]_vars => I'
  BY StepInv, StartsStep, CoursesStep
<1>3. I => AgreesWhenCaughtUp
  <2> SUFFICES ASSUME I, NEW p \in Players, Sound(p), conn[p] = "in", Joined(list, p),
                      next[p] = Len(log[p]), \A t \in Threads : pending[t] = NoPlayer
               PROVE  view[p] = list
    BY DEF AgreesWhenCaughtUp
  <2>1. PICK f : Course(f, log[p]) /\ EndsAt(f[Len(log[p])], list, pending) /\ SeenIs(p, f)
    BY DEF Courses
  <2>2. Len(log[p]) \in Nat /\ Len(log[p]) >= 1
    BY <2>1, EmptySeq, LenProperties DEF Course, IInv, TypeOK
  <2>3. view[p] = f[Len(log[p])]
    BY <2>1, <2>2 DEF SeenIs, Staying
  <2>4. \A s \in Slots : view[p][s] = list[s]
    BY <2>1, <2>3 DEF EndsAt
  <2>5. /\ list = [s \in Slots |-> list[s]]
        /\ view[p] = [s \in Slots |-> view[p][s]]
    BY DEF IInv, TypeOK, PlayerList
  <2> QED
    BY <2>4, <2>5
<1> QED
  BY <1>1, <1>2, <1>3, PTL DEF Spec
=============================================================================
