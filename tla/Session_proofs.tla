----------------------------- MODULE Session_proofs -----------------------------
(***************************************************************************)
(* Theorems about Session, for any number of players and slots.            *)
(*                                                                         *)
(* At most one host has the right to admit players, and it knows the last  *)
(* number that was given out.  The right goes with the MigrateHost, which  *)
(* one player can take, once: it is with one host (Acts) or under way in   *)
(* one MigrateHost (Pending) or lost with a player that left (OneRight),   *)
(* and the last number goes with it (KnowsLast).  Who hands over must have *)
(* closed the session (ClosedStages).  That holds only as long as every    *)
(* host began to leave after its own take-over was through: one that began *)
(* as a client, or half way, makes the session hasty, and five of the      *)
(* theorems say nothing of it from then on.                                *)
(*                                                                         *)
(* No game is told twice that a player left: what it has been told of is   *)
(* neither in its list, nor with one of its threads, nor in what it has    *)
(* still to handle (GoneOnce).  That needs to know what a log can show to  *)
(* whom (Following, Strangers, LeaveIsLast, HostForgets).                  *)
(*                                                                         *)
(* The packets of send_B_PlayerList have every joined player if there are  *)
(* not too many (RoomForAll).                                              *)
(*                                                                         *)
(* Then the host counts the players of its list, and who has handled all   *)
(* of its messages has its list.  A client is compared with its host by    *)
(* what the rest of the log will make of what it knows (Leads), and that   *)
(* with the list, but for what the host has still to tell (Tells).  What   *)
(* passes from host to host is the list that was handed over: a function   *)
(* F has that of each host, and Lineage(F) is the invariant.               *)
(***************************************************************************)
EXTENDS Session, SequenceTheorems, FiniteSetTheorems, LeastElement_proofs

-----------------------------------------------------------------------------
(* The players of a list in order, and the packets they are sent in *)

LEMMA SlotsFinite == IsFiniteSet(Slots)
BY NumbersAssumption, FS_Interval DEF Slots

LEMMA SlotNumbers ==
  /\ Slots \in SUBSET Nat
  /\ NSlots - 1 \in Slots /\ \A s \in Slots : s <= NSlots - 1
  /\ \A s \in Slots : s # 0 => s - 1 \in Slots
BY NumbersAssumption DEF Slots

\* From a number to the next, the number of members up to it grows by one at a member.
LEMMA UpToNext ==
  ASSUME NEW J \in SUBSET Nat, IsFiniteSet(J), NEW s \in Nat
  PROVE  LET A == {t \in J : t <= s}
             B == {t \in J : t <= s - 1}
         IN /\ Cardinality(A) \in Nat /\ Cardinality(B) \in Nat
            /\ s \in J => Cardinality(A) = Cardinality(B) + 1
            /\ s \notin J => Cardinality(A) = Cardinality(B)
            /\ s = 0 => Cardinality(B) = 0
<1>1. PICK A : A = {t \in J : t <= s}
  OBVIOUS
<1>2. PICK B : B = {t \in J : t <= s - 1}
  OBVIOUS
<1>3. A \in SUBSET J /\ B \in SUBSET J
  BY <1>1, <1>2
<1>4. IsFiniteSet(A) /\ IsFiniteSet(B) /\ Cardinality(A) \in Nat /\ Cardinality(B) \in Nat
  BY <1>3, FS_Subset, FS_CardinalityType
<1>5. \A t \in J : t \in A <=> t \in B \/ t = s
  <2>1. \A t \in Nat : t <= s <=> t <= s - 1 \/ t = s
    OBVIOUS
  <2> QED
    BY <1>1, <1>2, <2>1
<1>6. s \notin B
  BY <1>2
<1>x. s = 0 => B = {}
  <2>1. \A t \in Nat : ~(t <= 0 - 1)
    OBVIOUS
  <2> QED
    BY <1>2, <2>1
<1>7. CASE s \in J
  <2>1. A = B \cup {s}
    BY <1>3, <1>5, <1>7
  <2>2. Cardinality(A) = Cardinality(B) + 1
    BY <1>4, <1>6, <2>1, FS_AddElement
  <2> QED
    BY <1>1, <1>2, <1>4, <1>7, <1>x, <2>2, FS_EmptySet
<1>8. CASE s \notin J
  <2>1. A = B
    BY <1>3, <1>5, <1>8
  <2> QED
    BY <1>1, <1>2, <1>4, <1>8, <1>x, <2>1, FS_EmptySet
<1> QED
  BY <1>7, <1>8

\* So for each place in the order there is a slot: the first up to which there are as many.
LEMMA SlotAtPlace ==
  ASSUME NEW J \in SUBSET Slots, NEW k \in 1..Cardinality(J)
  PROVE  \E s \in J : Cardinality({t \in J : t <= s}) = k
<1> DEFINE Upto(s) == Cardinality({t \in J : t <= s})
           Enough == {s \in Slots : Upto(s) >= k}
<1>0. J \in SUBSET Nat /\ IsFiniteSet(J)
  BY SlotNumbers, SlotsFinite, FS_Subset
<1>1. /\ \A s \in Nat : Upto(s) \in Nat /\ Upto(s - 1) \in Nat
      /\ \A s \in J : Upto(s) = Upto(s - 1) + 1
      /\ \A s \in Nat \ J : Upto(s) = Upto(s - 1)
      /\ Upto(0 - 1) = 0
  BY <1>0, UpToNext
<1>2. NSlots - 1 \in Slots /\ Upto(NSlots - 1) = Cardinality(J)
  <2>1. {t \in J : t <= NSlots - 1} = J
    BY SlotNumbers
  <2> QED
    BY <2>1, SlotNumbers
<1>3. Cardinality(J) \in Nat /\ k \in Nat /\ k # 0 /\ Cardinality(J) >= k
  BY <1>0, FS_CardinalityType
<1> HIDE DEF Upto
<1>4. Enough \in SUBSET Nat /\ Enough # {}
  BY <1>2, <1>3, SlotNumbers
<1>5. PICK s \in Enough : \A j \in Enough : s <= j
  BY <1>4, LeastElement
<1>6. s \in Slots /\ s \in Nat /\ Upto(s) >= k /\ \A j \in Slots : Upto(j) >= k => s <= j
  BY <1>5, SlotNumbers
<1>7. ~(Upto(s - 1) >= k)
  <2>1. CASE s = 0
    BY <1>1, <1>3, <2>1
  <2>2. CASE s # 0
    <3>1. s - 1 \in Slots /\ ~(s <= s - 1)
      BY <1>6, <2>2, SlotNumbers
    <3> QED
      BY <1>6, <3>1
  <2> QED
    BY <2>1, <2>2
<1>8. s \in J
  BY <1>1, <1>6, <1>7
<1>9. Upto(s) = k
  BY <1>1, <1>3, <1>6, <1>7, <1>8
<1> QED
  BY <1>8, <1>9 DEF Upto

LEMMA JoinedSlots ==
  ASSUME NEW l
  PROVE  /\ Joined(l) \in SUBSET Slots /\ IsFiniteSet(Joined(l))
         /\ Cardinality(Joined(l)) \in 0..NSlots
<1>1. Joined(l) \in SUBSET Slots
  BY DEF Joined
<1>2. Cardinality(Slots) = NSlots
  BY NumbersAssumption, FS_Interval DEF Slots
<1> QED
  BY <1>1, <1>2, SlotsFinite, FS_Subset, FS_CardinalityType

\* InOrder puts every joined slot in a place of its own.
LEMMA InOrderPlaces ==
  ASSUME NEW l
  PROVE  /\ \A k \in 1..Cardinality(Joined(l)) : InOrder(l)[k] \in Joined(l)
         /\ \A s \in Joined(l) : \E k \in 1..Cardinality(Joined(l)) : InOrder(l)[k] = s
<1>1. PICK J : J = Joined(l)
  OBVIOUS
<1> DEFINE Rank(s) == Cardinality({t \in J : t <= s})
<1>2. J \in SUBSET Slots /\ J \in SUBSET Nat /\ IsFiniteSet(J) /\ Cardinality(J) \in Nat
  BY <1>1, JoinedSlots, SlotNumbers, FS_CardinalityType
<1>3. \A k \in 1..Cardinality(J) : InOrder(l)[k] = CHOOSE s \in J : Rank(s) = k
  BY <1>1 DEF InOrder
<1>4. \A k \in 1..Cardinality(J) : \E s \in J : Rank(s) = k
  BY <1>2, SlotAtPlace
<1>5. \A s, t \in J : s < t => Rank(s) # Rank(t)
  <2>1. SUFFICES ASSUME NEW s \in J, NEW t \in J, s < t, Rank(s) = Rank(t) PROVE FALSE
    OBVIOUS
  <2>2. PICK A : A = {u \in J : u <= s}
    OBVIOUS
  <2>3. PICK B : B = {u \in J : u <= t}
    OBVIOUS
  <2>4. t \in B /\ t \notin A
    BY <1>2, <2>1, <2>2, <2>3
  <2>5. \A u \in J : u <= s => u <= t
    BY <1>2, <2>1
  <2>6. A \in SUBSET B /\ B \in SUBSET J
    BY <2>2, <2>3, <2>5
  <2>7. IsFiniteSet(B) /\ (Cardinality(B) = Cardinality(A) => B = A)
    BY <1>2, <2>6, FS_Subset
  <2> QED
    BY <2>1, <2>2, <2>3, <2>4, <2>7
<1>6. \A s \in J : Rank(s) \in 1..Cardinality(J)
  <2>1. SUFFICES ASSUME NEW s \in J PROVE Rank(s) \in 1..Cardinality(J)
    OBVIOUS
  <2>2. PICK A : A = {u \in J : u <= s}
    OBVIOUS
  <2>3. A \in SUBSET J /\ s \in A
    BY <1>2, <2>2
  <2>4. IsFiniteSet(A) /\ Cardinality(A) \in Nat /\ Cardinality(A) <= Cardinality(J)
    BY <1>2, <2>3, FS_Subset, FS_CardinalityType
  <2>5. Cardinality(A) # 0
    BY <2>3, <2>4, FS_EmptySet
  <2> QED
    BY <1>2, <2>2, <2>4, <2>5
<1> HIDE DEF Rank
<1>7. \A k \in 1..Cardinality(J) : InOrder(l)[k] \in J /\ Rank(InOrder(l)[k]) = k
  BY <1>3, <1>4
<1>8. \A s, t \in J : Rank(s) = Rank(t) => s = t
  <2>1. \A s, t \in Nat : s < t \/ t < s \/ s = t
    OBVIOUS
  <2> QED
    BY <1>2, <1>5, <2>1
<1>9. \A s \in J : InOrder(l)[Rank(s)] = s
  BY <1>6, <1>7, <1>8
<1> QED
  BY <1>1, <1>6, <1>7, <1>9

\* The packets that c players need: one for any, and a second for more than fit into one.
LEMMA PacketsNeeded ==
  ASSUME NEW c \in Nat \ {0}
  PROVE  /\ (c + PerPacket - 1) \div PerPacket \in Nat
         /\ (c + PerPacket - 1) \div PerPacket >= 1
         /\ c > PerPacket => (c + PerPacket - 1) \div PerPacket >= 2
<1>1. PICK q \in Nat : q = PerPacket /\ q >= 2
  BY NumbersAssumption
<1>2. PICK d : d = (c + q - 1) \div q
  OBVIOUS
<1>3. d \in Int /\ d * q <= c + q - 1 /\ c + q - 1 < (d + 1) * q
  BY <1>1, <1>2
<1>4. d >= 1
  BY <1>1, <1>3
<1>5. c > q => d >= 2
  BY <1>1, <1>3
<1> QED
  BY <1>1, <1>2, <1>3, <1>4, <1>5

\* "send_B_PlayerList" tells a player who joins of every player: though the last of a packet
\* is sent again as the first of the next, each one is in some packet, as long as no more
\* slots exist than two packets hold so (nine, with five in a packet).
THEOREM PlayerListComplete ==
  ASSUME RoomForAll,
         NEW l
  PROVE  LET packets == ListPackets(l, Cardinality(Joined(l)))
         IN \A s \in Joined(l) :
              \E i \in DOMAIN packets : /\ s \in DOMAIN packets[i].part
                                        /\ packets[i].part[s] = l[s]
<1> USE DEF RoomForAll
<1>1. PICK c : c = Cardinality(Joined(l))
  OBVIOUS
<1>2. c \in Nat /\ c <= NSlots
  BY <1>1, JoinedSlots
<1>3. SUFFICES ASSUME NEW s \in Joined(l)
               PROVE  \E i \in 1..((c + PerPacket - 1) \div PerPacket) : s \in Part(l, i)
  <2>1. ~(c < 0)
    BY <1>2
  <2>2. PICK n : n = (c + PerPacket - 1) \div PerPacket
    OBVIOUS
  <2>3. ListPackets(l, c) =
          [i \in 1..n |-> [ty |-> "List", part |-> [t \in Part(l, i) |-> l[t]], count |-> c]]
    BY <2>1, <2>2 DEF ListPackets
  <2> QED
    BY <1>1, <1>3, <2>2, <2>3
<1>4. PICK k \in 1..c : InOrder(l)[k] = s
  BY <1>1, InOrderPlaces
<1>5. PICK n \in Nat : /\ n = (c + PerPacket - 1) \div PerPacket
                       /\ n >= 1 /\ (c > PerPacket => n >= 2)
  BY <1>2, <1>4, PacketsNeeded
<1>6. ASSUME NEW i \in Nat,
             (i - 1) * (PerPacket - 1) < k, k <= (i - 1) * (PerPacket - 1) + PerPacket
      PROVE  s \in Part(l, i)
  BY <1>1, <1>4, <1>6 DEF Part
<1>7. CASE k <= PerPacket
  <2>1. (1 - 1) * (PerPacket - 1) = 0
    BY NumbersAssumption
  <2>2. s \in Part(l, 1)
    BY <1>4, <1>6, <1>7, <2>1, NumbersAssumption
  <2> QED
    BY <1>5, <2>2
<1>8. CASE ~(k <= PerPacket)
  <2>1. (2 - 1) * (PerPacket - 1) = PerPacket - 1
    BY NumbersAssumption
  <2>2. s \in Part(l, 2)
    BY <1>2, <1>4, <1>6, <1>8, <2>1, NumbersAssumption
  <2> QED
    BY <1>2, <1>4, <1>5, <1>8, <2>2, NumbersAssumption
<1> QED
  BY <1>7, <1>8

-----------------------------------------------------------------------------
(* Types *)

AnyId == Id \cup {None}
Parts == UNION {[D -> Line] : D \in SUBSET Slots}

\* The numbered messages.
Message ==
  [ty : {"Create", "NewHost"}, id : AnyId, who : Players, count : Int]
    \cup [ty : {"Leave"}, id : AnyId, count : Int]
    \cup [ty : {"List"}, part : Parts, count : Int]
    \cup [ty : {"Migrate"}]

\* The datagrams that stay in the network.
Migrates ==
  [ty : {"Migrate"}, to : Players \cup {NoPlayer}, from : Players, id : AnyId, old : AnyId,
   count : Int, last : 0..MaxId, flag : BOOLEAN]
Datagram ==
  [ty : {"Added"}, to : Players, from : Players, id : Id, count : Int]
    \cup [ty : {"Leave"}, to : Players, id : AnyId]
    \cup Migrates

\* What is under way, and who reads it from whom.
SentOK ==
  /\ net \subseteq Datagram
  /\ log \in [Players -> [Players -> Seq(Message)]]
  /\ half \in [Players -> SUBSET Migrates]
  /\ \A p \in Players : Reading(p) => from[p] \in Players

Typed == TypeOK /\ SentOK

LEMMA LineType ==
  ASSUME NEW l \in [Slots -> Line], NEW s \in Slots
  PROVE  /\ s \in Joined(l) => IdAt(l, s) \in Id /\ l[s].who \in Players \cup {NoPlayer}
         /\ \A id \in AnyId : Has(l, id) /\ s = id.slot => IdAt(l, s) \in AnyId
<1>1. l[s].n \in -1..MaxId /\ l[s].who \in Players \cup {NoPlayer}
  BY DEF Line
<1>2. s \in Joined(l) => IdAt(l, s) \in Id
  BY <1>1, NumbersAssumption DEF Joined, IdAt, Id
<1>3. ASSUME NEW id \in AnyId, Has(l, id), s = id.slot
      PROVE  IdAt(l, s) = id
  BY <1>3 DEF AnyId, Id, None, Has, IdAt
<1> QED
  BY <1>1, <1>2, <1>3

LEMMA IdParts ==
  /\ None \in AnyId /\ Id \subseteq AnyId
  /\ \A id \in AnyId : id.slot \in Slots /\ id.n \in -1..MaxId
  /\ \A id \in Id : id.slot \in Slots /\ id.n \in 0..MaxId
  /\ 0 \in Slots
<1>1. 0 \in Slots
  BY NumbersAssumption DEF Slots
<1>2. \A id \in Id : id.slot \in Slots /\ id.n \in 0..MaxId
  BY DEF Id
<1>3. None.slot \in Slots /\ None.n \in -1..MaxId
  BY <1>1, NumbersAssumption DEF None
<1>4. \A n \in 0..MaxId : n \in -1..MaxId
  BY NumbersAssumption
<1> QED
  BY <1>1, <1>2, <1>3, <1>4 DEF AnyId

\* Writing a line of a list.
LEMMA ListType ==
  ASSUME NEW l \in [Slots -> Line], NEW s \in Slots
  PROVE  /\ [l EXCEPT ![s] = Free] \in [Slots -> Line]
         /\ \A n \in -1..MaxId, p \in Players :
              [l EXCEPT ![s] = [n |-> n, who |-> p, host |-> FALSE]] \in [Slots -> Line]
<1>1. Free \in Line
  BY NumbersAssumption DEF Free, Line
<1>2. \A n \in -1..MaxId, p \in Players : [n |-> n, who |-> p, host |-> FALSE] \in Line
  BY DEF Line
<1> QED
  BY <1>1, <1>2

LEMMA HostFlagType ==
  ASSUME NEW l \in [Slots -> Line], NEW s \in Slots, NEW b \in BOOLEAN
  PROVE  [l[s] EXCEPT !.host = b] \in Line
BY DEF Line

\* What is scheduled is a message of the log.
LEMMA ScheduledType ==
  ASSUME SentOK, NEW h \in Players, NEW l, NEW msg \in Message
  PROVE  Scheduled(h, l, msg) \in [Players -> Seq(Message)]
<1>1. \A p \in Players : log[h][p] \in Seq(Message) /\ Append(log[h][p], msg) \in Seq(Message)
  BY AppendProperties DEF SentOK
<1> QED
  BY <1>1 DEF Scheduled

LEMMA PartType ==
  ASSUME NEW l \in [Slots -> Line], NEW i \in Nat
  PROVE  [s \in Part(l, i) |-> l[s]] \in Parts
<1>1. Part(l, i) \in SUBSET Slots
  <2>1. \A k \in 1..Cardinality(Joined(l)) : InOrder(l)[k] \in Slots
    BY InOrderPlaces, JoinedSlots
  <2> QED
    BY <2>1 DEF Part
<1>2. PICK D \in SUBSET Slots : D = Part(l, i)
  BY <1>1
<1>3. [s \in D |-> l[s]] \in [D -> Line]
  OBVIOUS
<1> QED
  BY <1>2, <1>3 DEF Parts

LEMMA PacketsType ==
  ASSUME NEW l \in [Slots -> Line], NEW c \in Int
  PROVE  ListPackets(l, c) \in Seq(Message)
<1>1. PICK n \in Nat : n = (IF c < 0 THEN NSlots ELSE (c + PerPacket - 1) \div PerPacket)
  <2>1. CASE c < 0
    BY <2>1, NumbersAssumption
  <2>2. CASE c = 0
    <3>1. PICK q \in Nat : q = PerPacket /\ q >= 2
      BY NumbersAssumption
    <3>2. (0 + q - 1) \div q \in Nat
      BY <3>1
    <3> QED
      BY <2>2, <3>1, <3>2
  <2>3. CASE c > 0
    BY <2>3, PacketsNeeded
  <2> QED
    BY <2>1, <2>2, <2>3
<1>2. \A i \in 1..n : [ty |-> "List", part |-> [s \in Part(l, i) |-> l[s]], count |-> c] \in Message
  <2>1. \A i \in 1..n : [s \in Part(l, i) |-> l[s]] \in Parts
    BY PartType
  <2> QED
    BY <2>1 DEF Message
<1>3. ListPackets(l, c) = [i \in 1..n |-> [ty |-> "List", part |-> [s \in Part(l, i) |-> l[s]], count |-> c]]
  BY <1>1 DEF ListPackets
<1>4. ListPackets(l, c) \in [1..n -> Message]
  BY <1>2, <1>3
<1> QED
  BY <1>4, SeqDef

LEMMA TypedInit == Init => Typed
<1> SUFFICES ASSUME Init PROVE Typed
  OBVIOUS
<1>1. 0 \in Slots /\ 0 \in 0..MaxId /\ [slot |-> 0, n |-> 0] \in Id /\ None \in AnyId
  BY IdParts, NumbersAssumption DEF Id
<1>2. Free \in Line /\ Created \in Line
  BY PlayersAssumption, NumbersAssumption DEF Free, Created, Line
<1>3. Empty \in [Slots -> Line] /\ [Empty EXCEPT ![0] = Created] \in [Slots -> Line]
  BY <1>1, <1>2 DEF Empty
<1>4. /\ st \in [Players -> {"idle", "joining", "in", "going", "asking", "leaving",
                             "closing", "counting", "handing", "left", "over"}]
      /\ me \in [Players -> AnyId]
      /\ host \in [Players -> BOOLEAN]
      /\ count \in [Players -> Int] /\ closed \in [Players -> BOOLEAN]
  BY <1>1, IdParts DEF Init
<1>5. /\ list \in [Players -> [Slots -> Line]]
      /\ pend \in [Players -> [Threads -> AnyId]]
  BY <1>1, <1>3 DEF Init
<1>6. /\ last \in [Players -> 0..MaxId] /\ tmp \in [Players -> Int] /\ next \in [Players -> Nat]
      /\ hostOf \in [Players -> Players \cup {NoPlayer}]
      /\ from \in [Players -> Players \cup {NoPlayer}]
      /\ again \in [Players -> AnyId]
  BY <1>1 DEF Init
<1>7. given \subseteq [slot : Slots, n : 0..MaxId, who : Players]
  BY <1>1, PlayersAssumption DEF Init
<1>8. TypeOK
  <2>1. migrates \in [Players -> BOOLEAN] /\ kept \in [Players -> BOOLEAN] /\ off \subseteq Players
    BY DEF Init
  <2> QED
    BY <1>4, <1>5, <1>6, <1>7, <2>1 DEF Init, TypeOK, AnyId
<1>9. SentOK
  <2>1. \A p \in Players : ~Reading(p)
    BY DEF Init, Reading
  <2>2. log \in [Players -> [Players -> Seq(Message)]]
    BY EmptySeq DEF Init
  <2> QED
    BY <2>1, <2>2 DEF Init, SentOK
<1> QED
  BY <1>8, <1>9 DEF Typed

\* Nothing but a player's state, of the actions that write no list and send nothing.
LEMMA PlainSteps ==
  ASSUME Typed, NEW p \in Players, NEW h \in Players,
         \/ AskToJoin(p, h) \/ GiveUp(p) \/ StartLeaving(p) \/ TestAgain(p) \/ AskToLeave(p)
         \/ CloseSession(p) \/ ReadCount(p) \/ HearLeave(p)
         \/ HearNewHost(p, h)
  PROVE  TypeOK'
<1> USE DEF Typed, hostVars, selfVars, readVars, flagVars, history, told
<1>1. ASSUME AskToJoin(p, h) PROVE TypeOK'
  BY <1>1 DEF AskToJoin, TypeOK
<1>2. ASSUME GiveUp(p) PROVE TypeOK'
  BY <1>2 DEF GiveUp, TypeOK
<1>3. ASSUME StartLeaving(p) \/ TestAgain(p) \/ AskToLeave(p) PROVE TypeOK'
  <2>1. CASE StartLeaving(p)
    BY <2>1 DEF StartLeaving, TypeOK
  <2>2. CASE TestAgain(p)
    BY <2>2 DEF TestAgain, TypeOK
  <2>3. CASE AskToLeave(p)
    BY <2>3 DEF AskToLeave, TypeOK
  <2> QED
    BY <1>3, <2>1, <2>2, <2>3
<1>4. ASSUME CloseSession(p) PROVE TypeOK'
  BY <1>4 DEF CloseSession, Closed, TypeOK
<1>5. ASSUME ReadCount(p) PROVE TypeOK'
  BY <1>5 DEF ReadCount, TypeOK
<1>6. ASSUME HearLeave(p) PROVE TypeOK'
  BY <1>6 DEF HearLeave, TypeOK
<1>7. ASSUME HearNewHost(p, h) PROVE TypeOK'
  <2>1. PICK i \in DOMAIN log[h][p] : next' = [next EXCEPT ![p] = i - 1]
    BY <1>7 DEF HearNewHost
  <2>2. log[h][p] \in Seq(Message)
    BY DEF SentOK
  <2>3. i - 1 \in Nat
    BY <2>2, LenProperties
  <2> QED
    BY <1>7, <2>1, <2>3 DEF HearNewHost, TypeOK
<1> QED
  BY <1>1, <1>2, <1>3, <1>4, <1>5, <1>6, <1>7

LEMMA SessionSteps ==
  ASSUME Typed, NEW p \in Players, NEW h \in Players,
         \/ AnswerAgain(h, p) \/ Admit(h, p) \/ Destroy(h, p) \/ EndSession(p)
         \/ \E s \in Slots : Kick(p, s)
         \/ \E t \in Threads : Schedule(p, t)
         \/ HandOver(p) \/ Proclaim(p)
  PROVE  TypeOK'
<1> USE DEF Typed, hostVars, selfVars, readVars, flagVars, history, told
<1>0. /\ list \in [Players -> [Slots -> Line]] /\ count \in [Players -> Int]
      /\ pend \in [Players -> [Threads -> AnyId]] /\ me \in [Players -> AnyId]
  BY DEF TypeOK, AnyId
<1>1. ASSUME AnswerAgain(h, p) PROVE TypeOK'
  <2>1. net \subseteq net'
    BY <1>1 DEF AnswerAgain
  <2> QED
    BY <1>1, <2>1 DEF AnswerAgain, TypeOK
<1>2. ASSUME Admit(h, p) PROVE TypeOK'
  <2>1. PICK s \in Slots \ Joined(list[h]) :
          /\ list' = [list EXCEPT ![h] = [list[h] EXCEPT ![s] =
                        [n |-> last[h] + 1, who |-> p, host |-> FALSE]]]
          /\ given' = given \cup {[slot |-> s, n |-> last[h] + 1, who |-> p]}
          /\ last' = [last EXCEPT ![h] = last[h] + 1]
          /\ count' = [count EXCEPT ![h] = count[h] + 1]
          /\ net \subseteq net'
    BY <1>2 DEF Admit, NextNumber
  <2>2. last[h] + 1 \in 0..MaxId /\ last[h] + 1 \in -1..MaxId
    <3>1. last[h] \in 0..MaxId /\ last[h] < MaxId
      BY <1>2 DEF Admit, TypeOK
    <3> QED
      BY <3>1, NumbersAssumption
  <2>3. list' \in [Players -> [Slots -> Line]]
    <3>1. [list[h] EXCEPT ![s] = [n |-> last[h] + 1, who |-> p, host |-> FALSE]]
            \in [Slots -> Line]
      BY <1>0, <2>2, ListType
    <3> QED
      BY <1>0, <2>1, <3>1
  <2>4. /\ last' \in [Players -> 0..MaxId] /\ count' \in [Players -> Int]
        /\ given' \subseteq [slot : Slots, n : 0..MaxId, who : Players]
    BY <2>1, <2>2 DEF TypeOK
  <2> QED
    BY <1>2, <2>1, <2>3, <2>4 DEF Admit, TypeOK
<1>3. ASSUME NEW g \in Players, NEW t \in Threads, NEW s \in Slots, Remove(g, t, s),
             IdAt(list[g], s) \in AnyId
      PROVE  /\ list' \in [Players -> [Slots -> Line]]
             /\ count' \in [Players -> Int]
             /\ pend' \in [Players -> [Threads -> Id \cup {None}]]
  <2>1. [list[g] EXCEPT ![s] = Free] \in [Slots -> Line]
    BY <1>0, ListType
  <2> QED
    BY <1>0, <1>3, <2>1 DEF Remove, AnyId
<1>4. ASSUME Destroy(h, p) PROVE TypeOK'
  <2>1. CASE Has(list[h], me[p]) /\ list[h][me[p].slot].who = p
    <3>1. me[p].slot \in Slots /\ IdAt(list[h], me[p].slot) \in AnyId
      BY <1>0, <2>1, IdParts, LineType
    <3>2. Remove(h, "read", me[p].slot) /\ net' = net
      BY <1>4, <2>1 DEF Destroy
    <3>3. /\ list' \in [Players -> [Slots -> Line]]
          /\ count' \in [Players -> Int]
          /\ pend' \in [Players -> [Threads -> Id \cup {None}]]
      BY <1>3, <3>1, <3>2 DEF Threads
    <3> QED
      BY <1>4, <3>2, <3>3 DEF Destroy, TypeOK
  <2>2. CASE ~(Has(list[h], me[p]) /\ list[h][me[p].slot].who = p)
    <3>1. net \subseteq net' /\ UNCHANGED <<list, count, pend>>
      BY <1>4, <2>2 DEF Destroy
    <3> QED
      BY <1>4, <3>1 DEF Destroy, TypeOK
  <2> QED
    BY <2>1, <2>2
<1>5. ASSUME EndSession(p) PROVE TypeOK'
  <2>1. Empty \in [Slots -> Line]
    BY NumbersAssumption DEF Empty, Free, Line
  <2> QED
    BY <1>5, <2>1 DEF EndSession, TypeOK
<1>6. ASSUME NEW s \in Slots, Kick(p, s) PROVE TypeOK'
  <2>1. IdAt(list[p], s) \in AnyId
    BY <1>0, <1>6, IdParts, LineType DEF Kick
  <2>2. /\ list' \in [Players -> [Slots -> Line]]
        /\ count' \in [Players -> Int]
        /\ pend' \in [Players -> [Threads -> Id \cup {None}]]
    BY <1>3, <1>6, <2>1 DEF Kick, Threads
  <2> QED
    BY <1>6, <2>2 DEF Kick, TypeOK
<1>7. ASSUME NEW t \in Threads, Schedule(p, t) PROVE TypeOK'
  <2>1. net \subseteq net' /\ pend' = [pend EXCEPT ![p][t] = None]
    BY <1>7 DEF Schedule
  <2> QED
    BY <1>7, <2>1 DEF Schedule, TypeOK
<1>8. ASSUME HandOver(p) PROVE TypeOK'
  <2>1. net \subseteq net'
    <3>1. CASE Heirs(p) = {}
      BY SMTT(40), <1>8, <3>1 DEF HandOver
    <3>2. CASE Heirs(p) # {}
      BY ZenonT(60), <1>8, <3>2 DEF HandOver
    <3> QED
      BY <3>1, <3>2
  <2>2. /\ count' = [count EXCEPT ![p] = tmp[p] - 1]
        /\ st' = [st EXCEPT ![p] = "handing"]
        /\ UNCHANGED <<list, closed, last, pend, half, tmp, selfVars, readVars, flagVars, given>>
    BY ZenonT(60), <1>8 DEF HandOver
  <2> QED
    BY <2>1, <2>2 DEF TypeOK
<1>9. ASSUME Proclaim(p) PROVE TypeOK'
  <2>1. PICK m \in half[p] :
          /\ half' = [half EXCEPT ![p] = {}]
          /\ closed' = [closed EXCEPT ![p] = FALSE]
          /\ count' = [count EXCEPT ![p] = m.count]
          /\ last' = [last EXCEPT ![p] = m.last]
          /\ migrates' = [migrates EXCEPT ![p] = m.flag]
          /\ UNCHANGED <<st, list, pend, tmp, selfVars, readVars, kept, off, net, history, told>>
    BY <1>9 DEF Proclaim
  <2>2. m.count \in Int /\ m.last \in 0..MaxId /\ m.flag \in BOOLEAN
    BY DEF SentOK, Migrates
  <2> QED
    BY <2>1, <2>2 DEF TypeOK
<1> QED
  BY <1>1, <1>2, <1>4, <1>5, <1>6, <1>7, <1>8, <1>9

LEMMA ClientSteps ==
  ASSUME Typed, NEW p \in Players,
         \/ \E m \in net : Connect(p, m) \/ ReadBye(p, m) \/ TakeOver(p, m)
         \/ Handle(p)
  PROVE  TypeOK'
<1> USE DEF Typed, hostVars, selfVars, readVars, flagVars, history, told
<1>0. /\ list \in [Players -> [Slots -> Line]] /\ list[p] \in [Slots -> Line]
      /\ count \in [Players -> Int] /\ net \subseteq Datagram
      /\ me \in [Players -> AnyId]
  BY DEF TypeOK, SentOK, AnyId
<1>1. ASSUME NEW m \in net, Connect(p, m) PROVE TypeOK'
  <2>1. m.id \in Id /\ m.from \in Players /\ m.count \in Int
    BY <1>0, <1>1 DEF Connect, Datagram, Migrates
  <2>2. [list[p] EXCEPT ![m.id.slot] = [n |-> m.id.n, who |-> p, host |-> FALSE]]
          \in [Slots -> Line]
    BY <1>0, <2>1, IdParts, ListType
  <2>3. list' \in [Players -> [Slots -> Line]] /\ count' \in [Players -> Int]
    BY <1>0, <1>1, <2>1, <2>2 DEF Connect
  <2> QED
    BY <1>1, <2>1, <2>3 DEF Connect, TypeOK
<1>2. ASSUME NEW m \in net, ReadBye(p, m) PROVE TypeOK'
  <2>1. m.id \in AnyId
    BY <1>0, <1>2 DEF ReadBye, Datagram, Migrates
  <2>2. Without(list[p], m.id) \in [Slots -> Line]
    BY <1>0, <2>1, IdParts, ListType DEF Without
  <2>3. list' \in [Players -> [Slots -> Line]]
    BY <1>0, <1>2, <2>2 DEF ReadBye
  <2> QED
    BY <1>2, <2>3 DEF ReadBye, TypeOK
<1>3. ASSUME NEW m \in net, TakeOver(p, m) PROVE TypeOK'
  <2>1. Ousted(p, m) \in [Slots -> Line]
    <3>1. \A s \in Slots, b \in BOOLEAN : [list[p][s] EXCEPT !.host = b] \in Line
      BY <1>0, HostFlagType
    <3>2. Free \in Line
      BY NumbersAssumption DEF Free, Line
    <3> QED
      BY <3>1, <3>2 DEF Ousted
  <2>2. list' \in [Players -> [Slots -> Line]]
    BY <1>0, <1>3, <2>1 DEF TakeOver
  <2>3. half' = [half EXCEPT ![p] = {m}] /\ host' = [host EXCEPT ![p] = TRUE] /\ net' = net
    BY <1>3 DEF TakeOver
  <2>4. \A q \in Players : half'[q] \subseteq net
    BY <2>3 DEF TypeOK, SentOK
  <2> QED
    BY <1>3, <2>2, <2>3, <2>4 DEF TakeOver, TypeOK
<1>4. ASSUME Handle(p) PROVE TypeOK'
  <2>1. PICK x : x = log[from[p]][p][next[p] + 1]
    OBVIOUS
  <2>2. x \in Message
    <3>1. from[p] \in Players /\ next[p] \in Nat /\ next[p] < Len(log[from[p]][p])
      BY <1>4 DEF Handle, SentOK, TypeOK
    <3>2. log[from[p]][p] \in Seq(Message)
      BY <3>1 DEF SentOK
    <3>3. PICK l \in Nat : l = Len(log[from[p]][p])
      BY <3>2, LenProperties
    <3>4. next[p] + 1 \in 1..l
      BY <3>1, <3>3
    <3> QED
      BY <2>1, <3>2, <3>3, <3>4, ElementOfSeq
  <2>3. HandleCreate(p, x) \/ HandleList(p, x) \/ HandleLeave(p, x) \/ HandleNewHost(p, x)
    BY <1>4, <2>1 DEF Handle
  <2>4. next[p] + 1 \in Nat
    BY DEF TypeOK
  <2>5. CASE HandleCreate(p, x)
    <3>1. x.id \in AnyId /\ x.who \in Players /\ x.count \in Int
      BY <2>2, <2>5 DEF HandleCreate, Takes, Message
    <3>2. [list[p] EXCEPT ![x.id.slot] = [n |-> x.id.n, who |-> x.who, host |-> FALSE]]
            \in [Slots -> Line]
      BY <1>0, <3>1, IdParts, ListType
    <3>3. list' \in [Players -> [Slots -> Line]] /\ count' \in [Players -> Int]
      BY <1>0, <2>5, <3>1, <3>2 DEF HandleCreate
    <3> QED
      BY <2>4, <2>5, <3>3 DEF HandleCreate, Takes, TypeOK
  <2>6. CASE HandleList(p, x)
    <3>1. x.part \in Parts /\ x.count \in Int
      BY <2>2, <2>6 DEF HandleList, Takes, Message
    <3>2. \A s \in DOMAIN x.part : x.part[s] \in Line
      BY <3>1 DEF Parts
    <3>3. [s \in Slots |-> IF s \in DOMAIN x.part THEN x.part[s] ELSE list[p][s]]
            \in [Slots -> Line]
      BY <1>0, <3>2
    <3>4. list' \in [Players -> [Slots -> Line]] /\ count' \in [Players -> Int]
      BY <1>0, <2>6, <3>1, <3>3 DEF HandleList
    <3> QED
      BY <2>4, <2>6, <3>4 DEF HandleList, Takes, TypeOK
  <2>7. CASE HandleLeave(p, x)
    <3>1. x.id \in AnyId /\ x.count \in Int
      BY <2>2, <2>7 DEF HandleLeave, Takes, Message
    <3>2. Without(list[p], x.id) \in [Slots -> Line]
      BY <1>0, <3>1, IdParts, ListType DEF Without
    <3>3. /\ list' \in [Players -> [Slots -> Line]] /\ count' \in [Players -> Int]
          /\ again' \in [Players -> Id \cup {None}]
      <4>1. CASE Has(list[p], x.id)
        <5>1. /\ list' = [list EXCEPT ![p] = Without(list[p], x.id)]
              /\ count' = [count EXCEPT ![p] = x.count]
              /\ again' = [again EXCEPT ![p] = x.id]
          BY <2>7, <4>1 DEF HandleLeave
        <5>2. again \in [Players -> Id \cup {None}] /\ x.id \in Id \cup {None}
          BY <3>1 DEF TypeOK, AnyId
        <5> QED
          BY <1>0, <3>1, <3>2, <5>1, <5>2
      <4>2. CASE ~Has(list[p], x.id)
        <5>1. UNCHANGED <<list, count, again>>
          BY <2>7, <4>2 DEF HandleLeave
        <5> QED
          BY <1>0, <5>1 DEF TypeOK
      <4> QED
        BY <4>1, <4>2
    <3>4. /\ next' = [next EXCEPT ![p] = next[p] + 1]
          /\ off' \subseteq off \cup {p}
          /\ UNCHANGED <<st, closed, last, pend, half, tmp, log, selfVars, from, taken,
                         migrates, kept, net, history>>
      BY <2>7 DEF HandleLeave, Takes
    <3> QED
      BY <2>4, <3>3, <3>4 DEF TypeOK
  <2>8. CASE HandleNewHost(p, x)
    <3>1. x.who \in Players /\ x.count \in Int
      BY <2>2, <2>8 DEF HandleNewHost, Takes, Message
    <3>2. \A s \in Slots, b \in BOOLEAN : [list[p][s] EXCEPT !.host = b] \in Line
      BY <1>0, HostFlagType
    <3>3. [s \in Slots |-> [list[p][s] EXCEPT !.host = IdAt(list[p], s) = x.id]]
            \in [Slots -> Line]
      BY <3>2
    <3>4. list' \in [Players -> [Slots -> Line]]
      BY <1>0, <2>8, <3>3 DEF HandleNewHost
    <3>5. /\ count' \in [Players -> Int]
          /\ hostOf' \in [Players -> Players \cup {NoPlayer}]
      <4>1. CASE Has(list[p], x.id)
        BY <1>0, <2>8, <3>1, <4>1 DEF HandleNewHost, TypeOK
      <4>2. CASE ~Has(list[p], x.id)
        BY <1>0, <2>8, <4>2 DEF HandleNewHost, TypeOK
      <4> QED
        BY <4>1, <4>2
    <3>6. /\ next' = [next EXCEPT ![p] = next[p] + 1]
          /\ UNCHANGED <<st, closed, last, pend, half, tmp, log, me, host, asked, begged,
                         from, heard, again, taken, flagVars, net, history, told>>
      BY <2>8 DEF HandleNewHost, Takes
    <3> QED
      BY <2>4, <3>4, <3>5, <3>6 DEF TypeOK
  <2> QED
    BY <2>3, <2>5, <2>6, <2>7, <2>8
<1> QED
  BY <1>1, <1>2, <1>3, <1>4

-----------------------------------------------------------------------------
(* What is sent *)

\* The log and the network grow by messages of their kinds.
LEMMA SentTypes ==
  ASSUME Typed, [Next]_vars
  PROVE  /\ net' \subseteq Datagram
         /\ log' \in [Players -> [Players -> Seq(Message)]]
         /\ half' \in [Players -> SUBSET Migrates]
<1> USE DEF Typed, hostVars, selfVars, readVars, flagVars, history, told
<1>0. /\ net \subseteq Datagram /\ log \in [Players -> [Players -> Seq(Message)]]
      /\ half \in [Players -> SUBSET Migrates]
      /\ list \in [Players -> [Slots -> Line]] /\ count \in [Players -> Int]
      /\ me \in [Players -> AnyId] /\ pend \in [Players -> [Threads -> AnyId]]
      /\ tmp \in [Players -> Int]
  BY DEF SentOK, TypeOK, AnyId
<1>a. ASSUME NEW h \in Players, NEW l, NEW msg \in Message,
             log' = [log EXCEPT ![h] = Scheduled(h, l, msg)]
      PROVE  log' \in [Players -> [Players -> Seq(Message)]]
  <2>1. Scheduled(h, l, msg) \in [Players -> Seq(Message)]
    BY ScheduledType
  <2> QED
    BY <1>0, <1>a, <2>1
<1>1. ASSUME NEW p \in Players, NEW h \in Players,
             AskToJoin(p, h) \/ GiveUp(p) \/ StartLeaving(p) \/ TestAgain(p) \/ AskToLeave(p)
             \/ EndSession(p)
               \/ CloseSession(p) \/ ReadCount(p) \/ HearLeave(p) \/ HearNewHost(p, h)
      PROVE  UNCHANGED <<net, log, half>>
  BY <1>1 DEF AskToJoin, GiveUp, StartLeaving, TestAgain, AskToLeave, EndSession, CloseSession,
        ReadCount, HearLeave,
              HearNewHost
<1>2. ASSUME NEW p \in Players, NEW h \in Players, AnswerAgain(h, p)
      PROVE  net' \subseteq Datagram /\ UNCHANGED <<log, half>>
  <2>1. PICK s \in Listed(h, p) : net' = net \cup {Added(h, p, s, list[h], count[h])}
    BY <1>2 DEF AnswerAgain
  <2>2. s \in Slots /\ s \in Joined(list[h])
    BY DEF Listed, Joined
  <2>3. IdAt(list[h], s) \in Id /\ count[h] \in Int
    BY <1>0, <2>2, LineType
  <2>4. Added(h, p, s, list[h], count[h]) \in Datagram
    BY <2>3 DEF Added, Datagram
  <2> QED
    BY <1>0, <1>2, <2>1, <2>4 DEF AnswerAgain
<1>3. ASSUME NEW p \in Players, NEW h \in Players, Admit(h, p)
      PROVE  /\ net' \subseteq Datagram
             /\ log' \in [Players -> [Players -> Seq(Message)]]
             /\ half' = half
  <2>0. PICK n : n = last[h] + 1
    OBVIOUS
  <2>1. PICK s \in Slots \ Joined(list[h]) :
          LET l == [list[h] EXCEPT ![s] = [n |-> n, who |-> p, host |-> FALSE]]
              c == count[h] + 1
              create == [ty |-> "Create", id |-> IdAt(l, s), who |-> p, count |-> c]
          IN /\ log' = [log EXCEPT ![h] =
                  [Scheduled(h, list[h], create) EXCEPT ![p] = ListPackets(l, c)]]
             /\ net' = net \cup {Added(h, p, s, l, c)}
    BY <1>3, <2>0 DEF Admit, NextNumber
  <2>l. PICK l : l = [list[h] EXCEPT ![s] = [n |-> n, who |-> p, host |-> FALSE]]
    OBVIOUS
  <2>c. PICK c : c = count[h] + 1
    OBVIOUS
  <2>d. PICK create : create = [ty |-> "Create", id |-> IdAt(l, s), who |-> p, count |-> c]
    OBVIOUS
  <2>e. /\ log' = [log EXCEPT ![h] =
             [Scheduled(h, list[h], create) EXCEPT ![p] = ListPackets(l, c)]]
        /\ net' = net \cup {Added(h, p, s, l, c)}
    BY <2>1, <2>l, <2>c, <2>d
  <2>2. n \in 0..MaxId /\ n \in -1..MaxId /\ n # -1
    <3>1. last[h] \in 0..MaxId /\ last[h] < MaxId
      BY <1>3 DEF Admit, TypeOK
    <3> QED
      BY <2>0, <3>1, NumbersAssumption
  <2>3. l \in [Slots -> Line] /\ l[s].n = n /\ c \in Int
    <3>1. list[h] \in [Slots -> Line] /\ count[h] \in Int
      BY <1>0
    <3>2. l \in [Slots -> Line]
      BY <2>2, <2>l, <3>1, ListType
    <3>3. l[s].n = n
      BY <2>l, <3>1
    <3> QED
      BY <2>c, <3>1, <3>2, <3>3
  <2>4. IdAt(l, s) \in Id /\ IdAt(l, s) \in AnyId
    BY <2>2, <2>3, IdParts DEF IdAt, Id
  <2>5. create \in Message /\ Added(h, p, s, l, c) \in Datagram
    BY <2>d, <2>3, <2>4 DEF Message, Added, Datagram
  <2>6. Scheduled(h, list[h], create) \in [Players -> Seq(Message)]
    BY <2>5, ScheduledType
  <2>7. ListPackets(l, c) \in Seq(Message)
    BY <2>3, PacketsType
  <2> QED
    <3>1. half' = half
      BY <1>3 DEF Admit
    <3>2. [Scheduled(h, list[h], create) EXCEPT ![p] = ListPackets(l, c)]
            \in [Players -> Seq(Message)]
      BY <2>6, <2>7
    <3>3. log' \in [Players -> [Players -> Seq(Message)]]
      BY <1>0, <2>e, <3>2
    <3> QED
      BY <1>0, <2>5, <2>e, <3>1, <3>3
<1>4. ASSUME NEW p \in Players, NEW h \in Players, Destroy(h, p)
      PROVE  net' \subseteq Datagram /\ UNCHANGED <<log, half>>
  <2>1. Bye(p, me[p]) \in Datagram
    BY <1>0 DEF Bye, Datagram
  <2> QED
    BY <1>0, <1>4, <2>1 DEF Destroy
<1>5. ASSUME NEW p \in Players, NEW s \in Slots, Kick(p, s)
      PROVE  UNCHANGED <<net, log, half>>
  BY <1>5 DEF Kick
<1>6. ASSUME NEW p \in Players, NEW t \in Threads, Schedule(p, t)
      PROVE  /\ net' \subseteq Datagram
             /\ log' \in [Players -> [Players -> Seq(Message)]]
             /\ half' = half
  <2>1. PICK id, bye : /\ id = pend[p][t]
                       /\ bye = [ty |-> "Leave", id |-> id, count |-> count[p]]
    OBVIOUS
  <2>2. id \in AnyId /\ bye \in Message
    BY <1>0, <2>1 DEF Message
  <2>3. log' = [log EXCEPT ![p] = Scheduled(p, list[p], bye)] /\ half' = half
    BY <1>6, <2>1 DEF Schedule
  <2>4. net' \subseteq net \cup {Bye(q, id) : q \in Players}
    BY <1>6, <2>1 DEF Schedule
  <2>5. \A q \in Players : Bye(q, id) \in Datagram
    BY <2>2 DEF Bye, Datagram
  <2>6. net' \subseteq Datagram
    BY <1>0, <2>4, <2>5
  <2>7. log' \in [Players -> [Players -> Seq(Message)]]
    BY <1>a, <2>2, <2>3
  <2> QED
    BY <2>3, <2>6, <2>7
<1>7. ASSUME NEW p \in Players, HandOver(p)
      PROVE  /\ net' \subseteq Datagram
             /\ log' \in [Players -> [Players -> Seq(Message)]]
             /\ half' = half
  <2>1. PICK c, bye, l : /\ c = tmp[p] - 1
                         /\ bye = [ty |-> "Leave", id |-> me[p], count |-> c]
                         /\ l = Scheduled(p, list[p], bye)
    OBVIOUS
  <2>2. c \in Int /\ bye \in Message
    BY <1>0, <2>1 DEF Message
  <2>3. l \in [Players -> Seq(Message)]
    BY <2>1, <2>2, ScheduledType
  <2>4. CASE Heirs(p) = {}
    <3>1. log' = [log EXCEPT ![p] = l] /\ net' = net /\ half' = half
      BY <1>7, <2>1, <2>4 DEF HandOver
    <3> QED
      BY <1>0, <2>3, <3>1
  <2>5. CASE Heirs(p) # {}
    <3>1. PICK s : s = Heir(p)
      OBVIOUS
    <3>2. s \in Joined(list[p]) /\ s \in Slots
      <4>1. Heirs(p) \in SUBSET Nat /\ Heirs(p) \subseteq Joined(list[p])
        BY JoinedSlots, SlotNumbers DEF Heirs
      <4>2. s \in Heirs(p)
        BY <2>5, <3>1, <4>1, LeastElement DEF Heir
      <4> QED
        BY <4>1, <4>2, JoinedSlots
    <3>3. PICK q : q = list[p][s].who
      OBVIOUS
    <3>4. PICK m : m = [ty |-> "Migrate", to |-> q, from |-> p, id |-> IdAt(list[p], s),
                        old |-> me[p], count |-> c, last |-> LastSent(p), flag |-> kept[p]]
      OBVIOUS
    <3>5. /\ log' = [log EXCEPT ![p] = [l EXCEPT ![q] = Append(l[q], [ty |-> "Migrate"])]]
          /\ net' = net \cup {m} /\ half' = half
      BY <1>7, <2>1, <2>5, <3>1, <3>3, <3>4 DEF HandOver
    <3>6. IdAt(list[p], s) \in AnyId /\ q \in Players \cup {NoPlayer} /\ LastSent(p) \in 0..MaxId
      BY <1>0, <3>2, <3>3, LineType, IdParts DEF LastSent, TypeOK
    <3>x. kept[p] \in BOOLEAN
      BY DEF TypeOK
    <3>7. m \in Datagram
      BY <1>0, <2>2, <3>4, <3>6, <3>x DEF Datagram, Migrates
    <3>8. [l EXCEPT ![q] = Append(l[q], [ty |-> "Migrate"])] \in [Players -> Seq(Message)]
      <4>1. [ty |-> "Migrate"] \in Message
        BY DEF Message
      <4>2. \A r \in Players : Append(l[r], [ty |-> "Migrate"]) \in Seq(Message)
        BY <2>3, <4>1, AppendProperties
      <4> QED
        BY <2>3, <4>2
    <3> QED
      BY <1>0, <3>5, <3>7, <3>8
  <2> QED
    BY <2>4, <2>5
<1>8. ASSUME NEW p \in Players, Proclaim(p)
      PROVE  /\ net' = net
             /\ log' \in [Players -> [Players -> Seq(Message)]]
             /\ half' \in [Players -> SUBSET Migrates]
  <2>1. PICK m \in half[p] :
          /\ half' = [half EXCEPT ![p] = {}] /\ net' = net
          /\ log' = [log EXCEPT ![p] = Scheduled(p, list[p],
                      [ty |-> "NewHost", id |-> me[p], who |-> p, count |-> m.count])]
    BY <1>8 DEF Proclaim
  <2>e. PICK e : e = [ty |-> "NewHost", id |-> me[p], who |-> p, count |-> m.count]
    OBVIOUS
  <2>2. m.count \in Int
    BY <1>0 DEF Migrates
  <2>3. e \in Message
    BY <1>0, <2>e, <2>2 DEF Message
  <2> QED
    BY <1>0, <1>a, <2>1, <2>3, <2>e
<1>9. ASSUME NEW p \in Players, NEW m \in net, Connect(p, m) \/ ReadBye(p, m)
      PROVE  UNCHANGED <<net, log, half>>
  BY <1>9 DEF Connect, ReadBye
<1>10. ASSUME NEW p \in Players, NEW m \in net, TakeOver(p, m)
       PROVE  UNCHANGED <<net, log>> /\ half' \in [Players -> SUBSET Migrates]
  <2>1. m \in Migrates
    BY ZenonT(60), <1>0, <1>10 DEF TakeOver, Datagram
  <2>2. half' = [half EXCEPT ![p] = {m}] /\ UNCHANGED <<net, log>>
    BY <1>10 DEF TakeOver
  <2> QED
    BY <1>0, <2>1, <2>2
<1>11. ASSUME NEW p \in Players, Handle(p)
       PROVE  UNCHANGED <<net, log, half>>
  BY ZenonT(60), <1>11 DEF Handle, HandleCreate, HandleList, HandleLeave, HandleNewHost
<1>12. ASSUME UNCHANGED vars
       PROVE  UNCHANGED <<net, log, half>>
  BY <1>12 DEF vars
<1> QED
  BY <1>0, <1>1, <1>2, <1>3, <1>4, <1>5, <1>6, <1>7, <1>8, <1>9, <1>10, <1>11, <1>12 DEF Next

\* A client reads the messages of a player.
LEMMA FromStep ==
  ASSUME Typed, [Next]_vars, NEW q \in Players, Reading(q)'
  PROVE  from'[q] \in Players
<1> USE DEF hostVars, selfVars, readVars, history, told
<1>0. /\ from \in [Players -> Players \cup {NoPlayer}] /\ host \in [Players -> BOOLEAN]
      /\ st \in [Players -> {"idle", "joining", "in", "going", "asking", "leaving",
                             "closing", "counting", "handing", "left", "over"}]
      /\ Reading(q) => from[q] \in Players
  BY SMTT(40) DEF Typed, TypeOK, SentOK
<1>1. ASSUME NEW p \in Players, NEW h \in Players,
             AskToJoin(p, h) \/ GiveUp(p) \/ StartLeaving(p) \/ TestAgain(p) \/ AskToLeave(p)
             \/ EndSession(p)
               \/ CloseSession(p) \/ ReadCount(p) \/ HandOver(p)
      PROVE  from'[q] \in Players
  <2>1. from' = from
    BY SMTT(40), <1>1 DEF AskToJoin, GiveUp, StartLeaving, TestAgain, AskToLeave, EndSession,
          CloseSession, ReadCount, HandOver
  <2>2. ASSUME ~EndSession(p) PROVE host' = host
    BY SMTT(40), <1>1, <2>2 DEF AskToJoin, GiveUp, StartLeaving, TestAgain, AskToLeave,
          CloseSession, ReadCount, HandOver
  <2>3. \E v \in {"joining", "over", "left", "going", "asking", "leaving", "closing",
                 "counting", "handing"} :
          /\ st' = [st EXCEPT ![p] = v]
          /\ v \in {"going", "asking", "leaving"} => st[p] \in {"in", "going", "asking"}
    BY <1>1 DEF AskToJoin, GiveUp, StartLeaving, TestAgain, AskToLeave, EndSession, CloseSession,
          ReadCount, HandOver
  <2>4. ASSUME EndSession(p) PROVE st'[p] = "over" /\ \A r \in Players \ {p} : host'[r] = host[r]
    BY <1>0, <2>4 DEF EndSession
  <2>5. Reading(q)
    BY <1>0, <2>2, <2>3, <2>4 DEF Reading
  <2> QED
    BY ZenonT(60), <1>0, <2>1, <2>5
<1>2. ASSUME NEW p \in Players, NEW h \in Players,
             AnswerAgain(h, p) \/ Admit(h, p) \/ Destroy(h, p)
               \/ (\E s \in Slots : Kick(p, s)) \/ (\E t \in Threads : Schedule(p, t))
               \/ Proclaim(p) \/ HearLeave(p)
      PROVE  from'[q] \in Players
  <2>1. UNCHANGED <<st, host, from>>
    BY <1>2 DEF AnswerAgain, Admit, Destroy, Kick, Schedule, Proclaim, HearLeave
  <2> QED
    BY <1>0, <2>1 DEF Reading
<1>3. ASSUME NEW p \in Players, NEW h \in Players, HearNewHost(p, h)
      PROVE  from'[q] \in Players
  <2>1. from' = [from EXCEPT ![p] = h] /\ UNCHANGED <<st, host>>
    BY <1>3 DEF HearNewHost
  <2> QED
    BY <1>0, <2>1 DEF Reading
<1>4. ASSUME NEW p \in Players, NEW m \in net, Connect(p, m)
      PROVE  from'[q] \in Players
  <2>1. /\ from' = [from EXCEPT ![p] = m.from] /\ st' = [st EXCEPT ![p] = "in"] /\ host' = host
    BY <1>4 DEF Connect
  <2>2. m.from \in Players
    BY <1>4 DEF Connect, Typed, SentOK, Datagram, Migrates
  <2> QED
    BY <1>0, <2>1, <2>2 DEF Reading
<1>5. ASSUME NEW p \in Players, NEW m \in net, ReadBye(p, m)
      PROVE  from'[q] \in Players
  <2>1. from' = from /\ st' = [st EXCEPT ![p] = "left"] /\ host' = host
    BY <1>5 DEF ReadBye
  <2> QED
    BY <1>0, <2>1 DEF Reading
<1>6. ASSUME NEW p \in Players, NEW m \in net, TakeOver(p, m)
      PROVE  from'[q] \in Players
  <2>1. from' = from /\ st' = st /\ host' = [host EXCEPT ![p] = TRUE]
    BY <1>6 DEF TakeOver
  <2> QED
    BY <1>0, <2>1 DEF Reading
<1>7. ASSUME NEW p \in Players, Handle(p)
      PROVE  from'[q] \in Players
  <2>1. UNCHANGED <<from, st, host>>
    BY ZenonT(60), <1>7 DEF Handle, HandleCreate, HandleList, HandleLeave, HandleNewHost
  <2> QED
    BY SMTT(40), <1>0, <2>1 DEF Reading
<1>8. ASSUME UNCHANGED vars
      PROVE  from'[q] \in Players
  BY <1>0, <1>8 DEF vars, Reading
<1> QED
  BY <1>1, <1>2, <1>3, <1>4, <1>5, <1>6, <1>7, <1>8 DEF Next

LEMMA TypedStep ==
  ASSUME Typed, [Next]_vars
  PROVE  Typed'
<1>1. TypeOK'
  <2>1. CASE UNCHANGED vars
    BY <2>1 DEF vars, hostVars, selfVars, readVars, flagVars, history, told, Typed, TypeOK
  <2> QED
    BY <2>1, PlainSteps, SessionSteps, ClientSteps DEF Next
<1>2. SentOK'
  BY SentTypes, FromStep DEF SentOK
<1> QED
  BY <1>1, <1>2 DEF Typed

\* The state keeps its types: ids, lists and numbers stay in their bounds, whatever messages
\* are lost, late or repeated, and every message is of a kind that its reader handles.
THEOREM Types == Spec => []TypeOK
<1>1. Init => Typed
  BY TypedInit
<1>2. Typed /\ [Next]_vars => Typed'
  BY TypedStep
<1>3. Typed => TypeOK
  BY DEF Typed
<1> QED
  BY <1>1, <1>2, <1>3, PTL DEF Spec

-----------------------------------------------------------------------------
(* One host acts *)

\* A host acts that admits players, or that closed its session and has not yet handed it
\* over.
Present(p) == Alive(p) /\ st[p] # "left"
Acts(p) ==
  /\ host[p] /\ Present(p)
  /\ closed[p] => st[p] \in {"closing", "counting"}

Handovers == {m \in net : m.ty = "Migrate"}

\* The session was handed over, to one that may still take it.
Pending(m) == m.to \in Players /\ ~host[m.to] /\ st[m.to] # "over"

\* The right to admit players is with one host, or under way in one MigrateHost, or lost.
OneRight ==
  /\ \A p, q \in Players : Acts(p) /\ Acts(q) => p = q
  /\ \A p \in Players, m \in Handovers : Acts(p) => ~Pending(m)
  /\ \A m, n \in Handovers : Pending(m) /\ Pending(n) => m = n

\* Whoever has the right knows the last number that was given out.
UpTo(n) == \A x \in given : x.n <= n
KnowsLast ==
  /\ \A p \in Players : Acts(p) /\ half[p] = {} => UpTo(last[p])
  /\ \A p \in Players : \A m \in half[p] : Acts(p) => UpTo(m.last)
  /\ \A m \in Handovers : Pending(m) => UpTo(m.last)

\* Where a host is in its calls.
HostStages ==
  \A p \in Players :
    /\ host[p] => st[p] \notin {"idle", "joining", "over"}
    /\ half[p] # {} => host[p]

\* A host that is leaving has closed the session, and stays that way.
ClosedStages ==
  \A p \in Players :
    /\ closed[p] => st[p] \in {"closing", "counting", "handing", "left", "over"}
    /\ st[p] \in {"closing", "counting", "handing"} => closed[p] /\ half[p] = {} /\ host[p]

Inv ==
  /\ Typed /\ HostStages
  /\ hasty = {} => ClosedStages /\ OneRight /\ KnowsLast /\ IdsUnique

LEMMA ControlTypes ==
  ASSUME Typed
  PROVE  /\ st \in [Players -> {"idle", "joining", "in", "going", "asking", "leaving",
                                "closing", "counting", "handing", "left", "over"}]
         /\ host \in [Players -> BOOLEAN] /\ closed \in [Players -> BOOLEAN]
         /\ half \in [Players -> SUBSET Migrates] /\ last \in [Players -> 0..MaxId]
BY DEF Typed, TypeOK, SentOK

\* The steps of the control of one player, by what they write of it.
LEMMA QuietSteps ==
  ASSUME NEW p \in Players, NEW h \in Players,
         \/ AnswerAgain(h, p) \/ Destroy(h, p) \/ HearNewHost(p, h) \/ HearLeave(p)
         \/ \E s \in Slots : Kick(p, s)
         \/ \E t \in Threads : Schedule(p, t)
         \/ Handle(p)
         \/ UNCHANGED vars
  PROVE  UNCHANGED <<st, host, closed, half, last, given, hasty, Handovers>>
<1> USE DEF hostVars, selfVars, readVars, history, told
<1>1. ASSUME AnswerAgain(h, p)
      PROVE  UNCHANGED <<st, host, closed, half, last, given, hasty, Handovers>>
  <2>1. PICK s \in Slots : net' = net \cup {Added(h, p, s, list[h], count[h])}
    BY <1>1 DEF AnswerAgain, Listed, Joined
  <2>2. Added(h, p, s, list[h], count[h]).ty # "Migrate"
    BY DEF Added
  <2> QED
    BY <1>1, <2>1, <2>2 DEF AnswerAgain, Handovers
<1>2. ASSUME Destroy(h, p)
      PROVE  UNCHANGED <<st, host, closed, half, last, given, hasty, Handovers>>
  <2>1. net' = net \/ net' = net \cup {Bye(p, me[p])}
    BY <1>2 DEF Destroy
  <2>2. Bye(p, me[p]).ty # "Migrate"
    BY DEF Bye
  <2>3. Handovers' = Handovers
    BY <2>1, <2>2 DEF Handovers
  <2> QED
    BY <1>2, <2>3 DEF Destroy
<1>3. ASSUME NEW t \in Threads, Schedule(p, t)
      PROVE  UNCHANGED <<st, host, closed, half, last, given, hasty, Handovers>>
  <2>1. net' = net \/ net' = net \cup {Bye(q, pend[p][t]) :
                          q \in {r \in Players : begged[r] = p /\ me[r] = pend[p][t]}}
    BY <1>3 DEF Schedule
  <2>2. \A q \in Players : Bye(q, pend[p][t]).ty # "Migrate"
    BY DEF Bye
  <2>3. Handovers' = Handovers
    BY SMTT(40), <2>1, <2>2 DEF Handovers
  <2> QED
    BY <1>3, <2>3 DEF Schedule
<1>4. ASSUME \/ HearNewHost(p, h) \/ HearLeave(p) \/ (\E s \in Slots : Kick(p, s))
             \/ Handle(p) \/ UNCHANGED vars
      PROVE  UNCHANGED <<st, host, closed, half, last, given, hasty, Handovers>>
  BY ZenonT(60), <1>4 DEF HearNewHost, HearLeave, Kick, Handle, HandleCreate, HandleList, HandleLeave,
              HandleNewHost, vars, Handovers
<1> QED
  BY <1>1, <1>2, <1>3, <1>4

\* What a step writes of the stage of p, and nothing else but host and closed.
Moves(p, v) ==
  /\ st' = [st EXCEPT ![p] = v]
  /\ UNCHANGED <<half, last, given, Handovers>>

LEMMA MovingSteps ==
  ASSUME NEW p \in Players
  PROVE  /\ \A h \in Players : AskToJoin(p, h) =>
              st[p] = "idle" /\ Moves(p, "joining") /\ UNCHANGED <<host, closed, hasty>>
         /\ GiveUp(p) =>
              st[p] = "joining" /\ Moves(p, "over") /\ UNCHANGED <<host, closed, hasty>>
         /\ StartLeaving(p) =>
              /\ st[p] = "in" /\ ~host[p]
              /\ Moves(p, "going") /\ UNCHANGED <<host, closed, hasty>>
         /\ TestAgain(p) =>
              /\ st[p] = "going" /\ UNCHANGED <<host, closed>> /\ hasty \subseteq hasty'
              /\ Moves(p, "asking") \/ (Moves(p, "closing") /\ host[p] /\ hasty' # {})
         /\ AskToLeave(p) =>
              /\ Moves(p, "left") \/ Moves(p, "leaving")
              /\ st[p] = "asking" /\ UNCHANGED <<host, closed, hasty>>
         /\ EndSession(p) =>
              /\ st[p] \in {"leaving", "left", "handing"}
              /\ half[p] = {} /\ host' = [host EXCEPT ![p] = FALSE]
              /\ Moves(p, "over") /\ UNCHANGED <<closed, hasty>>
         /\ CloseSession(p) =>
              /\ st[p] = "in" /\ host[p]
              /\ Moves(p, "left") \/ Moves(p, "closing")
              /\ closed' = [closed EXCEPT ![p] = TRUE] /\ host' = host
              /\ hasty' = {} => hasty = {} /\ half[p] = {}
         /\ ReadCount(p) =>
              st[p] = "closing" /\ Moves(p, "counting") /\ UNCHANGED <<host, closed, hasty>>
         /\ \A m \in net : Connect(p, m) =>
              st[p] = "joining" /\ Moves(p, "in") /\ UNCHANGED <<host, closed, hasty>>
         /\ \A m \in net : ReadBye(p, m) =>
              /\ Reading(p)
              /\ Moves(p, "left") /\ UNCHANGED <<host, closed, hasty>>
<1> USE DEF hostVars, selfVars, readVars, flagVars, history, told, Moves, Handovers
<1>1. \A h \in Players : AskToJoin(p, h) =>
        st[p] = "idle" /\ Moves(p, "joining") /\ UNCHANGED <<host, closed, hasty>>
  BY DEF AskToJoin
<1>2. GiveUp(p) => st[p] = "joining" /\ Moves(p, "over") /\ UNCHANGED <<host, closed, hasty>>
  BY DEF GiveUp
<1>3. AskToLeave(p) =>
        /\ Moves(p, "left") \/ Moves(p, "leaving")
        /\ st[p] = "asking" /\ UNCHANGED <<host, closed, hasty>>
  BY DEF AskToLeave
<1>9. StartLeaving(p) =>
        /\ st[p] = "in" /\ ~host[p]
        /\ Moves(p, "going") /\ UNCHANGED <<host, closed, hasty>>
  BY DEF StartLeaving
<1>10. TestAgain(p) =>
         /\ st[p] = "going" /\ UNCHANGED <<host, closed>> /\ hasty \subseteq hasty'
         /\ Moves(p, "asking") \/ (Moves(p, "closing") /\ host[p] /\ hasty' # {})
  <2>1. ASSUME TestAgain(p) PROVE Moves(p, IF host[p] THEN "closing" ELSE "asking")
    BY <2>1 DEF TestAgain
  <2>2. ASSUME TestAgain(p)
        PROVE  /\ st[p] = "going" /\ UNCHANGED <<host, closed>> /\ hasty \subseteq hasty'
               /\ host[p] => hasty' # {}
    BY <2>2 DEF TestAgain
  <2> HIDE DEF Moves
  <2> QED
    BY <2>1, <2>2
<1>4. EndSession(p) =>
        /\ st[p] \in {"leaving", "left", "handing"}
        /\ half[p] = {} /\ host' = [host EXCEPT ![p] = FALSE]
        /\ Moves(p, "over") /\ UNCHANGED <<closed, hasty>>
  BY DEF EndSession
<1>5. CloseSession(p) =>
        /\ st[p] = "in" /\ host[p]
        /\ Moves(p, "left") \/ Moves(p, "closing")
        /\ closed' = [closed EXCEPT ![p] = TRUE] /\ host' = host
        /\ hasty' = {} => hasty = {} /\ half[p] = {}
  BY DEF CloseSession, Closed
<1>6. ReadCount(p) =>
        st[p] = "closing" /\ Moves(p, "counting") /\ UNCHANGED <<host, closed, hasty>>
  BY DEF ReadCount
<1>7. \A m \in net : Connect(p, m) =>
        st[p] = "joining" /\ Moves(p, "in") /\ UNCHANGED <<host, closed, hasty>>
  BY DEF Connect
<1>8. \A m \in net : ReadBye(p, m) =>
        /\ Reading(p)
        /\ Moves(p, "left") /\ UNCHANGED <<host, closed, hasty>>
  BY DEF ReadBye, Hears
<1> QED
  BY <1>1, <1>2, <1>3, <1>4, <1>5, <1>6, <1>7, <1>8, <1>9, <1>10

LEMMA AdmitStep ==
  ASSUME NEW h \in Players, NEW p \in Players, Admit(h, p)
  PROVE  /\ host[h] /\ Connected(h) /\ ~closed[h] /\ half[h] = {}
         /\ last' = [last EXCEPT ![h] = last[h] + 1]
         /\ \E s \in Slots : given' = given \cup {[slot |-> s, n |-> last[h] + 1, who |-> p]}
         /\ UNCHANGED <<st, host, closed, half, hasty, Handovers>>
<1> USE DEF selfVars
<1>1. PICK s \in Slots :
        /\ last' = [last EXCEPT ![h] = last[h] + 1]
        /\ given' = given \cup {[slot |-> s, n |-> last[h] + 1, who |-> p]}
        /\ \E l, c : net' = net \cup {Added(h, p, s, l, c)}
  BY DEF Admit, NextNumber
<1>2. \A l, c : Added(h, p, s, l, c).ty # "Migrate"
  BY DEF Added
<1>3. Handovers' = Handovers
  BY <1>1, <1>2 DEF Handovers
<1> QED
  BY <1>1, <1>3 DEF Admit, Reads

LEMMA HandOverStep ==
  ASSUME NEW p \in Players, HandOver(p)
  PROVE  /\ st[p] = "counting" /\ st' = [st EXCEPT ![p] = "handing"]
         /\ UNCHANGED <<host, closed, half, last, given, hasty>>
         /\ \/ Handovers' = Handovers
            \/ \E m : m.last = last[p] /\ Handovers' = Handovers \cup {m}
<1>1. st[p] = "counting" /\ st' = [st EXCEPT ![p] = "handing"]
  BY DEF HandOver
<1>2. UNCHANGED <<host, closed, half, last, given, hasty>>
  BY DEF HandOver, selfVars
<1>3. CASE Heirs(p) = {}
  BY <1>1, <1>2, <1>3 DEF HandOver, Handovers
<1>4. CASE Heirs(p) # {}
  <2>1. PICK m : /\ m.ty = "Migrate" /\ m.last = last[p]
                 /\ net' = net \cup {m}
    BY <1>4 DEF HandOver, LastSent
  <2>2. Handovers' = Handovers \cup {m}
    BY <2>1 DEF Handovers
  <2> QED
    BY <1>1, <1>2, <2>1, <2>2
<1> QED
  BY <1>3, <1>4

LEMMA TakeOverStep ==
  ASSUME NEW p \in Players, NEW m \in net, TakeOver(p, m)
  PROVE  /\ m \in Handovers /\ m.to = p
         /\ st[p] \in {"in", "going", "asking", "leaving", "left"} /\ ~host[p]
         /\ host' = [host EXCEPT ![p] = TRUE] /\ half' = [half EXCEPT ![p] = {m}]
         /\ UNCHANGED <<st, closed, last, given, hasty, Handovers>>
BY DEF TakeOver, Handovers

LEMMA ProclaimStep ==
  ASSUME NEW p \in Players, Proclaim(p)
  PROVE  \E m \in half[p] :
           /\ half' = [half EXCEPT ![p] = {}] /\ closed' = [closed EXCEPT ![p] = FALSE]
           /\ last' = [last EXCEPT ![p] = m.last]
           /\ UNCHANGED <<st, host, given, hasty, Handovers>>
BY DEF Proclaim, Handovers, selfVars, history

-----------------------------------------------------------------------------
(* The right to admit is kept *)

\* By a step after which no one has the right who had it not.
LEMMA RightKept ==
  ASSUME OneRight, KnowsLast,
         UNCHANGED <<half, last, given, Handovers>>,
         \A p \in Players : Acts(p)' => Acts(p),
         \A m \in Handovers : Pending(m)' => Pending(m)
  PROVE  OneRight' /\ KnowsLast'
<1>1. OneRight'
  BY DEF OneRight
<1>2. \A n : UpTo(n)' <=> UpTo(n)
  BY DEF UpTo
<1>3. KnowsLast'
  BY <1>2 DEF KnowsLast
<1> QED
  BY <1>1, <1>3

\* The numbers are integers.
LEMMA Numbers ==
  ASSUME Typed
  PROVE  /\ \A x \in given : x.n \in Int
         /\ \A p \in Players : last[p] \in Int
         /\ \A p \in Players : \A m \in half[p] : m.last \in Int
BY NumbersAssumption DEF Typed, TypeOK, SentOK, Migrates

\* A host that admits a player gives out a number that is greater than any before.
LEMMA AdmitKeeps ==
  ASSUME Typed, OneRight, KnowsLast, ClosedStages, IdsUnique, hasty = {},
         NEW h \in Players, NEW p \in Players, Admit(h, p)
  PROVE  OneRight' /\ KnowsLast' /\ IdsUnique'
<1>0. /\ host[h] /\ Connected(h) /\ ~closed[h] /\ half[h] = {}
      /\ last' = [last EXCEPT ![h] = last[h] + 1]
      /\ UNCHANGED <<st, host, closed, half, hasty, Handovers>>
  BY AdmitStep
<1>s. PICK s \in Slots : given' = given \cup {[slot |-> s, n |-> last[h] + 1, who |-> p]}
  BY AdmitStep
<1>x. PICK x : x = [slot |-> s, n |-> last[h] + 1, who |-> p]
  OBVIOUS
<1>1. given' = given \cup {x} /\ x.n = last[h] + 1
  BY <1>s, <1>x
<1>2. Acts(h)
  BY <1>0 DEF Acts, Present, Connected
<1>3. UpTo(last[h])
  BY <1>0, <1>2 DEF KnowsLast
<1>4. \A q \in Players : Acts(q)' <=> Acts(q)
  BY <1>0 DEF Acts, Present, Alive
<1>5. \A m \in Handovers : Pending(m)' <=> Pending(m)
  BY <1>0 DEF Pending
<1>6. OneRight'
  BY <1>0, <1>4, <1>5 DEF OneRight
<1>7. \A q \in Players : Acts(q)' => q = h
  BY <1>2, <1>4 DEF OneRight
<1>8. \A y \in given' : y.n <= last'[h]
  <2>1. last'[h] = last[h] + 1
    BY <1>0, ControlTypes
  <2>2. ASSUME NEW y \in given' PROVE y.n <= last[h] + 1
    <3>1. CASE y \in given
      BY <1>3, <3>1, Numbers DEF UpTo
    <3>2. CASE y = x
      BY <1>1, <3>2, Numbers
    <3> QED
      BY <1>1, <3>1, <3>2
  <2> QED
    BY <2>1, <2>2
<1>9. KnowsLast'
  <2>1. \A q \in Players : Acts(q)' => \A y \in given' : y.n <= last'[q]
    BY <1>7, <1>8
  <2>2. \A q \in Players : \A m \in half'[q] : ~Acts(q)'
    BY <1>0, <1>7
  <2>3. \A m \in Handovers' : ~Pending(m)'
    BY <1>0, <1>2, <1>5 DEF OneRight
  <2> QED
    BY <2>1, <2>2, <2>3 DEF KnowsLast, UpTo
<1>10. IdsUnique'
  <2>1. \A y \in given : y.n # x.n
    BY <1>1, <1>3, Numbers DEF UpTo
  <2> QED
    BY <1>0, <1>1, <2>1 DEF IdsUnique
<1> QED
  BY <1>6, <1>9, <1>10

\* The one the session is handed over to is the only one that may act then.
LEMMA HandOverKeeps ==
  ASSUME Typed, OneRight, KnowsLast, ClosedStages,
         NEW h \in Players, HandOver(h)
  PROVE  OneRight' /\ KnowsLast'
<1>0. /\ st[h] = "counting" /\ st' = [st EXCEPT ![h] = "handing"]
      /\ UNCHANGED <<host, closed, half, last, given, hasty>>
      /\ \/ Handovers' = Handovers
         \/ \E m : m.last = last[h] /\ Handovers' = Handovers \cup {m}
  BY HandOverStep
<1>1. closed[h] /\ half[h] = {} /\ host[h]
  BY <1>0 DEF ClosedStages
<1>2. Acts(h)
  BY <1>0, <1>1 DEF Acts, Present, Alive
<1>3. UpTo(last[h])
  BY <1>1, <1>2 DEF KnowsLast
<1>4. \A q \in Players : ~Acts(q)'
  <2>1. ~Acts(h)'
    BY <1>0, <1>1, ControlTypes DEF Acts
  <2>2. \A q \in Players \ {h} : Acts(q)' => Acts(q)
    BY <1>0, ControlTypes DEF Acts, Present, Alive
  <2> QED
    BY <1>2, <2>1, <2>2 DEF OneRight
<1>5. \A m : Pending(m)' <=> Pending(m)
  BY <1>0, ControlTypes DEF Pending
<1>6. \A m \in Handovers : ~Pending(m)'
  BY <1>2, <1>5 DEF OneRight
<1>7. OneRight'
  BY <1>0, <1>4, <1>6 DEF OneRight
<1>8. \A n : UpTo(n)' <=> UpTo(n)
  BY <1>0 DEF UpTo
<1>9. \A m \in Handovers' : Pending(m)' => UpTo(m.last)'
  BY <1>0, <1>3, <1>6, <1>8
<1>10. KnowsLast'
  BY <1>4, <1>9 DEF KnowsLast
<1> QED
  BY <1>7, <1>10

\* The one that takes the session over was the one it was handed to.
LEMMA TakeOverKeeps ==
  ASSUME Typed, OneRight, KnowsLast, ClosedStages,
         NEW p \in Players, NEW m \in net, TakeOver(p, m)
  PROVE  OneRight' /\ KnowsLast'
<1>0. /\ m \in Handovers /\ m.to = p
      /\ st[p] \in {"in", "going", "asking", "leaving", "left"} /\ ~host[p]
      /\ host' = [host EXCEPT ![p] = TRUE] /\ half' = [half EXCEPT ![p] = {m}]
      /\ UNCHANGED <<st, closed, last, given, hasty, Handovers>>
  BY TakeOverStep
<1>1. Pending(m)
  BY <1>0 DEF Pending
<1>2. \A q \in Players : ~Acts(q)
  BY <1>0, <1>1 DEF OneRight
<1>3. \A n \in Handovers : Pending(n) => n = m
  BY <1>0, <1>1 DEF OneRight
<1>4. \A q \in Players : Acts(q)' => q = p
  BY <1>0, <1>2, ControlTypes DEF Acts, Present, Alive
<1>5. \A n \in Handovers : ~Pending(n)'
  <2>1. \A n \in Handovers : Pending(n)' => Pending(n)
    BY <1>0, ControlTypes DEF Pending
  <2>2. ~Pending(m)'
    BY <1>0, ControlTypes DEF Pending
  <2> QED
    BY <1>3, <2>1, <2>2
<1>6. OneRight'
  BY <1>0, <1>4, <1>5 DEF OneRight
<1>7. half'[p] = {m} /\ UpTo(m.last)'
  BY <1>0, <1>1, ControlTypes DEF KnowsLast, UpTo
<1>8. KnowsLast'
  BY <1>0, <1>4, <1>5, <1>7 DEF KnowsLast
<1> QED
  BY <1>6, <1>8

\* The last number that was given out came with the session.
LEMMA ProclaimKeeps ==
  ASSUME Typed, OneRight, KnowsLast, HostStages, ClosedStages,
         NEW p \in Players, Proclaim(p)
  PROVE  OneRight' /\ KnowsLast'
<1>0. PICK m \in half[p] :
        /\ half' = [half EXCEPT ![p] = {}] /\ closed' = [closed EXCEPT ![p] = FALSE]
        /\ last' = [last EXCEPT ![p] = m.last]
        /\ UNCHANGED <<st, host, given, hasty, Handovers>>
  BY ProclaimStep
<1>1. host[p] /\ (Present(p) => ~closed[p])
  BY <1>0, ControlTypes DEF HostStages, ClosedStages, Present, Alive
<1>2. \A q \in Players : Acts(q)' => Acts(q)
  BY <1>0, <1>1, ControlTypes DEF Acts, Present, Alive
<1>3. \A n : Pending(n)' <=> Pending(n)
  BY <1>0 DEF Pending
<1>4. OneRight'
  BY <1>0, <1>2, <1>3 DEF OneRight
<1>5. \A n : UpTo(n)' <=> UpTo(n)
  BY <1>0 DEF UpTo
<1>6. Acts(p)' => UpTo(last'[p])
  <2>1. last'[p] = m.last
    BY <1>0, ControlTypes
  <2> QED
    BY <1>0, <1>2, <2>1 DEF KnowsLast
<1>7. \A q \in Players \ {p} : last'[q] = last[q] /\ half'[q] = half[q]
  BY <1>0, ControlTypes
<1>8. half'[p] = {}
  BY <1>0, ControlTypes
<1>9. \A q \in Players : Acts(q)' /\ half'[q] = {} => UpTo(last'[q])
  BY <1>2, <1>6, <1>7 DEF KnowsLast
<1>10. \A q \in Players : \A n \in half'[q] : Acts(q)' => UpTo(n.last)
  BY <1>2, <1>7, <1>8 DEF KnowsLast
<1>11. \A n \in Handovers' : Pending(n)' => UpTo(n.last)
  BY <1>0, <1>3 DEF KnowsLast
<1>12. KnowsLast'
  BY <1>0, <1>9, <1>10, <1>11 DEF KnowsLast, UpTo
<1> QED
  BY <1>4, <1>12

-----------------------------------------------------------------------------
(* The invariant *)

LEMMA InvInit == Init => Inv
<1> SUFFICES ASSUME Init PROVE Inv
  OBVIOUS
<1>1. Typed
  BY TypedInit
<1>2. HostStages /\ ClosedStages
  BY DEF Init, HostStages, ClosedStages
<1>3. \A p \in Players : Acts(p) => p = First
  BY DEF Init, Acts
<1>4. Handovers = {} /\ \A p \in Players : half[p] = {}
  BY DEF Init, Handovers
<1>5. OneRight
  BY <1>3, <1>4 DEF OneRight
<1>6. \A p \in Players : UpTo(last[p])
  BY DEF Init, UpTo
<1>7. KnowsLast
  BY <1>4, <1>6 DEF KnowsLast
<1>8. IdsUnique
  BY DEF Init, IdsUnique
<1> QED
  BY <1>1, <1>2, <1>5, <1>7, <1>8 DEF Inv

LEMMA Hasty == ASSUME [Next]_vars PROVE hasty \subseteq hasty'
<1> USE DEF history, hostVars, selfVars, readVars, told
<1>1. ASSUME NEW p \in Players, CloseSession(p) PROVE hasty \subseteq hasty'
  BY <1>1 DEF CloseSession
<1>2. ASSUME NEW p \in Players, NEW h \in Players, Admit(h, p) PROVE hasty \subseteq hasty'
  BY <1>2, AdmitStep
<1>3. ASSUME NEW p \in Players, HandOver(p) PROVE hasty \subseteq hasty'
  BY <1>3, HandOverStep
<1>4. ASSUME NEW p \in Players, NEW m \in net, TakeOver(p, m) PROVE hasty \subseteq hasty'
  BY <1>4, TakeOverStep
<1>5. ASSUME NEW p \in Players, Proclaim(p) PROVE hasty \subseteq hasty'
  BY <1>5, ProclaimStep
<1>6. ASSUME NEW p \in Players, NEW h \in Players,
             \/ AskToJoin(p, h) \/ GiveUp(p) \/ StartLeaving(p) \/ TestAgain(p)
             \/ AskToLeave(p) \/ EndSession(p) \/ ReadCount(p)
             \/ \E m \in net : Connect(p, m) \/ ReadBye(p, m)
      PROVE  hasty \subseteq hasty'
  BY <1>6, MovingSteps
<1>7. ASSUME NEW p \in Players, NEW h \in Players,
             \/ AnswerAgain(h, p) \/ Destroy(h, p) \/ HearNewHost(p, h) \/ HearLeave(p)
             \/ \E s \in Slots : Kick(p, s)
             \/ \E t \in Threads : Schedule(p, t)
             \/ Handle(p)
      PROVE  hasty \subseteq hasty'
  BY <1>7, QuietSteps
<1>8. CASE UNCHANGED vars
  BY <1>8 DEF vars
<1> QED
  BY <1>1, <1>2, <1>3, <1>4, <1>5, <1>6, <1>7, <1>8 DEF Next

LEMMA HostStagesStep ==
  ASSUME Typed, HostStages, [Next]_vars
  PROVE  HostStages'
<1> USE ControlTypes
<1>1. ASSUME NEW p \in Players, NEW h \in Players,
             \/ AskToJoin(p, h) \/ GiveUp(p) \/ StartLeaving(p) \/ TestAgain(p)
             \/ AskToLeave(p) \/ EndSession(p) \/ ReadCount(p)
             \/ CloseSession(p)
             \/ \E m \in net : Connect(p, m) \/ ReadBye(p, m)
      PROVE  HostStages'
  <2>1. PICK v \in {"joining", "over", "left", "going", "asking", "leaving", "closing",
                   "counting", "in"} :
          /\ Moves(p, v)
          /\ v \in {"joining", "over"} => ~host'[p] /\ half'[p] = {}
          /\ \A q \in Players \ {p} : host'[q] = host[q]
          /\ v # "over" => host'[p] = host[p]
    BY <1>1, MovingSteps DEF HostStages, Moves
  <2> QED
    BY <2>1 DEF HostStages, Moves
<1>2. ASSUME NEW p \in Players, NEW h \in Players, Admit(h, p) PROVE HostStages'
  BY <1>2, AdmitStep DEF HostStages
<1>3. ASSUME NEW p \in Players, HandOver(p) PROVE HostStages'
  BY <1>3, HandOverStep DEF HostStages
<1>4. ASSUME NEW p \in Players, NEW m \in net, TakeOver(p, m) PROVE HostStages'
  BY <1>4, TakeOverStep DEF HostStages
<1>5. ASSUME NEW p \in Players, Proclaim(p) PROVE HostStages'
  BY <1>5, ProclaimStep DEF HostStages
<1>6. ASSUME NEW p \in Players, NEW h \in Players,
             \/ AnswerAgain(h, p) \/ Destroy(h, p) \/ HearNewHost(p, h) \/ HearLeave(p)
             \/ \E s \in Slots : Kick(p, s)
             \/ \E t \in Threads : Schedule(p, t)
             \/ Handle(p)
      PROVE  HostStages'
  BY <1>6, QuietSteps DEF HostStages
<1>7. CASE UNCHANGED vars
  BY <1>7 DEF vars, hostVars, selfVars, HostStages
<1> QED
  BY <1>1, <1>2, <1>3, <1>4, <1>5, <1>6, <1>7 DEF Next

LEMMA ClosedStagesStep ==
  ASSUME Typed, HostStages, ClosedStages, [Next]_vars, hasty' = {}
  PROVE  ClosedStages'
<1> USE ControlTypes
<1>1. ASSUME NEW p \in Players, NEW h \in Players,
             \/ AskToJoin(p, h) \/ GiveUp(p) \/ StartLeaving(p) \/ TestAgain(p) \/ AskToLeave(p)
             \/ \E m \in net : Connect(p, m) \/ ReadBye(p, m)
      PROVE  ClosedStages'
  <2>1. PICK v \in {"joining", "over", "left", "going", "asking", "leaving", "in"} :
          /\ Moves(p, v)
          /\ UNCHANGED <<host, closed>>
          /\ st[p] \in {"idle", "joining", "in", "going", "asking", "leaving"}
    BY <1>1, MovingSteps DEF Reading
  <2> QED
    BY <2>1 DEF ClosedStages, Moves
<1>2. ASSUME NEW p \in Players, EndSession(p) PROVE ClosedStages'
  <2>1. /\ host' = [host EXCEPT ![p] = FALSE] /\ closed' = closed
        /\ Moves(p, "over")
    BY <1>2, MovingSteps
  <2> QED
    BY <2>1 DEF ClosedStages, Moves
<1>3. ASSUME NEW p \in Players, CloseSession(p) PROVE ClosedStages'
  <2>1. /\ host[p] /\ half[p] = {} /\ (Moves(p, "left") \/ Moves(p, "closing"))
        /\ closed' = [closed EXCEPT ![p] = TRUE] /\ host' = host
    BY <1>3, MovingSteps
  <2> QED
    BY <2>1 DEF ClosedStages, Moves
<1>4. ASSUME NEW p \in Players, ReadCount(p) PROVE ClosedStages'
  <2>1. st[p] = "closing" /\ Moves(p, "counting") /\ UNCHANGED <<host, closed>>
    BY <1>4, MovingSteps
  <2> QED
    BY <2>1 DEF ClosedStages, Moves
<1>5. ASSUME NEW p \in Players, NEW h \in Players, Admit(h, p) PROVE ClosedStages'
  BY <1>5, AdmitStep DEF ClosedStages
<1>6. ASSUME NEW p \in Players, HandOver(p) PROVE ClosedStages'
  BY <1>6, HandOverStep DEF ClosedStages
<1>7. ASSUME NEW p \in Players, NEW m \in net, TakeOver(p, m) PROVE ClosedStages'
  BY <1>7, TakeOverStep DEF ClosedStages
<1>8. ASSUME NEW p \in Players, Proclaim(p) PROVE ClosedStages'
  BY <1>8, ProclaimStep DEF ClosedStages
<1>9. ASSUME NEW p \in Players, NEW h \in Players,
             \/ AnswerAgain(h, p) \/ Destroy(h, p) \/ HearNewHost(p, h) \/ HearLeave(p)
             \/ \E s \in Slots : Kick(p, s)
             \/ \E t \in Threads : Schedule(p, t)
             \/ Handle(p)
      PROVE  ClosedStages'
  BY <1>9, QuietSteps DEF ClosedStages
<1>10. CASE UNCHANGED vars
  BY <1>10 DEF vars, hostVars, selfVars, ClosedStages
<1> QED
  BY <1>1, <1>2, <1>3, <1>4, <1>5, <1>6, <1>7, <1>8, <1>9, <1>10 DEF Next

\* The moves of one player that take the right from nobody but itself.
LEMMA MovesKeep ==
  ASSUME Typed, HostStages, ClosedStages, OneRight, KnowsLast, hasty' = {},
         NEW p \in Players, NEW h \in Players,
         \/ AskToJoin(p, h) \/ GiveUp(p) \/ StartLeaving(p) \/ TestAgain(p) \/ AskToLeave(p)
         \/ EndSession(p) \/ ReadCount(p)
         \/ CloseSession(p)
         \/ \E m \in net : Connect(p, m) \/ ReadBye(p, m)
  PROVE  OneRight' /\ KnowsLast'
<1> USE ControlTypes
<1>1. PICK v \in {"joining", "over", "left", "going", "asking", "leaving", "closing",
                "counting", "in"} :
        /\ Moves(p, v)
        /\ \A q \in Players \ {p} : host'[q] = host[q] /\ closed'[q] = closed[q]
        /\ st[p] # "over"
        /\ v = "over" \/ host'[p] = host[p]
        /\ v = "closing" => host[p] /\ st[p] = "in"
        /\ v = "counting" => st[p] = "closing"
        /\ v \in {"in", "going", "joining"} => ~host[p]
        /\ v \in {"asking", "leaving"} => st[p] \in {"going", "asking"} /\ closed'[p] = closed[p]
  BY MovingSteps DEF HostStages, Reading
<1>2. st' = [st EXCEPT ![p] = v] /\ UNCHANGED <<half, last, given, Handovers>>
  BY <1>1 DEF Moves
<1>3. Acts(p)' => Acts(p)
  BY <1>1, <1>2 DEF Acts, Present, Alive, ClosedStages
<1>4. \A q \in Players \ {p} : Acts(q)' => Acts(q)
  BY <1>1, <1>2 DEF Acts, Present, Alive
<1>5. \A m \in Handovers : Pending(m)' => Pending(m)
  <2>1. SUFFICES ASSUME NEW m \in Handovers, Pending(m)' PROVE Pending(m)
    OBVIOUS
  <2>2. m.to \in Players /\ ~host'[m.to] /\ st'[m.to] # "over"
    BY <2>1 DEF Pending
  <2>3. CASE m.to = p
    BY <1>1, <1>2, <2>2, <2>3 DEF Pending
  <2>4. CASE m.to # p
    BY <1>1, <1>2, <2>2, <2>4 DEF Pending
  <2> QED
    BY <2>3, <2>4
<1> QED
  BY <1>2, <1>3, <1>4, <1>5, RightKept

LEMMA QuietKeeps ==
  ASSUME OneRight, KnowsLast,
         UNCHANGED <<st, host, closed, half, last, given, hasty, Handovers>>
  PROVE  OneRight' /\ KnowsLast'
<1>1. \A p \in Players : Acts(p)' => Acts(p)
  BY DEF Acts, Present, Alive
<1>2. \A m \in Handovers : Pending(m)' => Pending(m)
  BY DEF Pending
<1> QED
  BY <1>1, <1>2, RightKept

LEMMA InvStep ==
  ASSUME Inv, [Next]_vars
  PROVE  Inv'
<1>1. Typed' /\ HostStages'
  BY TypedStep, HostStagesStep DEF Inv
<1>2. SUFFICES ASSUME hasty' = {}
               PROVE  ClosedStages' /\ OneRight' /\ KnowsLast' /\ IdsUnique'
  BY <1>1 DEF Inv
<1>3. hasty = {}
  BY <1>2, Hasty
<1>4. Typed /\ HostStages /\ ClosedStages /\ OneRight /\ KnowsLast /\ IdsUnique
  BY <1>3 DEF Inv
<1>5. ClosedStages'
  BY <1>2, <1>4, ClosedStagesStep
<1>6. ASSUME given' = given PROVE IdsUnique'
  BY <1>2, <1>3, <1>4, <1>6 DEF IdsUnique
<1>7. ASSUME NEW p \in Players, NEW h \in Players, Admit(h, p)
      PROVE  OneRight' /\ KnowsLast' /\ IdsUnique'
  BY <1>3, <1>4, <1>7, AdmitKeeps
<1>8. ASSUME NEW p \in Players, HandOver(p)
      PROVE  OneRight' /\ KnowsLast' /\ IdsUnique'
  BY <1>4, <1>6, <1>8, HandOverKeeps, HandOverStep
<1>9. ASSUME NEW p \in Players, NEW m \in net, TakeOver(p, m)
      PROVE  OneRight' /\ KnowsLast' /\ IdsUnique'
  BY <1>4, <1>6, <1>9, TakeOverKeeps, TakeOverStep
<1>10. ASSUME NEW p \in Players, Proclaim(p)
       PROVE  OneRight' /\ KnowsLast' /\ IdsUnique'
  BY <1>4, <1>6, <1>10, ProclaimKeeps, ProclaimStep
<1>11. ASSUME NEW p \in Players, NEW h \in Players,
              \/ AskToJoin(p, h) \/ GiveUp(p) \/ StartLeaving(p) \/ TestAgain(p)
              \/ AskToLeave(p) \/ EndSession(p) \/ ReadCount(p)
              \/ CloseSession(p)
              \/ \E m \in net : Connect(p, m) \/ ReadBye(p, m)
       PROVE  OneRight' /\ KnowsLast' /\ IdsUnique'
  <2>1. given' = given
    BY <1>11, MovingSteps DEF Moves
  <2> QED
    BY <1>2, <1>4, <1>6, <1>11, <2>1, MovesKeep
<1>12. ASSUME NEW p \in Players, NEW h \in Players,
              \/ AnswerAgain(h, p) \/ Destroy(h, p) \/ HearNewHost(p, h) \/ HearLeave(p)
              \/ \E s \in Slots : Kick(p, s)
              \/ \E t \in Threads : Schedule(p, t)
              \/ Handle(p)
       PROVE  OneRight' /\ KnowsLast' /\ IdsUnique'
  BY <1>4, <1>6, <1>12, QuietSteps, QuietKeeps
<1>13. CASE UNCHANGED vars
  <2>1. UNCHANGED <<st, host, closed, half, last, given, hasty, Handovers>>
    BY <1>13 DEF vars, hostVars, selfVars, history, Handovers
  <2> QED
    BY <1>4, <1>5, <1>6, <2>1, QuietKeeps
<1> QED
  BY <1>5, <1>7, <1>8, <1>9, <1>10, <1>11, <1>12, <1>13 DEF Next

\* While no host began to leave before its own take-over was through (hasty = {}): an id names
\* one admission, through any number of joins, leaves and changes of the host.  Whoever may
\* admit knows the last number that was given out.
THEOREM Unique == Spec => []IdsUnique
<1>1. Inv => IdsUnique
  BY DEF Inv, IdsUnique
<1> QED
  BY <1>1, InvInit, InvStep, PTL DEF Spec

\* While no host began to leave before its own take-over was through (hasty = {}): one host at
\* a time admits players, the right to do so is handed over and never shared.
THEOREM OneHost == Spec => []OneOpenHost
<1>1. Inv => OneOpenHost
  BY DEF Inv, OneRight, Acts, Present, Connected, OneOpenHost
<1> QED
  BY <1>1, InvInit, InvStep, PTL DEF Spec

-----------------------------------------------------------------------------
(* What lists and messages say of who was admitted *)

\* What the line of slot s says, in the form of given.
Admission(l, s) == [slot |-> s, n |-> l[s].n, who |-> l[s].who]
Admissions(l) == {Admission(l, s) : s \in Joined(l)}

\* What a message says.
Names(x) ==
  IF x.ty = "Create" THEN {[slot |-> x.id.slot, n |-> x.id.n, who |-> x.who]}
  ELSE IF x.ty = "List" THEN {Admission(x.part, s) : s \in DOMAIN x.part} ELSE {}

IdOf(a) == [slot |-> a.slot, n |-> a.n]
Ids(l) == {IdOf(a) : a \in Admissions(l)}
Shown(x) == {IdOf(a) : a \in Names(x)}
GivenIds == {IdOf(a) : a \in given}

\* The list of h has p.
Lists(h, p) == \E a \in Admissions(list[h]) : a.who = p

LEMMA IdAtSlot ==
  ASSUME NEW l, NEW s \in Joined(l)
  PROVE  /\ Admission(l, s) \in Admissions(l) /\ Admission(l, s).who = l[s].who
         /\ IdAt(l, s) = IdOf(Admission(l, s)) /\ IdAt(l, s) \in Ids(l)
<1>1. Admission(l, s) \in Admissions(l) /\ Admission(l, s).who = l[s].who
  BY DEF Admissions, Admission
<1>2. IdAt(l, s) = IdOf(Admission(l, s))
  BY DEF Admission, IdAt, IdOf
<1> QED
  BY <1>1, <1>2 DEF Ids

LEMMA HasId ==
  ASSUME NEW l \in [Slots -> Line], NEW id \in Id
  PROVE  Has(l, id) <=> id \in Ids(l)
<1>1. id.slot \in Slots /\ id.n \in 0..MaxId /\ id = [slot |-> id.slot, n |-> id.n]
  BY DEF Id
<1>2. ASSUME Has(l, id) PROVE id \in Ids(l)
  <2>1. id.slot \in Joined(l) /\ IdAt(l, id.slot) = id
    BY <1>1, <1>2 DEF Has, Joined, IdAt
  <2> QED
    BY <2>1, IdAtSlot
<1>3. ASSUME id \in Ids(l) PROVE Has(l, id)
  <2>1. PICK s \in Joined(l) : id = IdOf(Admission(l, s))
    BY <1>3 DEF Ids, Admissions
  <2>2. id = IdAt(l, s)
    BY <2>1, IdAtSlot
  <2>3. IdAt(l, s).slot = s /\ IdAt(l, s).n = l[s].n
    BY DEF IdAt
  <2>4. id.slot = s /\ id.n = l[s].n
    BY <2>2, <2>3
  <2> QED
    BY <2>4 DEF Has
<1> QED
  BY <1>2, <1>3

\* A list that has of each line what l had, or nothing, or what a message says.
LEMMA ListFrom ==
  ASSUME NEW l, NEW k, NEW N,
         \A s \in Joined(k) : \/ s \in Joined(l) /\ k[s].n = l[s].n /\ k[s].who = l[s].who
                              \/ Admission(k, s) \in N
  PROVE  Admissions(k) \subseteq Admissions(l) \cup N
<1> SUFFICES ASSUME NEW s \in Joined(k)
             PROVE  Admission(k, s) \in Admissions(l) \cup N
  BY DEF Admissions
<1>1. CASE s \in Joined(l) /\ k[s].n = l[s].n /\ k[s].who = l[s].who
  <2>1. Admission(k, s) = Admission(l, s)
    BY <1>1 DEF Admission
  <2> QED
    BY <1>1, <2>1 DEF Admissions
<1> QED
  BY <1>1

LEMMA IdsFrom ==
  ASSUME NEW l, NEW k, NEW N, Admissions(k) \subseteq Admissions(l) \cup N
  PROVE  Ids(k) \subseteq Ids(l) \cup {IdOf(a) : a \in N}
BY DEF Ids

LEMMA FreeLine ==
  ASSUME NEW l \in [Slots -> Line], NEW s \in Slots
  PROVE  /\ Admissions([l EXCEPT ![s] = Free]) \subseteq Admissions(l)
         /\ IdAt(l, s) \notin Ids([l EXCEPT ![s] = Free])
<1> DEFINE k == [l EXCEPT ![s] = Free]
<1>1. \A t \in Joined(k) : t # s /\ k[t] = l[t] /\ t \in Joined(l)
  BY DEF Joined, Free
<1>2. Admissions(k) \subseteq Admissions(l)
  BY <1>1, ListFrom
<1>3. \A t \in Joined(k) : IdOf(Admission(k, t)) # IdAt(l, s)
  <2>1. \A t : IdOf(Admission(k, t)).slot = t /\ IdAt(l, s).slot = s
    BY DEF IdOf, Admission, IdAt
  <2> QED
    BY <1>1, <2>1
<1> QED
  BY <1>2, <1>3 DEF Ids, Admissions

LEMMA NewLine ==
  ASSUME NEW l \in [Slots -> Line], NEW s \in Slots, NEW n \in 0..MaxId, NEW p
  PROVE  LET k == [l EXCEPT ![s] = [n |-> n, who |-> p, host |-> FALSE]]
             a == [slot |-> s, n |-> n, who |-> p]
         IN  /\ Admissions(k) \subseteq Admissions(l) \cup {a}
             /\ IdAt(k, s) = [slot |-> s, n |-> n] /\ IdOf(a) = IdAt(k, s)
             /\ s \notin Joined(l) => Admissions(k) = Admissions(l) \cup {a}
<1> DEFINE k == [l EXCEPT ![s] = [n |-> n, who |-> p, host |-> FALSE]]
           a == [slot |-> s, n |-> n, who |-> p]
<1>1. k[s].n = n /\ k[s].who = p /\ \A t \in Slots \ {s} : k[t] = l[t]
  OBVIOUS
<1>2. Admission(k, s) = a /\ IdAt(k, s) = [slot |-> s, n |-> n] /\ IdOf(a) = IdAt(k, s)
  BY <1>1 DEF Admission, IdAt, IdOf
<1>3. \A t \in Joined(k) : t = s \/ (t \in Joined(l) /\ k[t] = l[t])
  BY <1>1 DEF Joined
<1> HIDE DEF k, a
<1>4. Admissions(k) \subseteq Admissions(l) \cup {a}
  BY <1>2, <1>3, ListFrom
<1>5. ASSUME s \notin Joined(l) PROVE Admissions(l) \cup {a} \subseteq Admissions(k)
  <2>1. \A t \in Joined(l) : t \in Joined(k) /\ k[t] = l[t]
    BY <1>1, <1>5 DEF Joined
  <2>2. Admissions(l) \subseteq Admissions(k)
    BY <2>1, ListFrom
  <2>3. s \in Joined(k)
    BY <1>1, NumbersAssumption DEF Joined
  <2> QED
    BY <1>2, <2>2, <2>3 DEF Admissions
<1> QED
  BY <1>2, <1>4, <1>5 DEF k, a

-----------------------------------------------------------------------------
(* What a step writes of the logs and the lists *)

\* The steps but for an admission.
Step(p) ==
  \/ \E h \in Players : AskToJoin(p, h) \/ AnswerAgain(h, p) \/ Destroy(h, p)
                          \/ HearNewHost(p, h)
  \/ \E m \in net : Connect(p, m) \/ ReadBye(p, m) \/ TakeOver(p, m)
  \/ GiveUp(p) \/ StartLeaving(p) \/ TestAgain(p) \/ AskToLeave(p) \/ EndSession(p)
  \/ \E s \in Slots : Kick(p, s)
  \/ \E t \in Threads : Schedule(p, t)
  \/ CloseSession(p) \/ ReadCount(p) \/ HandOver(p) \/ Proclaim(p)
  \/ HearLeave(p) \/ Handle(p)

LEMMA StepsOrAdmits ==
  [Next]_vars => \/ \E h, p \in Players : Admit(h, p)
                 \/ \E p \in Players : Step(p)
                 \/ UNCHANGED vars
BY DEF Next, Step

LEMMA StepOfNext == ASSUME NEW p \in Players, Step(p) \/ UNCHANGED vars PROVE [Next]_vars
BY DEF Next, Step

\* k goes on from l.
Lengthens(l, k) == DOMAIN l \subseteq DOMAIN k /\ \A i \in DOMAIN l : k[i] = l[i]

\* A message that host g may send to q, other than to admit.
Sendable(g, q, x) ==
  /\ Lists(g, q)
  /\ \/ x.ty = "Leave" /\ \E t \in Threads : x.id = pend[g][t] /\ pend[g][t] # None
     \/ x.ty = "Leave" /\ x.id = me[g] /\ st[g] = "counting" /\ st'[g] = "handing"
     \/ x.ty = "NewHost" /\ half[g] # {}
     \/ x.ty = "Migrate" /\ st[g] = "counting" /\ st'[g] = "handing"
Sends(g, q) ==
  /\ Lengthens(log[g][q], log'[g][q])
  /\ \A i \in DOMAIN log'[g][q] \ DOMAIN log[g][q] : Sendable(g, q, log'[g][q][i])

LEMMA LogType ==
  ASSUME Typed, NEW h \in Players, NEW p \in Players
  PROVE  log[h][p] \in Seq(Message) /\ Len(log[h][p]) \in Nat
         /\ DOMAIN log[h][p] = 1..Len(log[h][p])
<1>1. log[h][p] \in Seq(Message)
  BY DEF Typed, SentOK
<1> QED
  BY <1>1, LenProperties

LEMMA OneMore ==
  ASSUME NEW l \in Seq(Message), NEW x \in Message
  PROVE  /\ Append(l, x) \in Seq(Message) /\ Lengthens(l, Append(l, x)) /\ Lengthens(l, l)
         /\ \A i \in DOMAIN Append(l, x) \ DOMAIN l : Append(l, x)[i] = x
<1>1. PICK n \in Nat : n = Len(l) /\ DOMAIN l = 1..n
  BY LenProperties
<1>2. Append(l, x) \in Seq(Message) /\ Len(Append(l, x)) = n + 1
      /\ (\A i \in 1..n : Append(l, x)[i] = l[i]) /\ Append(l, x)[n + 1] = x
  BY <1>1, AppendProperties
<1>3. DOMAIN Append(l, x) = 1..n+1
  BY <1>2, LenProperties
<1> QED
  BY <1>1, <1>2, <1>3 DEF Lengthens

\* Scheduled sends to those of its list.
LEMMA ScheduledTo ==
  ASSUME Typed, NEW h \in Players, NEW p \in Players, NEW l, NEW x \in Message
  PROVE  /\ Lengthens(log[h][p], Scheduled(h, l, x)[p])
         /\ Scheduled(h, l, x)[p] \in Seq(Message)
         /\ \A i \in DOMAIN Scheduled(h, l, x)[p] \ DOMAIN log[h][p] :
              Scheduled(h, l, x)[p][i] = x /\ \E a \in Admissions(l) : a.who = p
<1>1. log[h][p] \in Seq(Message)
  BY LogType
<1>2. CASE \E s \in Joined(l) : l[s].who = p /\ IdAt(l, s) # me[h]
  <2>1. Scheduled(h, l, x)[p] = Append(log[h][p], x)
    BY <1>2 DEF Scheduled
  <2>2. \E a \in Admissions(l) : a.who = p
    BY <1>2, IdAtSlot
  <2> QED
    BY <1>1, <2>1, <2>2, OneMore
<1>3. CASE ~\E s \in Joined(l) : l[s].who = p /\ IdAt(l, s) # me[h]
  <2>1. Scheduled(h, l, x)[p] = log[h][p]
    BY <1>3 DEF Scheduled
  <2> QED
    BY <1>1, <2>1 DEF Lengthens
<1> QED
  BY <1>2, <1>3

\* The logs of h after a message was scheduled to those it lists.
LEMMA ScheduledStep ==
  ASSUME Typed, NEW h \in Players, NEW x \in Message,
         log' = [log EXCEPT ![h] = Scheduled(h, list[h], x)],
         \A q : Lists(h, q) => Sendable(h, q, x)
  PROVE  \A g, q \in Players : Sends(g, q)
<1> SUFFICES ASSUME NEW g \in Players, NEW q \in Players PROVE Sends(g, q)
  OBVIOUS
<1>1. log \in [Players -> [Players -> Seq(Message)]]
  BY DEF Typed, SentOK
<1>2. CASE g = h
  <2>1. log'[g][q] = Scheduled(h, list[h], x)[q]
    BY <1>1, <1>2
  <2> QED
    BY <1>2, <2>1, ScheduledTo DEF Sends, Lists
<1>3. CASE g # h
  <2>1. log'[g][q] = log[g][q]
    BY <1>1, <1>3
  <2> QED
    BY <2>1 DEF Sends, Lengthens
<1> QED
  BY <1>2, <1>3

LEMMA ScheduleSends ==
  ASSUME Typed, NEW p \in Players, NEW t \in Threads, Schedule(p, t)
  PROVE  \A g, q \in Players : Sends(g, q)
<1> DEFINE x == [ty |-> "Leave", id |-> pend[p][t], count |-> count[p]]
<1>1. pend[p][t] # None /\ log' = [log EXCEPT ![p] = Scheduled(p, list[p], x)]
  BY DEF Schedule
<1>2. x \in Message
  <2>1. pend[p][t] \in AnyId /\ count[p] \in Int
    BY DEF Typed, TypeOK, AnyId
  <2> QED
    BY <2>1 DEF Message
<1>3. \A q : Lists(p, q) => Sendable(p, q, x)
  BY <1>1 DEF Sendable
<1> QED
  BY <1>1, <1>2, <1>3, ScheduledStep

LEMMA ProclaimSends ==
  ASSUME Typed, NEW p \in Players, Proclaim(p)
  PROVE  \A g, q \in Players : Sends(g, q)
<1>1. PICK m \in half[p] :
        log' = [log EXCEPT ![p] = Scheduled(p, list[p],
                  [ty |-> "NewHost", id |-> me[p], who |-> p, count |-> m.count])]
  BY DEF Proclaim
<1> DEFINE x == [ty |-> "NewHost", id |-> me[p], who |-> p, count |-> m.count]
<1>2. x \in Message
  <2>1. me[p] \in AnyId /\ m.count \in Int
    BY DEF Typed, TypeOK, SentOK, Migrates, AnyId
  <2> QED
    BY <2>1 DEF Message
<1>3. \A q : Lists(p, q) => Sendable(p, q, x)
  BY DEF Sendable
<1> QED
  BY <1>1, <1>2, <1>3, ScheduledStep

LEMMA HandOverSends ==
  ASSUME Typed, NEW p \in Players, HandOver(p)
  PROVE  \A g, q \in Players : Sends(g, q)
<1> DEFINE x == [ty |-> "Leave", id |-> me[p], count |-> tmp[p] - 1]
           l == Scheduled(p, list[p], x)
           e == [ty |-> "Migrate"]
<1>1. st[p] = "counting" /\ st'[p] = "handing"
  BY DEF HandOver, Typed, TypeOK
<1>2. x \in Message /\ e \in Message
  <2>1. me[p] \in AnyId /\ tmp[p] - 1 \in Int
    BY DEF Typed, TypeOK, AnyId
  <2> QED
    BY <2>1 DEF Message
<1>3. \A q : Lists(p, q) => Sendable(p, q, x) /\ Sendable(p, q, e)
  BY <1>1 DEF Sendable
<1>4. CASE Heirs(p) = {}
  <2>1. log' = [log EXCEPT ![p] = Scheduled(p, list[p], x)]
    BY <1>4 DEF HandOver
  <2> QED
    BY <1>2, <1>3, <2>1, ScheduledStep
<1>5. CASE Heirs(p) # {}
  <2>1. PICK w : w = list[p][Heir(p)].who
    OBVIOUS
  <2>2. log' = [log EXCEPT ![p] = [l EXCEPT ![w] = Append(@, e)]]
    BY <1>5, <2>1 DEF HandOver
  <2>3. Heir(p) \in Joined(list[p])
    <3>1. Heirs(p) \subseteq Slots
      BY DEF Heirs, Joined
    <3>2. PICK S \in SUBSET Slots : S = Heirs(p)
      BY <3>1
    <3>3. \E s \in S : \A t \in S : s <= t
      BY <1>5, <3>2, SlotNumbers, LeastElement
    <3>4. Heir(p) \in Heirs(p)
      BY <3>2, <3>3 DEF Heir
    <3> QED
      BY <3>4 DEF Heirs
  <2>4. Lists(p, w)
    BY <2>1, <2>3, IdAtSlot DEF Lists
  <2>5. SUFFICES ASSUME NEW g \in Players, NEW q \in Players PROVE Sends(g, q)
    OBVIOUS
  <2>6. log \in [Players -> [Players -> Seq(Message)]]
    BY DEF Typed, SentOK
  <2>7. CASE g # p
    <3>1. log'[g][q] = log[g][q]
      BY <2>2, <2>6, <2>7
    <3> QED
      BY <3>1 DEF Sends, Lengthens
  <2>8. CASE g = p /\ q # w
    <3>1. log'[g][q] = l[q]
      BY <2>2, <2>6, <2>8
    <3> QED
      BY <1>2, <1>3, <2>8, <3>1, ScheduledTo DEF Sends, Lists
  <2>9. CASE g = p /\ q = w
    <3>1. log'[g][q] = Append(l[q], e)
      BY <2>2, <2>6, <2>9 DEF Scheduled
    <3>2. PICK k \in Seq(Message) : k = l[q]
      BY <1>2, ScheduledTo
    <3>3. /\ Lengthens(log[g][q], k)
          /\ \A i \in DOMAIN k \ DOMAIN log[g][q] : k[i] = x
      BY <1>2, <2>9, <3>2, ScheduledTo
    <3> HIDE DEF l, x, e
    <3>4. Lengthens(k, Append(k, e)) /\ \A i \in DOMAIN Append(k, e) \ DOMAIN k : Append(k, e)[i] = e
      BY <1>2, OneMore
    <3>5. log'[g][q] = Append(k, e)
      BY <3>1, <3>2
    <3>6. Sendable(g, q, x) /\ Sendable(g, q, e)
      BY <1>3, <2>4, <2>9
    <3>7. Lengthens(log[g][q], log'[g][q])
      BY <3>3, <3>4, <3>5 DEF Lengthens
    <3>8. \A i \in DOMAIN log'[g][q] \ DOMAIN log[g][q] : log'[g][q][i] = x \/ log'[g][q][i] = e
      BY <3>3, <3>4, <3>5 DEF Lengthens
    <3> QED
      BY <3>6, <3>7, <3>8 DEF Sends
  <2> QED
    BY <2>7, <2>8, <2>9
<1> QED
  BY <1>4, <1>5

\* The logs after a step that admits nobody.
LEMMA LogStep ==
  ASSUME Typed, NEW p \in Players, Step(p) \/ UNCHANGED vars
  PROVE  \A g, q \in Players : Sends(g, q)
<1>1. ASSUME NEW t \in Threads, Schedule(p, t) PROVE \A g, q \in Players : Sends(g, q)
  BY <1>1, ScheduleSends
<1>2. ASSUME log' = log PROVE \A g, q \in Players : Sends(g, q)
  BY <1>2 DEF Sends, Lengthens
<1> USE DEF hostVars, selfVars, readVars, history, told
<1>3. ASSUME \E h \in Players : AskToJoin(p, h) \/ AnswerAgain(h, p) \/ Destroy(h, p)
                          \/ HearNewHost(p, h)
      PROVE  log' = log
  BY <1>3 DEF AskToJoin, AnswerAgain, Destroy, HearNewHost
<1>4. ASSUME \E m \in net : Connect(p, m) \/ ReadBye(p, m) \/ TakeOver(p, m)
      PROVE  log' = log
  BY <1>4 DEF Connect, ReadBye, TakeOver
<1>5. ASSUME GiveUp(p) \/ StartLeaving(p) \/ TestAgain(p) \/ AskToLeave(p) \/ EndSession(p)
             \/ CloseSession(p) \/ ReadCount(p)
             \/ HearLeave(p) \/ (\E s \in Slots : Kick(p, s)) \/ UNCHANGED vars
      PROVE  log' = log
  BY ZenonT(60), <1>5 DEF GiveUp, StartLeaving, TestAgain, AskToLeave, EndSession, CloseSession,
        ReadCount, HearLeave, Kick, vars
<1>6. ASSUME Handle(p) PROVE log' = log
  BY ZenonT(60), <1>6 DEF Handle, HandleCreate, HandleList, HandleLeave, HandleNewHost
<1> QED
  BY <1>1, <1>2, <1>3, <1>4, <1>5, <1>6, ProclaimSends, HandOverSends DEF Step

\* No step but an admission gives an id out.
LEMMA GivenKept ==
  ASSUME NEW p \in Players, Step(p) \/ UNCHANGED vars
  PROVE  given' = given
<1>1. ASSUME NEW h \in Players, AskToJoin(p, h) \/ AnswerAgain(h, p) \/ Destroy(h, p)
                          \/ HearNewHost(p, h)
      PROVE  given' = given
  BY <1>1, MovingSteps, QuietSteps DEF Moves
<1>2. ASSUME NEW m \in net, Connect(p, m) \/ ReadBye(p, m) \/ TakeOver(p, m)
      PROVE  given' = given
  BY <1>2, MovingSteps, TakeOverStep DEF Moves
<1>3. ASSUME GiveUp(p) \/ StartLeaving(p) \/ TestAgain(p) \/ AskToLeave(p) \/ EndSession(p)
             \/ CloseSession(p) \/ ReadCount(p)
      PROVE  given' = given
  BY <1>3, MovingSteps DEF Moves
<1>4. ASSUME \/ \E s \in Slots : Kick(p, s)
             \/ \E t \in Threads : Schedule(p, t)
             \/ HearLeave(p) \/ Handle(p) \/ UNCHANGED vars
      PROVE  given' = given
  BY <1>4, QuietSteps
<1> QED
  BY <1>1, <1>2, <1>3, <1>4, HandOverStep, ProclaimStep DEF Step

\* The message that p handles next.
Now(p) == log[from[p]][p][next[p] + 1]

LEMMA NowType ==
  ASSUME Typed, NEW p \in Players, Handle(p)
  PROVE  /\ from[p] \in Players /\ next[p] + 1 \in DOMAIN log[from[p]][p]
         /\ Now(p) \in Message /\ Reading(p)
<1>1. Reading(p) /\ next[p] < Len(log[from[p]][p])
  BY DEF Handle
<1>2. from[p] \in Players /\ next[p] \in Nat
  BY <1>1 DEF Typed, TypeOK, SentOK
<1>3. PICK l \in Seq(Message) : l = log[from[p]][p]
  BY <1>2, LogType
<1>4. Len(l) \in Nat /\ DOMAIN l = 1..Len(l)
  BY LenProperties
<1>5. next[p] + 1 \in DOMAIN l
  BY <1>1, <1>2, <1>3, <1>4
<1>6. l[next[p] + 1] \in Message
  BY <1>5, ElementOfSeq, <1>4
<1> QED
  BY <1>1, <1>2, <1>3, <1>5, <1>6 DEF Now

\* What a message that is known shows, and that it fits the types.
KnownMessage(x) == Names(x) \subseteq given /\ (x.ty = "Leave" => x.id \in GivenIds)

LEMMA GivenTypes ==
  ASSUME Typed
  PROVE  /\ \A a \in given : a.slot \in Slots /\ a.n \in 0..MaxId /\ a.who \in Players
         /\ \A a \in given : IdOf(a) \in Id
         /\ GivenIds \subseteq Id /\ None \notin GivenIds
<1>1. \A a \in given : a.slot \in Slots /\ a.n \in 0..MaxId /\ a.who \in Players
  BY DEF Typed, TypeOK
<1>2. \A a \in given : IdOf(a) \in Id
  BY <1>1 DEF IdOf, Id
<1>3. None \notin Id
  BY NumbersAssumption DEF None, Id
<1> QED
  BY <1>1, <1>2, <1>3 DEF GivenIds

\* The fields of a message, by its kind.
LEMMA MessageParts ==
  ASSUME NEW x \in Message
  PROVE  /\ x.ty = "Create" => x.id \in AnyId /\ x.who \in Players /\ x.count \in Int
         /\ x.ty = "List" => x.part \in Parts /\ x.count \in Int
         /\ x.ty = "Leave" => x.id \in AnyId /\ x.count \in Int
         /\ x.ty = "NewHost" => x.id \in AnyId /\ x.who \in Players /\ x.count \in Int
BY DEF Message

LEMMA CreateNames ==
  ASSUME Typed, NEW x \in Message, x.ty = "Create", KnownMessage(x)
  PROVE  LET a == [slot |-> x.id.slot, n |-> x.id.n, who |-> x.who]
         IN /\ Names(x) = {a} /\ a \in given /\ IdOf(a) = x.id
            /\ x.id \in Id /\ x.id.slot \in Slots /\ x.id.n \in 0..MaxId /\ x.who \in Players
            /\ Shown(x) = {x.id}
<1> DEFINE a == [slot |-> x.id.slot, n |-> x.id.n, who |-> x.who]
<1>1. Names(x) = {a} /\ a \in given
  BY DEF Names, KnownMessage
<1>2. x.id.slot \in Slots /\ x.id.n \in 0..MaxId
  BY <1>1, GivenTypes
<1>3. x.id = [slot |-> x.id.slot, n |-> x.id.n]
  BY MessageParts DEF AnyId, Id, None
<1>4. IdOf(a) = x.id
  BY <1>3 DEF IdOf
<1> HIDE DEF a
<1>5. Shown(x) = {x.id}
  BY <1>1, <1>4 DEF Shown
<1>6. x.id \in Id
  BY <1>1, <1>4, GivenTypes
<1> QED
  BY <1>1, <1>2, <1>4, <1>5, <1>6, MessageParts DEF a

LEMMA ListNames ==
  ASSUME Typed, NEW x \in Message, x.ty = "List", KnownMessage(x)
  PROVE  /\ DOMAIN x.part \subseteq Slots
         /\ \A s \in DOMAIN x.part : Admission(x.part, s) \in Names(x) /\ x.part[s].n # -1
         /\ Names(x) = {Admission(x.part, s) : s \in DOMAIN x.part}
<1>1. Names(x) = {Admission(x.part, s) : s \in DOMAIN x.part}
  BY DEF Names
<1>2. ASSUME NEW s \in DOMAIN x.part PROVE x.part[s].n # -1
  <2>1. Admission(x.part, s) \in given
    BY <1>1 DEF KnownMessage
  <2>2. Admission(x.part, s).n \in 0..MaxId
    BY <2>1, GivenTypes
  <2> QED
    BY <2>2, NumbersAssumption DEF Admission
<1>3. DOMAIN x.part \subseteq Slots
  BY MessageParts DEF Parts
<1> QED
  BY <1>1, <1>2, <1>3

\* A message that is handled writes what it says to the list of p, or takes lines away.
LEMMA HandleWrites ==
  ASSUME Typed, NEW p \in Players, Handle(p), KnownMessage(Now(p))
  PROVE  /\ Admissions(list'[p]) \subseteq Admissions(list[p]) \cup Names(Now(p))
         /\ \A q \in Players \ {p} : list'[q] = list[q]
         /\ next' = [next EXCEPT ![p] = @ + 1]
         /\ UNCHANGED <<st, pend, me, host, closed, log, half, from, asked, taken, net, history>>
<1> USE DEF hostVars, selfVars, readVars, history, told
<1>1. PICK x \in Message : x = Now(p)
  BY NowType
<1>2. HandleCreate(p, x) \/ HandleList(p, x) \/ HandleLeave(p, x) \/ HandleNewHost(p, x)
  BY <1>1 DEF Handle, Now
<1>3. list \in [Players -> [Slots -> Line]] /\ list[p] \in [Slots -> Line]
  BY DEF Typed, TypeOK
<1>4. /\ next' = [next EXCEPT ![p] = @ + 1]
      /\ UNCHANGED <<st, pend, me, host, closed, log, half, from, asked, taken, net, history>>
  BY <1>2 DEF HandleCreate, HandleList, HandleLeave, HandleNewHost, Takes
<1>5. \A q \in Players \ {p} : list'[q] = list[q]
  BY <1>2, <1>3 DEF HandleCreate, HandleList, HandleLeave, HandleNewHost
<1>6. ASSUME HandleCreate(p, x)
      PROVE  Admissions(list'[p]) \subseteq Admissions(list[p]) \cup Names(x)
  <2>1. x.ty = "Create"
    BY <1>6 DEF HandleCreate, Takes
  <2>2. list'[p] = [list[p] EXCEPT ![x.id.slot] = [n |-> x.id.n, who |-> x.who, host |-> FALSE]]
    BY <1>3, <1>6 DEF HandleCreate
  <2>3. PICK a : /\ a = [slot |-> x.id.slot, n |-> x.id.n, who |-> x.who]
                 /\ Names(x) = {a} /\ x.id.slot \in Slots /\ x.id.n \in 0..MaxId
    BY <1>1, <2>1, CreateNames
  <2>4. Admissions(list'[p]) \subseteq Admissions(list[p]) \cup {a}
    BY ZenonT(60), <1>3, <2>2, <2>3, NewLine
  <2> QED
    BY <2>3, <2>4
<1>7. ASSUME HandleList(p, x)
      PROVE  Admissions(list'[p]) \subseteq Admissions(list[p]) \cup Names(x)
  <2>1. x.ty = "List"
    BY <1>7 DEF HandleList, Takes
  <2>2. list'[p] = [s \in Slots |-> IF s \in DOMAIN x.part THEN x.part[s] ELSE list[p][s]]
    BY <1>3, <1>7 DEF HandleList
  <2>3. \A s \in Slots : s \in DOMAIN x.part => Admission(list'[p], s) = Admission(x.part, s)
    BY <2>2 DEF Admission
  <2>4. \A s \in DOMAIN x.part : Admission(x.part, s) \in Names(x)
    BY <1>1, <2>1, ListNames
  <2>5. \A s \in Joined(list'[p]) : \/ s \in Joined(list[p]) /\ list'[p][s] = list[p][s]
                                    \/ Admission(list'[p], s) \in Names(x)
    BY <1>3, <2>2, <2>3, <2>4 DEF Joined
  <2> QED
    BY <2>5, ListFrom
<1>8. ASSUME HandleLeave(p, x)
      PROVE  Admissions(list'[p]) \subseteq Admissions(list[p]) \cup Names(x)
  <2>1. x.id.slot \in Slots
    BY <1>8, MessageParts, IdParts DEF HandleLeave, Takes
  <2>2. list'[p] = list[p] \/ list'[p] = [list[p] EXCEPT ![x.id.slot] = Free]
    BY <1>3, <1>8 DEF HandleLeave, Without
  <2> QED
    BY <1>3, <2>1, <2>2, FreeLine
<1>9. ASSUME HandleNewHost(p, x)
      PROVE  Admissions(list'[p]) \subseteq Admissions(list[p]) \cup Names(x)
  <2>1. \A s \in Slots : list'[p][s].n = list[p][s].n /\ list'[p][s].who = list[p][s].who
    BY <1>3, <1>9 DEF HandleNewHost, Line
  <2>2. \A s \in Joined(list'[p]) : s \in Joined(list[p]) /\ list'[p][s].n = list[p][s].n
                                      /\ list'[p][s].who = list[p][s].who
    BY <2>1 DEF Joined
  <2> QED
    BY <2>2, ListFrom
<1> QED
  BY <1>1, <1>2, <1>4, <1>5, <1>6, <1>7, <1>8, <1>9

\* Other steps take lines away, but for that in which p connects.
ListsShrink == \A q \in Players : Admissions(list'[q]) \subseteq Admissions(list[q])

LEMMA ListStep ==
  ASSUME Typed, NEW p \in Players, Step(p) \/ UNCHANGED vars, ~Handle(p)
  PROVE  ListsShrink \/ \E m \in net : Connect(p, m)
<1> USE DEF hostVars, selfVars, readVars, history, told
<1>1. list \in [Players -> [Slots -> Line]]
  BY DEF Typed, TypeOK
<1>2. ASSUME list' = list
      PROVE  ListsShrink
  BY ZenonT(60), <1>2 DEF ListsShrink
<1>3. ASSUME \/ \E h \in Players : AskToJoin(p, h) \/ AnswerAgain(h, p) \/ HearNewHost(p, h)
             \/ GiveUp(p) \/ StartLeaving(p) \/ TestAgain(p) \/ AskToLeave(p)
             \/ CloseSession(p) \/ ReadCount(p)
             \/ HearLeave(p) \/ HandOver(p) \/ Proclaim(p)
             \/ (\E t \in Threads : Schedule(p, t)) \/ UNCHANGED vars
      PROVE  list' = list
  BY ZenonT(60), <1>3 DEF AskToJoin, AnswerAgain, HearNewHost, GiveUp, StartLeaving, TestAgain,
        AskToLeave, CloseSession, ReadCount,
              HearLeave, HandOver, Proclaim, Schedule, vars
<1>4. ASSUME NEW h \in Players, Destroy(h, p)
      PROVE  ListsShrink
  <2>1. me[p].slot \in Slots
    BY IdParts DEF Typed, TypeOK, AnyId
  <2>2. list' = list \/ list' = [list EXCEPT ![h][me[p].slot] = Free]
    BY <1>4 DEF Destroy, Remove
  <2>3. \A q \in Players : list'[q] = list[q] \/ list'[q] = [list[q] EXCEPT ![me[p].slot] = Free]
    BY <1>1, <2>1, <2>2
  <2> QED
    BY <1>1, <2>1, <2>3, FreeLine DEF ListsShrink
<1>5. ASSUME NEW s \in Slots, Kick(p, s)
      PROVE  ListsShrink
  <2>1. list' = [list EXCEPT ![p][s] = Free]
    BY <1>5 DEF Kick, Remove
  <2>2. \A q \in Players : list'[q] = list[q] \/ list'[q] = [list[q] EXCEPT ![s] = Free]
    BY <1>1, <2>1
  <2> QED
    BY <1>1, <2>2, FreeLine DEF ListsShrink
<1>6. ASSUME NEW m \in net, ReadBye(p, m)
      PROVE  ListsShrink
  <2>1. m.id.slot \in Slots
    BY <1>6, IdParts DEF Typed, TypeOK, AnyId, ReadBye
  <2>2. list' = [list EXCEPT ![p] = Without(@, m.id)]
    BY <1>6 DEF ReadBye
  <2>3. \A q \in Players : list'[q] = list[q] \/ list'[q] = [list[q] EXCEPT ![m.id.slot] = Free]
    BY <1>1, <2>2 DEF Without
  <2> QED
    BY <1>1, <2>1, <2>3, FreeLine DEF ListsShrink
<1>7. ASSUME EndSession(p)
      PROVE  ListsShrink
  <2>1. \A q \in Players : list'[q] = list[q] \/ list'[q] = Empty
    BY <1>1, <1>7 DEF EndSession
  <2>2. Joined(Empty) = {}
    BY DEF Joined, Empty, Free
  <2>3. Admissions(Empty) = {}
    BY <2>2 DEF Admissions
  <2> QED
    BY <2>1, <2>3 DEF ListsShrink
<1>8. ASSUME NEW m \in net, TakeOver(p, m)
      PROVE  ListsShrink
  <2>1. \A q \in Players : list'[q] = list[q] \/ (q = p /\ list'[q] = Ousted(p, m))
    BY <1>1, <1>8 DEF TakeOver
  <2>2. \A s \in Joined(Ousted(p, m)) : s \in Joined(list[p])
            /\ Ousted(p, m)[s].n = list[p][s].n /\ Ousted(p, m)[s].who = list[p][s].who
    <3>1. \A s \in Slots : Ousted(p, m)[s] = Free \/
            (Ousted(p, m)[s].n = list[p][s].n /\ Ousted(p, m)[s].who = list[p][s].who)
      BY <1>1 DEF Ousted, Line
    <3> QED
      BY <3>1 DEF Joined, Free
  <2>3. Admissions(Ousted(p, m)) \subseteq Admissions(list[p])
    BY <2>2, ListFrom
  <2> QED
    BY <2>1, <2>3 DEF ListsShrink
<1>9. ASSUME \E h \in Players : AskToJoin(p, h) \/ AnswerAgain(h, p) \/ Destroy(h, p)
                          \/ HearNewHost(p, h)
      PROVE  ListsShrink
  BY <1>2, <1>3, <1>4, <1>9
<1>10. ASSUME \E m \in net : ReadBye(p, m) \/ TakeOver(p, m) PROVE ListsShrink
  BY <1>6, <1>8, <1>10
<1> QED
  BY <1>2, <1>3, <1>4, <1>5, <1>6, <1>7, <1>8, <1>9, <1>10 DEF Step

LEMMA ConnectWrites ==
  ASSUME Typed, NEW p \in Players, NEW m \in net, Connect(p, m)
  PROVE  LET a == [slot |-> m.id.slot, n |-> m.id.n, who |-> p]
         IN /\ m.ty = "Added" /\ m.to = p /\ m.id \in Id
            /\ IdOf(a) = m.id
            /\ Admissions(list'[p]) \subseteq Admissions(list[p]) \cup {a}
            /\ \A q \in Players \ {p} : list'[q] = list[q]
<1>1. m.ty = "Added" /\ m.to = p
  BY DEF Connect
<1>2. m \in [ty : {"Added"}, to : Players, from : Players, id : Id, count : Int]
  <2>1. m \in Datagram
    BY DEF Typed, SentOK
  <2> QED
    BY <1>1, <2>1 DEF Datagram, Migrates
<1>3. m.id \in Id /\ m.id.slot \in Slots /\ m.id.n \in 0..MaxId
      /\ m.id = [slot |-> m.id.slot, n |-> m.id.n]
  BY <1>2 DEF Id
<1>4. list \in [Players -> [Slots -> Line]]
  BY DEF Typed, TypeOK
<1>5. list' = [list EXCEPT ![p][m.id.slot] = [n |-> m.id.n, who |-> p, host |-> FALSE]]
  BY DEF Connect
<1>6. /\ list'[p] = [list[p] EXCEPT ![m.id.slot] = [n |-> m.id.n, who |-> p, host |-> FALSE]]
      /\ \A q \in Players \ {p} : list'[q] = list[q]
  BY <1>4, <1>5
<1> DEFINE a == [slot |-> m.id.slot, n |-> m.id.n, who |-> p]
<1>7. IdOf(a) = m.id
  BY <1>3 DEF IdOf
<1>8. Admissions(list'[p]) \subseteq Admissions(list[p]) \cup {a}
  BY <1>3, <1>4, <1>6, NewLine
<1> QED
  BY <1>1, <1>3, <1>6, <1>7, <1>8

-----------------------------------------------------------------------------
(* The types of what Typed leaves out *)

Kept ==
  /\ gone \in [Players -> SUBSET AnyId]
  /\ taken \in [Players -> [Players -> Nat]]
  /\ asked \in [Players -> Players \cup {NoPlayer}]
  /\ begged \in [Players -> Players \cup {NoPlayer}]

LEMMA KeptInit == Init => Kept
BY DEF Init, Kept

LEMMA KeptStep ==
  ASSUME Typed, Kept, [Next]_vars
  PROVE  Kept'
<1> USE DEF hostVars, selfVars, readVars, history, told
<1>1. ASSUME UNCHANGED <<gone, taken, asked, begged>> PROVE Kept'
  BY <1>1 DEF Kept
<1>2. ASSUME NEW p \in Players, NEW h \in Players,
             AnswerAgain(h, p) \/ Admit(h, p) \/ Destroy(h, p)
      PROVE  Kept'
  BY <1>1, <1>2 DEF AnswerAgain, Admit, Destroy
<1>3. ASSUME NEW p \in Players, NEW m \in net, Connect(p, m) PROVE Kept'
  BY ZenonT(60), <1>1, <1>3 DEF Connect
<1>4. ASSUME NEW p \in Players,
             \/ GiveUp(p) \/ EndSession(p) \/ CloseSession(p) \/ ReadCount(p) \/ HandOver(p)
             \/ Proclaim(p) \/ HearLeave(p) \/ \E s \in Slots : Kick(p, s)
      PROVE  Kept'
  BY ZenonT(60), <1>1, <1>4 DEF GiveUp, EndSession, CloseSession, ReadCount, HandOver, Proclaim, HearLeave,
                    Kick
<1>5. ASSUME NEW p \in Players, NEW h \in Players, AskToJoin(p, h) \/ StartLeaving(p)
             \/ TestAgain(p) \/ AskToLeave(p)
      PROVE  Kept'
  <2>1. hostOf[p] \in Players \cup {NoPlayer}
    BY DEF Typed, TypeOK
  <2> QED
    BY <1>5, <2>1 DEF AskToJoin, StartLeaving, TestAgain, AskToLeave, Kept
<1>6. ASSUME NEW p \in Players, NEW h \in Players, HearNewHost(p, h) PROVE Kept'
  BY <1>6 DEF HearNewHost, Kept
<1>7. ASSUME NEW p \in Players, NEW id \in AnyId,
             UNCHANGED <<taken, asked, begged>>, gone' = gone \/ Tell(p, id)
      PROVE  Kept'
  BY <1>7 DEF Kept, Tell
<1>8. ASSUME NEW p \in Players, NEW t \in Threads, Schedule(p, t) PROVE Kept'
  <2>1. pend[p][t] \in AnyId
    BY DEF Typed, TypeOK, AnyId
  <2> QED
    BY <1>7, <1>8, <2>1 DEF Schedule
<1>9. ASSUME NEW p \in Players, NEW m \in net, ReadBye(p, m) PROVE Kept'
  <2>1. m.id \in AnyId
    BY <1>9 DEF ReadBye, Typed, TypeOK, AnyId
  <2> QED
    BY <1>7, <1>9, <2>1 DEF ReadBye
<1>10. ASSUME NEW p \in Players, NEW m \in net, TakeOver(p, m) PROVE Kept'
  <2>1. m.old \in AnyId
    BY ZenonT(60), <1>10 DEF TakeOver, Typed, SentOK, Datagram, Migrates
  <2> QED
    BY <1>7, <1>10, <2>1 DEF TakeOver
<1>11. ASSUME NEW p \in Players, Handle(p) PROVE Kept'
  <2>1. again'[p] \in AnyId
    <3>1. again \in [Players -> AnyId]
      BY DEF Typed, TypeOK, AnyId
    <3>2. Now(p) \in Message
      BY <1>11, NowType
    <3> QED
      BY ZenonT(60), <1>11, <3>1, <3>2, MessageParts
      DEF Handle, HandleCreate, HandleList, HandleLeave, HandleNewHost, Takes, Now
  <2> QED
    BY ZenonT(60), <1>7, <1>11, <2>1 DEF Handle, HandleCreate, HandleList, HandleLeave, HandleNewHost
<1>12. CASE UNCHANGED vars
  BY <1>1, <1>12 DEF vars
<1>13. ASSUME NEW p \in Players, Step(p) PROVE Kept'
  BY <1>2, <1>3, <1>4, <1>5, <1>6, <1>8, <1>9, <1>10, <1>11, <1>13 DEF Step
<1> QED
  BY <1>2, <1>12, <1>13, StepsOrAdmits

-----------------------------------------------------------------------------
(* Every id that is listed, sent or told of was given out *)

KnownList(p) == Admissions(list[p]) \subseteq given
KnownPlayer(p) ==
  /\ \A t \in Threads : pend[p][t] \in GivenIds \cup {None}
  /\ gone[p] \subseteq GivenIds /\ again[p] \in gone[p] \cup {None}
  /\ st[p] \notin {"idle", "joining", "over"} \/ begged[p] \in Players => me[p] \in GivenIds
  /\ st[p] = "idle" => asked[p] = NoPlayer
KnownDatagram(m) ==
  /\ m.ty = "Added" => /\ [slot |-> m.id.slot, n |-> m.id.n, who |-> m.to] \in given
                       /\ asked[m.to] = m.from
  /\ m.ty = "Migrate" => m.old \in GivenIds
KnownLogs == \A h, p \in Players : \A i \in DOMAIN log[h][p] : KnownMessage(log[h][p][i])

Known ==
  /\ \A p \in Players : KnownList(p) /\ KnownPlayer(p)
  /\ KnownLogs
  /\ \A m \in net : KnownDatagram(m)

LEMMA KnownListsStep ==
  ASSUME Typed, Known, NEW p \in Players, Step(p) \/ UNCHANGED vars
  PROVE  \A q \in Players : KnownList(q)'
<1>1. given' = given
  BY GivenKept
<1>2. CASE Handle(p)
  <2>1. KnownMessage(Now(p))
    BY <1>2, NowType DEF Known, KnownLogs, Now
  <2>2. Admissions(list'[p]) \subseteq Admissions(list[p]) \cup Names(Now(p))
        /\ \A q \in Players \ {p} : list'[q] = list[q]
    BY <1>2, <2>1, HandleWrites
  <2> QED
    BY <1>1, <2>1, <2>2 DEF Known, KnownList, KnownMessage
<1>3. ASSUME NEW m \in net, Connect(p, m) PROVE \A q \in Players : KnownList(q)'
  <2>1. [slot |-> m.id.slot, n |-> m.id.n, who |-> p] \in given
    BY <1>3, ConnectWrites DEF Known, KnownDatagram
  <2> QED
    BY <1>1, <1>3, <2>1, ConnectWrites DEF Known, KnownList
<1>4. CASE ~Handle(p) /\ ~\E m \in net : Connect(p, m)
  BY <1>1, <1>4, ListStep DEF Known, KnownList, ListsShrink
<1> QED
  BY <1>2, <1>3, <1>4

LEMMA KnownLogsStep ==
  ASSUME Typed, Known, NEW p \in Players, Step(p) \/ UNCHANGED vars
  PROVE  KnownLogs'
<1>1. given' = given /\ GivenIds' = GivenIds
  BY GivenKept DEF GivenIds
<1>2. SUFFICES ASSUME NEW h \in Players, NEW q \in Players, NEW i \in DOMAIN log'[h][q]
               PROVE  KnownMessage(log'[h][q][i])
  BY <1>1 DEF KnownLogs, KnownMessage
<1>3. Sends(h, q)
  BY LogStep
<1>4. CASE i \in DOMAIN log[h][q]
  BY <1>3, <1>4 DEF Sends, Lengthens, Known, KnownLogs
<1>5. CASE i \notin DOMAIN log[h][q]
  <2>1. PICK x : x = log'[h][q][i]
    OBVIOUS
  <2>2. Sendable(h, q, x)
    BY <1>3, <1>5, <2>1 DEF Sends
  <2>3. Names(x) = {}
    BY <2>2 DEF Names, Sendable
  <2>4. x.ty = "Leave" => x.id \in GivenIds
    BY <2>2 DEF Sendable, Known, KnownPlayer
  <2> QED
    BY <2>1, <2>3, <2>4 DEF KnownMessage
<1> QED
  BY <1>4, <1>5

LEMMA KnownPlayersStep ==
  ASSUME Typed, Kept, Known, NEW p \in Players, Step(p) \/ UNCHANGED vars
  PROVE  \A q \in Players : KnownPlayer(q)'
<1> USE DEF hostVars, selfVars, readVars, history, told
<1>1. given' = given /\ GivenIds' = GivenIds
  BY GivenKept DEF GivenIds
<1>2. \A q \in Players : KnownPlayer(q) /\ KnownList(q)
  BY DEF Known
<1>3. /\ pend \in [Players -> [Threads -> AnyId]] /\ me \in [Players -> AnyId]
      /\ st \in [Players -> {"idle", "joining", "in", "going", "asking", "leaving",
                             "closing", "counting", "handing", "left", "over"}]
      /\ again \in [Players -> AnyId] /\ gone \in [Players -> SUBSET AnyId]
      /\ DOMAIN st = Players
  BY DEF Typed, TypeOK, AnyId, Kept
<1>4. ASSUME UNCHANGED <<pend, gone, again, me, begged, asked>>,
             \A q \in Players : st'[q] = st[q] \/ (st[q] # "idle" /\ st'[q] = "over")
      PROVE  \A q \in Players : KnownPlayer(q)'
  BY <1>1, <1>2, <1>4 DEF KnownPlayer
<1>5. ASSUME \/ \E h \in Players : AnswerAgain(h, p) \/ HearNewHost(p, h)
             \/ GiveUp(p) \/ EndSession(p) \/ HearLeave(p) \/ Proclaim(p) \/ UNCHANGED vars
      PROVE  \A q \in Players : KnownPlayer(q)'
  <2>1. UNCHANGED <<pend, gone, again, me, begged, asked>>
    BY <1>5 DEF AnswerAgain, HearNewHost, GiveUp, EndSession, HearLeave, Proclaim, vars
  <2>2. \A q \in Players : st'[q] = st[q] \/ (st[q] # "idle" /\ st'[q] = "over")
    BY <1>3, <1>5 DEF AnswerAgain, HearNewHost, GiveUp, EndSession, HearLeave, Proclaim, vars
  <2> QED
    BY <1>4, <2>1, <2>2
<1>6. ASSUME CloseSession(p) \/ ReadCount(p) \/ HandOver(p)
      PROVE  \A q \in Players : KnownPlayer(q)'
  <2>1. UNCHANGED <<pend, gone, again, me, begged, asked>>
    BY ZenonT(60), <1>6 DEF CloseSession, ReadCount, HandOver
  <2>2. \A q \in Players : st'[q] = st[q] \/
           (st[q] \notin {"idle", "joining", "over"} /\ st'[q] # "idle")
    BY <1>3, <1>6 DEF CloseSession, ReadCount, HandOver
  <2> QED
    BY ZenonT(60), <1>1, <1>2, <2>1, <2>2 DEF KnownPlayer
<1>7. ASSUME NEW h \in Players, AskToJoin(p, h) PROVE \A q \in Players : KnownPlayer(q)'
  BY <1>1, <1>2, <1>3, <1>7 DEF AskToJoin, KnownPlayer
<1>8. ASSUME StartLeaving(p) \/ TestAgain(p) \/ AskToLeave(p)
      PROVE  \A q \in Players : KnownPlayer(q)'
  <2>1. UNCHANGED <<pend, gone, again, me, asked>> /\ st[p] \notin {"idle", "joining", "over"}
        /\ st'[p] # "idle"
        /\ \A q \in Players \ {p} : st'[q] = st[q] /\ (begged'[q] \in Players => begged[q] \in Players)
    <3>1. CASE StartLeaving(p)
      BY <1>3, <3>1 DEF StartLeaving, Typed, TypeOK
    <3>2. CASE TestAgain(p)
      BY <1>3, <3>2 DEF TestAgain, Typed, TypeOK
    <3>3. CASE AskToLeave(p)
      BY <1>3, <3>3 DEF AskToLeave, Typed, TypeOK
    <3> QED
      BY <1>8, <3>1, <3>2, <3>3
  <2> QED
    BY <1>1, <1>2, <2>1 DEF KnownPlayer
<1>9. ASSUME NEW h \in Players, Destroy(h, p) PROVE \A q \in Players : KnownPlayer(q)'
  <2>1. UNCHANGED <<st, gone, again, me, begged, asked>> /\ begged[p] = h
    BY <1>9 DEF Destroy
  <2>2. pend' = pend \/ (Has(list[h], me[p]) /\ pend' = [pend EXCEPT ![h]["read"] = IdAt(list[h], me[p].slot)])
    BY <1>9 DEF Destroy, Remove
  <2>3. Has(list[h], me[p]) => IdAt(list[h], me[p].slot) = me[p]
    <3>1. me[p] \in Id
      BY <1>2, <2>1, GivenTypes DEF KnownPlayer
    <3> QED
      BY <3>1 DEF Id, Has, IdAt
  <2>4. me[p] \in GivenIds
    BY <1>2, <2>1 DEF KnownPlayer
  <2>5. \A q \in Players, t \in Threads : pend'[q][t] \in GivenIds \cup {None}
    BY SMTT(40), <1>2, <1>3, <2>2, <2>3, <2>4 DEF KnownPlayer
  <2> QED
    BY <1>1, <1>2, <2>1, <2>5 DEF KnownPlayer
<1>10. ASSUME NEW s \in Slots, Kick(p, s) PROVE \A q \in Players : KnownPlayer(q)'
  <2>1. UNCHANGED <<st, gone, again, me, begged, asked>> /\ s \in Joined(list[p])
        /\ pend' = [pend EXCEPT ![p]["game"] = IdAt(list[p], s)]
    BY <1>10 DEF Kick, Remove
  <2>2. IdAt(list[p], s) \in Ids(list[p]) /\ Ids(list[p]) \subseteq GivenIds
    BY <1>2, <2>1, IdAtSlot DEF KnownList, Ids, GivenIds
  <2>3. \A q \in Players, t \in Threads : pend'[q][t] \in GivenIds \cup {None}
    BY <1>2, <1>3, <2>1, <2>2 DEF KnownPlayer
  <2> QED
    BY <1>1, <1>2, <2>1, <2>3 DEF KnownPlayer
<1>11. ASSUME NEW t \in Threads, Schedule(p, t) PROVE \A q \in Players : KnownPlayer(q)'
  <2>1. /\ UNCHANGED <<st, again, me, begged, asked>> /\ pend[p][t] # None
        /\ pend' = [pend EXCEPT ![p][t] = None]
        /\ gone' = [gone EXCEPT ![p] = @ \cup {pend[p][t]}]
    BY <1>11 DEF Schedule, Tell
  <2>2. \A q \in Players, u \in Threads : pend'[q][u] \in GivenIds \cup {None}
    BY <1>2, <1>3, <2>1 DEF KnownPlayer
  <2>3. \A q \in Players : gone'[q] \subseteq GivenIds /\ again'[q] \in gone'[q] \cup {None}
    BY <1>2, <1>3, <2>1 DEF KnownPlayer
  <2> QED
    BY <1>1, <1>2, <2>1, <2>2, <2>3 DEF KnownPlayer
<1>12. ASSUME NEW m \in net, Connect(p, m) PROVE \A q \in Players : KnownPlayer(q)'
  <2>1. /\ UNCHANGED <<pend, gone, again, begged, asked>>
        /\ me' = [me EXCEPT ![p] = m.id] /\ st' = [st EXCEPT ![p] = "in"]
    BY <1>12 DEF Connect
  <2>2. PICK a \in given : m.id = IdOf(a)
    BY ZenonT(60), <1>12, ConnectWrites DEF Known, KnownDatagram
  <2>3. m.id \in GivenIds
    BY <2>2 DEF GivenIds
  <2>4. st'[p] = "in" /\ me'[p] \in GivenIds
        /\ \A q \in Players \ {p} : st'[q] = st[q] /\ me'[q] = me[q]
    BY <1>3, <2>1, <2>3
  <2> QED
    BY <1>1, <1>2, <2>1, <2>4 DEF KnownPlayer
<1>13. ASSUME NEW m \in net, ReadBye(p, m) PROVE \A q \in Players : KnownPlayer(q)'
  <2>1. /\ UNCHANGED <<pend, again, begged, asked, me>>
        /\ gone' = [gone EXCEPT ![p] = @ \cup {m.id}] /\ st' = [st EXCEPT ![p] = "left"]
        /\ m.id = me[p] /\ Reading(p)
    BY <1>13 DEF ReadBye, Hears, Tell
  <2>2. m.id \in GivenIds
    BY <1>2, <2>1 DEF KnownPlayer, Reading
  <2>3. \A q \in Players : gone'[q] \subseteq GivenIds /\ again'[q] \in gone'[q] \cup {None}
    BY <1>2, <1>3, <2>1, <2>2 DEF KnownPlayer
  <2>4. \A q \in Players : st'[q] = st[q] \/ (q = p /\ st'[q] = "left")
    BY <1>3, <2>1
  <2> QED
    BY <1>1, <1>2, <2>1, <2>2, <2>3, <2>4 DEF KnownPlayer
<1>14. ASSUME NEW m \in net, TakeOver(p, m) PROVE \A q \in Players : KnownPlayer(q)'
  <2>1. /\ UNCHANGED <<st, pend, again, begged, asked, me>>
        /\ gone' = [gone EXCEPT ![p] = @ \cup {m.old}] \/ gone' = gone
        /\ m.ty = "Migrate"
    BY <1>14 DEF TakeOver, Tell
  <2>2. m.old \in GivenIds
    BY <2>1 DEF Known, KnownDatagram
  <2>3. \A q \in Players : gone'[q] \subseteq GivenIds /\ again'[q] \in gone'[q] \cup {None}
    BY <1>2, <1>3, <2>1, <2>2 DEF KnownPlayer
  <2> QED
    BY <1>1, <1>2, <2>1, <2>3 DEF KnownPlayer
<1>15. ASSUME Handle(p) PROVE \A q \in Players : KnownPlayer(q)'
  <2>1. PICK x : x = Now(p)
    OBVIOUS
  <2>2. KnownMessage(x)
    BY ZenonT(60), <1>15, <2>1, NowType DEF Known, KnownLogs, Now
  <2>3. UNCHANGED <<st, pend, begged, asked, me>>
    BY ZenonT(60), <1>15 DEF Handle, HandleCreate, HandleList, HandleLeave, HandleNewHost
  <2>4. \/ UNCHANGED <<gone, again>>
        \/ HandleLeave(p, x)
    BY ZenonT(60), <1>15, <2>1 DEF Handle, HandleCreate, HandleList, HandleNewHost, Now
  <2>5. ASSUME HandleLeave(p, x)
        PROVE  \A q \in Players : gone'[q] \subseteq GivenIds /\ again'[q] \in gone'[q] \cup {None}
    <3>1. x.ty = "Leave" /\ x.id \in GivenIds
      BY <2>2, <2>5 DEF KnownMessage, HandleLeave, Takes
    <3>2. /\ \A q \in Players \ {p} : again'[q] = again[q]
          /\ again'[p] \in {again[p], x.id}
      BY <1>3, <2>5 DEF HandleLeave
    <3>3. gone' = IF again'[p] # None THEN [gone EXCEPT ![p] = @ \cup {again'[p]}] ELSE gone
      BY <2>5 DEF HandleLeave, Tell
    <3> QED
      BY <1>2, <1>3, <3>1, <3>2, <3>3 DEF KnownPlayer
  <2> QED
    BY <1>1, <1>2, <2>3, <2>4, <2>5 DEF KnownPlayer
<1> QED
  BY <1>5, <1>6, <1>7, <1>8, <1>9, <1>10, <1>11, <1>12, <1>13, <1>14, <1>15 DEF Step

LEMMA KnownNetStep ==
  ASSUME Typed, Kept, Known, NEW p \in Players, Step(p) \/ UNCHANGED vars
  PROVE  \A m \in net' : KnownDatagram(m)'
<1> USE DEF hostVars, selfVars, readVars, history, told
<1>1. given' = given /\ GivenIds' = GivenIds
  BY GivenKept DEF GivenIds
<1>2. \A m \in net : KnownDatagram(m)
  BY DEF Known
<1>3. ASSUME UNCHANGED <<net, asked>> PROVE \A m \in net' : KnownDatagram(m)'
  BY ZenonT(60), <1>1, <1>2, <1>3 DEF KnownDatagram
<1>4. ASSUME NEW h \in Players, AskToJoin(p, h) PROVE \A m \in net' : KnownDatagram(m)'
  <2>1. asked[p] = NoPlayer /\ asked' = [asked EXCEPT ![p] = h] /\ net' = net
    BY <1>4 DEF AskToJoin, Known, KnownPlayer
  <2>2. \A m \in net : m.ty = "Added" => m.to \in Players /\ m.from \in Players
    BY DEF Typed, SentOK, Datagram, Migrates
  <2>3. \A m \in net : m.ty = "Added" => asked'[m.to] = asked[m.to]
    BY <1>2, <2>1, <2>2, PlayersAssumption DEF KnownDatagram, Kept
  <2> QED
    BY ZenonT(60), <1>1, <1>2, <2>1, <2>3 DEF KnownDatagram
<1>5. ASSUME NEW h \in Players, AnswerAgain(h, p) PROVE \A m \in net' : KnownDatagram(m)'
  <2>1. PICK s \in Listed(h, p) : net' = net \cup {Added(h, p, s, list[h], count[h])}
    BY <1>5 DEF AnswerAgain
  <2>2. asked' = asked /\ asked[p] = h
    BY <1>5 DEF AnswerAgain
  <2>3. s \in Joined(list[h]) /\ list[h][s].who = p
    BY <2>1 DEF Listed
  <2>4. Admission(list[h], s) \in given
    BY <2>3, IdAtSlot DEF Known, KnownList
  <2>5. LET m == Added(h, p, s, list[h], count[h])
        IN m.ty = "Added" /\ [slot |-> m.id.slot, n |-> m.id.n, who |-> m.to] = Admission(list[h], s)
             /\ m.to = p /\ m.from = h
    BY <2>3 DEF Added, IdAt, Admission
  <2> QED
    BY ZenonT(60), <1>1, <1>2, <2>1, <2>2, <2>4, <2>5 DEF KnownDatagram
<1>6. ASSUME NEW h \in Players, Destroy(h, p) PROVE \A m \in net' : KnownDatagram(m)'
  <2>1. asked' = asked /\ (net' = net \/ net' = net \cup {Bye(p, me[p])})
    BY <1>6 DEF Destroy
  <2>2. Bye(p, me[p]).ty = "Leave"
    BY DEF Bye
  <2> QED
    BY ZenonT(60), <1>1, <1>2, <2>1, <2>2 DEF KnownDatagram
<1>7. ASSUME NEW t \in Threads, Schedule(p, t) PROVE \A m \in net' : KnownDatagram(m)'
  <2>1. asked' = asked
    BY <1>7 DEF Schedule
  <2>2. \A m \in net' : m \in net \/ m.ty = "Leave"
    BY <1>7 DEF Schedule, Bye
  <2> QED
    BY ZenonT(60), <1>1, <1>2, <2>1, <2>2 DEF KnownDatagram
<1>8. ASSUME HandOver(p) PROVE \A m \in net' : KnownDatagram(m)'
  <2>1. asked' = asked /\ st[p] = "counting"
    BY <1>8 DEF HandOver
  <2>2. \A m \in net' : m \in net \/ (m.ty = "Migrate" /\ m.old = me[p])
    <3>1. CASE Heirs(p) = {}
      BY <1>8, <3>1 DEF HandOver
    <3>2. CASE Heirs(p) # {}
      <4>1. PICK m : m.ty = "Migrate" /\ m.old = me[p] /\ net' = net \cup {m}
        BY <1>8, <3>2 DEF HandOver
      <4> QED
        BY <4>1
    <3> QED
      BY <3>1, <3>2
  <2>3. me[p] \in GivenIds
    BY <2>1 DEF Known, KnownPlayer
  <2> QED
    BY ZenonT(60), <1>1, <1>2, <2>1, <2>2, <2>3 DEF KnownDatagram
<1>9. ASSUME \E m \in net : Connect(p, m) \/ ReadBye(p, m) \/ TakeOver(p, m)
      PROVE  \A m \in net' : KnownDatagram(m)'
  BY <1>3, <1>9 DEF Connect, ReadBye, TakeOver
<1>10. ASSUME \/ \E h \in Players : HearNewHost(p, h)
              \/ GiveUp(p) \/ StartLeaving(p) \/ TestAgain(p) \/ AskToLeave(p)
              \/ EndSession(p) \/ CloseSession(p) \/ ReadCount(p)
              \/ HearLeave(p) \/ (\E s \in Slots : Kick(p, s)) \/ Proclaim(p) \/ UNCHANGED vars
       PROVE  \A m \in net' : KnownDatagram(m)'
  BY ZenonT(60), <1>3, <1>10 DEF HearNewHost, GiveUp, StartLeaving, TestAgain, AskToLeave,
        EndSession, CloseSession, ReadCount,
                     HearLeave, Kick, Proclaim, vars
<1>11. ASSUME Handle(p) PROVE \A m \in net' : KnownDatagram(m)'
  BY ZenonT(60), <1>3, <1>11 DEF Handle, HandleCreate, HandleList, HandleLeave, HandleNewHost
<1> QED
  BY <1>4, <1>5, <1>6, <1>7, <1>8, <1>9, <1>10, <1>11 DEF Step

LEMMA KnownStep ==
  ASSUME Typed, Kept, Known, NEW p \in Players, Step(p) \/ UNCHANGED vars
  PROVE  Known'
BY KnownListsStep, KnownLogsStep, KnownPlayersStep, KnownNetStep DEF Known

-----------------------------------------------------------------------------
(* What an admission writes *)

\* Host h admits p, which is told by a list, and the others by a Create.
TellsNew(h, q, a) ==
  /\ Lengthens(log[h][q], log'[h][q])
  /\ \A i \in DOMAIN log'[h][q] \ DOMAIN log[h][q] :
       /\ log'[h][q][i].ty = "Create" /\ log'[h][q][i].who = a.who
       /\ Names(log'[h][q][i]) = {a}
       /\ Lists(h, q)
TellsAll(h, p) ==
  \A i \in DOMAIN log'[h][p] :
    /\ log'[h][p][i].ty = "List"
    /\ Names(log'[h][p][i]) \subseteq Admissions(list'[h])
Admits(h, p, a) ==
  /\ a \in [slot : Slots, n : 0..MaxId, who : Players]
  /\ a.n = last[h] + 1 /\ a.who = p
  /\ given' = given \cup {a}
  /\ Admissions(list'[h]) = Admissions(list[h]) \cup {a}
  /\ \A q \in Players \ {h} : list'[q] = list[q]
  /\ \A g \in Players \ {h}, q \in Players : log'[g][q] = log[g][q]
  /\ \A q \in Players \ {p} : TellsNew(h, q, a)
  /\ TellsAll(h, p)
  /\ \E m : /\ m.ty = "Added" /\ m.to = p /\ m.from = h /\ m.id = IdOf(a)
            /\ net' = net \cup {m}

\* The packets of a list show players of that list.
LEMMA PacketsShow ==
  ASSUME NEW l \in [Slots -> Line], NEW c, NEW i \in DOMAIN ListPackets(l, c),
         NEW x, x = ListPackets(l, c)[i]
  PROVE  x.ty = "List" /\ Names(x) \subseteq Admissions(l)
<1>1. x = [ty |-> "List", part |-> [s \in Part(l, i) |-> l[s]], count |-> c]
  BY DEF ListPackets
<1>2. Part(l, i) \subseteq Joined(l)
  BY InOrderPlaces DEF Part
<1>3. Names(x) = {Admission(x.part, s) : s \in Part(l, i)}
  BY <1>1 DEF Names
<1>4. \A s \in Part(l, i) : Admission(x.part, s) = Admission(l, s)
  BY <1>1 DEF Admission
<1> QED
  BY <1>1, <1>2, <1>3, <1>4 DEF Admissions

LEMMA AdmitWrites ==
  ASSUME Typed, NEW h \in Players, NEW p \in Players, Admit(h, p)
  PROVE  \E a : Admits(h, p, a)
<1>1. PICK s \in Slots \ Joined(list[h]) :
        LET n == NextNumber(h)
            l == [list[h] EXCEPT ![s] = [n |-> n, who |-> p, host |-> FALSE]]
            c == count[h] + 1
            create == [ty |-> "Create", id |-> IdAt(l, s), who |-> p, count |-> c]
        IN /\ list' = [list EXCEPT ![h] = l]
           /\ log' = [log EXCEPT ![h] =
                [Scheduled(h, list[h], create) EXCEPT ![p] = ListPackets(l, c)]]
           /\ net' = net \cup {Added(h, p, s, l, c)}
           /\ given' = given \cup {[slot |-> s, n |-> n, who |-> p]}
  BY DEF Admit
<1>2. PICK n, l, c, x :
        /\ n = last[h] + 1 /\ l = [list[h] EXCEPT ![s] = [n |-> n, who |-> p, host |-> FALSE]]
        /\ c = count[h] + 1
        /\ x = [ty |-> "Create", id |-> IdAt(l, s), who |-> p, count |-> c]
        /\ list' = [list EXCEPT ![h] = l]
        /\ log' = [log EXCEPT ![h] = [Scheduled(h, list[h], x) EXCEPT ![p] = ListPackets(l, c)]]
        /\ net' = net \cup {Added(h, p, s, l, c)}
        /\ given' = given \cup {[slot |-> s, n |-> n, who |-> p]}
  BY <1>1 DEF NextNumber
<1>3. n \in 0..MaxId /\ c \in Int
  <2>1. last[h] \in 0..MaxId /\ last[h] < MaxId /\ count[h] \in Int
    BY DEF Admit, Typed, TypeOK
  <2> QED
    BY <1>2, <2>1, NumbersAssumption
<1>4. list \in [Players -> [Slots -> Line]] /\ list[h] \in [Slots -> Line]
      /\ log \in [Players -> [Players -> Seq(Message)]]
  BY DEF Typed, TypeOK, SentOK
<1>5. l \in [Slots -> Line]
  <2>1. n \in -1..MaxId
    BY <1>3
  <2> QED
    BY <1>2, <1>4, <2>1, ListType
<1>6. PICK a : a = [slot |-> s, n |-> n, who |-> p]
  OBVIOUS
<1>7. Admissions(l) = Admissions(list[h]) \cup {a} /\ IdAt(l, s) = [slot |-> s, n |-> n]
      /\ IdOf(a) = IdAt(l, s)
  <2>1. PICK k \in [Slots -> Line] : k = list[h]
    BY <1>4
  <2>2. s \in Slots /\ s \notin Joined(k)
    BY <2>1
  <2>3. l = [k EXCEPT ![s] = [n |-> n, who |-> p, host |-> FALSE]]
    BY <1>2, <2>1
  <2>4. Admissions(l) = Admissions(k) \cup {a} /\ IdAt(l, s) = [slot |-> s, n |-> n]
        /\ IdOf(a) = IdAt(l, s)
    BY SMTT(40), <1>3, <1>6, <2>1, <2>2, <2>3, NewLine
  <2> QED
    BY <2>1, <2>4
<1>8. list'[h] = l /\ \A q \in Players \ {h} : list'[q] = list[q]
  BY <1>2, <1>4
<1>9. x \in Message /\ x.ty = "Create" /\ x.who = p /\ Names(x) = {a}
  <2>1. IdAt(l, s) \in AnyId
    BY <1>3, <1>7 DEF AnyId, Id
  <2>2. x \in Message
    BY <1>2, <1>3, <2>1 DEF Message
  <2>3. Names(x) = {a}
    BY <1>2, <1>6, <1>7 DEF Names
  <2> QED
    BY <1>2, <2>2, <2>3
<1>10. \A g \in Players \ {h}, q \in Players : log'[g][q] = log[g][q]
  BY <1>2, <1>4
<1>11. ASSUME NEW q \in Players \ {p} PROVE TellsNew(h, q, a)
  <2>1. log'[h][q] = Scheduled(h, list[h], x)[q]
    BY <1>2, <1>4 DEF Scheduled
  <2> QED
    BY <1>6, <1>9, <2>1, ScheduledTo DEF TellsNew, Lists
<1>12. TellsAll(h, p)
  <2>1. log'[h][p] = ListPackets(l, c)
    BY <1>2, <1>4 DEF Scheduled
  <2> QED
    BY <1>5, <1>8, <2>1, PacketsShow DEF TellsAll
<1>13. \E m : /\ m.ty = "Added" /\ m.to = p /\ m.from = h /\ m.id = IdOf(a)
              /\ net' = net \cup {m}
  BY <1>2, <1>7 DEF Added
<1>14. a \in [slot : Slots, n : 0..MaxId, who : Players]
       /\ a.n = last[h] + 1 /\ a.who = p
       /\ given' = given \cup {a}
  BY <1>2, <1>3, <1>6
<1>15. Admissions(list'[h]) = Admissions(list[h]) \cup {a}
  BY <1>7, <1>8
<1> HIDE DEF TellsAll
<1> QED
  BY <1>8, <1>10, <1>11, <1>12, <1>13, <1>14, <1>15 DEF Admits

LEMMA KnownAdmit ==
  ASSUME Typed, Kept, Known, NEW h \in Players, NEW p \in Players, Admit(h, p)
  PROVE  Known'
<1>1. PICK a : Admits(h, p, a)
  BY AdmitWrites
<1>2. given \subseteq given' /\ a \in given' /\ GivenIds \subseteq GivenIds'
  BY <1>1 DEF Admits, GivenIds
<1>3. ASSUME NEW q \in Players PROVE KnownList(q)'
  BY <1>1, <1>2 DEF Admits, Known, KnownList
<1>4. ASSUME NEW q \in Players PROVE KnownPlayer(q)'
  <2>1. UNCHANGED <<pend, gone, again, st, begged, me, asked>>
    BY DEF Admit, selfVars, readVars, told
  <2> QED
    BY <1>2, <2>1 DEF Known, KnownPlayer
<1>5. KnownLogs'
  <2>1. SUFFICES ASSUME NEW g \in Players, NEW q \in Players, NEW i \in DOMAIN log'[g][q],
                        NEW x, x = log'[g][q][i]
                 PROVE  KnownMessage(x)'
    BY DEF KnownLogs
  <2>2. KnownMessage(x) => KnownMessage(x)'
    BY <1>2 DEF KnownMessage
  <2>3. CASE g # h
    BY <1>1, <2>1, <2>2, <2>3 DEF Admits, Known, KnownLogs
  <2>4. CASE g = h /\ q # p
    <3>1. TellsNew(h, q, a)
      BY <1>1, <2>4 DEF Admits
    <3>2. CASE i \in DOMAIN log[h][q]
      BY <2>1, <2>2, <2>4, <3>1, <3>2 DEF TellsNew, Lengthens, Known, KnownLogs
    <3>3. CASE i \notin DOMAIN log[h][q]
      BY <1>2, <2>1, <2>4, <3>1, <3>3 DEF TellsNew, KnownMessage
    <3> QED
      BY <3>2, <3>3
  <2>5. CASE g = h /\ q = p
    <3>1. x.ty = "List" /\ Names(x) \subseteq Admissions(list'[h])
      BY <1>1, <2>1, <2>5 DEF Admits, TellsAll
    <3> QED
      BY <1>3, <3>1 DEF KnownList, KnownMessage
  <2> QED
    BY <2>3, <2>4, <2>5
<1>6. \A m \in net' : KnownDatagram(m)'
  <2>1. PICK m : /\ m.ty = "Added" /\ m.to = p /\ m.from = h /\ m.id = IdOf(a)
                 /\ net' = net \cup {m}
    BY <1>1 DEF Admits
  <2>2. asked' = asked /\ asked[p] = h
    BY DEF Admit, selfVars
  <2>3. \A d \in net : KnownDatagram(d)'
    BY ZenonT(60), <1>2, <2>2 DEF Known, KnownDatagram
  <2>4. [slot |-> m.id.slot, n |-> m.id.n, who |-> m.to] \in given'
    <3>1. a \in given' /\ a \in [slot : Slots, n : 0..MaxId, who : Players]
      BY <1>1, <1>2 DEF Admits
    <3>2. [slot |-> m.id.slot, n |-> m.id.n, who |-> m.to] = a
      BY <1>1, <2>1, <3>1 DEF Admits, IdOf
    <3> QED
      BY <3>1, <3>2
  <2>5. KnownDatagram(m)'
    BY <2>1, <2>2, <2>4 DEF KnownDatagram
  <2> QED
    BY <2>1, <2>3, <2>5
<1> QED
  BY <1>3, <1>4, <1>5, <1>6 DEF Known

-----------------------------------------------------------------------------
(* Who follows whom *)

Out(p) == \A a \in given : a.who # p
Quiet(h, p) == DOMAIN log[h][p] = {}

\* A player that never asked is in no list and no log.
IdleOut ==
  /\ \A p \in Players : st[p] = "idle" => Out(p)
  /\ \A h, p \in Players : ~Quiet(h, p) => ~Out(p)

\* Only a host has something to tell.
HostsTell ==
  /\ \A p \in Players : \A t \in Threads : pend[p][t] # None => host[p]
  /\ \A p \in Players : pend[p]["game"] # None => st[p] = "in"
  /\ \A h, p \in Players : ~host[h] /\ st[h] # "over" => Quiet(h, p)

\* The host that p asked was host already, and does not take over from another.
AskedHost ==
  /\ \A h, p \in Players : asked[p] = h => host[h] \/ st[h] = "over"
  /\ \A h, p \in Players :
       asked[p] = h => \A i \in DOMAIN log[h][p] : log[h][p][i].ty # "NewHost"
  /\ \A h, p \in Players : asked[p] = h /\ half[h] # {} => Out(p)

\* Who follows another host than the one it asked took its NewHost.
FollowsAsked ==
  \A p \in Players : Reading(p) => asked[p] = from[p] \/ taken[p][from[p]] > 0

\* As long as the host that p asked acts, no other host knows p.
OnlyAsked ==
  \A h, g, p \in Players :
    asked[p] = h /\ Acts(h) /\ g # h => Quiet(g, p) /\ (host[g] => ~Lists(g, p))

Following == IdleOut /\ HostsTell /\ AskedHost /\ FollowsAsked /\ OnlyAsked

\* What a step leaves as it was of who acts, who follows whom and who was told by whom.
Settles ==
  /\ \A q \in Players :
       /\ Acts(q)' => Acts(q)
       /\ host'[q] => host[q]
       /\ host[q] => host'[q] \/ st'[q] = "over"
       /\ st[q] = "over" => st'[q] = "over"
       /\ st'[q] = "idle" => st[q] = "idle"
       /\ st'[q] = "joining" => st[q] = "joining"
       /\ half'[q] # {} => half[q] # {}
       /\ Reading(q)' => Reading(q)
  /\ UNCHANGED <<asked, taken, from>>

LEMMA SettledSteps ==
  ASSUME Typed, HostStages, ClosedStages, NEW p \in Players, Step(p) \/ UNCHANGED vars
  PROVE  \/ Settles
         \/ \E h \in Players : AskToJoin(p, h) \/ HearNewHost(p, h)
         \/ \E m \in net : Connect(p, m) \/ TakeOver(p, m)
<1> USE ControlTypes
<1>1. ASSUME UNCHANGED <<st, host, closed, half, asked, taken, from>> PROVE Settles
  BY <1>1 DEF Settles, Acts, Connected, Present, Alive, Reading
<1>2. ASSUME \/ \E h \in Players : AnswerAgain(h, p) \/ Destroy(h, p)
             \/ (\E s \in Slots : Kick(p, s)) \/ (\E t \in Threads : Schedule(p, t))
             \/ HearLeave(p) \/ HandOver(p)
             \/ UNCHANGED vars
      PROVE  Settles
  <2>1. UNCHANGED <<closed, half, asked, taken, from>>
    BY ZenonT(60), <1>2 DEF AnswerAgain, Destroy, Kick, Schedule, HearLeave, HandOver, vars, hostVars,
                selfVars, readVars
  <2>2. \/ UNCHANGED <<st, host>>
        \/ st[p] = "counting" /\ st' = [st EXCEPT ![p] = "handing"] /\ host' = host
    BY <1>2, HandOverStep, QuietSteps
  <2> QED
    BY ZenonT(60), <1>1, <2>1, <2>2 DEF Settles, Acts, Connected, Present, Alive, Reading
<1>3. ASSUME Handle(p) PROVE Settles
  <2>1. UNCHANGED <<st, host, closed, half, asked, taken, from>>
    BY ZenonT(60), <1>3 DEF Handle, HandleCreate, HandleList, HandleLeave, HandleNewHost, hostVars,
                selfVars, readVars
  <2> QED
    BY ZenonT(60), <1>1, <2>1
<1>4. ASSUME Proclaim(p) PROVE Settles
  <2>1. UNCHANGED <<asked, taken, from>>
    BY <1>4 DEF Proclaim, selfVars, readVars
  <2>2. /\ half[p] # {} /\ half' = [half EXCEPT ![p] = {}]
        /\ closed' = [closed EXCEPT ![p] = FALSE] /\ UNCHANGED <<st, host>>
    BY <1>4, ProclaimStep
  <2>3. Present(p) => ~closed[p]
    BY <2>2 DEF HostStages, ClosedStages, Present, Alive
  <2>4. \A q \in Players : Acts(q)' => Acts(q)
    BY <2>2, <2>3 DEF Acts, Present, Alive
  <2> QED
    BY <2>1, <2>2, <2>4 DEF Settles, Reading
<1>5. ASSUME GiveUp(p) \/ StartLeaving(p) \/ TestAgain(p) \/ AskToLeave(p) \/ CloseSession(p)
             \/ ReadCount(p) \/ EndSession(p)
             \/ \E m \in net : ReadBye(p, m)
      PROVE  Settles
  <2>1. UNCHANGED <<asked, taken, from>>
    BY <1>5 DEF GiveUp, StartLeaving, TestAgain, AskToLeave, CloseSession, ReadCount, EndSession,
          ReadBye, selfVars,
                readVars
  <2>2. PICK v \in {"over", "left", "going", "asking", "leaving", "closing", "counting"} :
        /\ Moves(p, v)
        /\ \A q \in Players \ {p} : host'[q] = host[q] /\ closed'[q] = closed[q]
        /\ st[p] \notin {"over", "idle"}
        /\ v = "over" \/ host'[p] = host[p]
        /\ host'[p] => host[p]
        /\ v = "closing" => host[p] /\ st[p] \in {"in", "going"}
        /\ v = "counting" => st[p] = "closing"
        /\ v \in {"going", "asking", "leaving"} =>
             st[p] \in {"in", "going", "asking"} /\ closed'[p] = closed[p]
    BY <1>5, MovingSteps DEF HostStages, Reading
  <2>3. st' = [st EXCEPT ![p] = v] /\ half' = half
    BY <2>2 DEF Moves
  <2>4. Acts(p)' => Acts(p)
    BY <2>2, <2>3 DEF Acts, Present, Alive, ClosedStages
  <2>5. \A q \in Players \ {p} : Acts(q)' => Acts(q)
    BY <2>2, <2>3 DEF Acts, Present, Alive
  <2>6. Reading(p)' => Reading(p)
    BY <2>2, <2>3 DEF Reading
  <2> QED
    BY <2>1, <2>2, <2>3, <2>4, <2>5, <2>6 DEF Settles, Reading
<1> QED
  BY <1>2, <1>3, <1>4, <1>5 DEF Step

\* The list of a host grows by admissions only.
LEMMA HostListStep ==
  ASSUME Typed, HostStages, Known, NEW p \in Players, Step(p) \/ UNCHANGED vars
  PROVE  \A g \in Players : host[g] => Admissions(list'[g]) \subseteq Admissions(list[g])
<1>1. CASE Handle(p)
  <2>1. ~host[p] /\ KnownMessage(Now(p))
    BY <1>1, NowType DEF Reading, Known, KnownLogs, Now
  <2> QED
    BY <1>1, <2>1, HandleWrites
<1>2. ASSUME NEW m \in net, Connect(p, m)
      PROVE  \A g \in Players : host[g] => Admissions(list'[g]) \subseteq Admissions(list[g])
  <2>1. ~host[p]
    BY <1>2 DEF Connect, HostStages
  <2> QED
    BY <1>2, <2>1, ConnectWrites
<1> QED
  BY <1>1, <1>2, ListStep DEF ListsShrink

\* Who sends is a host, and lists whom it sends to.
LEMMA HostSends ==
  ASSUME Typed, HostStages, ClosedStages, HostsTell, NEW p \in Players,
         Step(p) \/ UNCHANGED vars, NEW g \in Players, NEW q \in Players,
         ~Lengthens(log'[g][q], log[g][q])
  PROVE  host[g] /\ Lists(g, q)
<1>1. Sends(g, q)
  BY LogStep
<1>2. PICK i : i \in DOMAIN log'[g][q] \ DOMAIN log[g][q]
  BY <1>1 DEF Sends, Lengthens
<1>3. Sendable(g, q, log'[g][q][i])
  BY <1>1, <1>2 DEF Sends
<1> QED
  BY <1>3 DEF Sendable, HostsTell, HostStages, ClosedStages

LEMMA HostsTellStep ==
  ASSUME Typed, HostStages, ClosedStages, HostsTell, NEW p \in Players,
         Step(p) \/ UNCHANGED vars
  PROVE  HostsTell'
<1> USE ControlTypes
<1>1. \A q \in Players : host[q] => host'[q] \/ st'[q] = "over"
  <2>1. ASSUME \/ \E h \in Players : AskToJoin(p, h) \/ HearNewHost(p, h)
               \/ \E m \in net : Connect(p, m) \/ TakeOver(p, m)
        PROVE  \A q \in Players : host[q] => host'[q]
    BY <2>1, MovingSteps, TakeOverStep, QuietSteps
  <2> QED
    BY <2>1, SettledSteps DEF Settles
<1>2. \A q \in Players : st[q] = "over" => st'[q] = "over"
  <2>1. ASSUME \/ \E h \in Players : AskToJoin(p, h) \/ HearNewHost(p, h)
               \/ \E m \in net : Connect(p, m) \/ TakeOver(p, m)
        PROVE  \A q \in Players : st[q] = "over" => st'[q] = "over"
    BY <2>1, MovingSteps, TakeOverStep, QuietSteps DEF Moves
  <2> QED
    BY <2>1, SettledSteps DEF Settles
<1>3. ASSUME NEW h \in Players, NEW q \in Players, ~host'[h], st'[h] # "over" PROVE Quiet(h, q)'
  <2>1. ~host[h] /\ st[h] # "over"
    BY <1>1, <1>2, <1>3
  <2>2. DOMAIN log[h][q] = {}
    BY <2>1 DEF HostsTell, Quiet
  <2>3. Lengthens(log'[h][q], log[h][q])
    BY <2>1, HostSends
  <2> QED
    BY <2>2, <2>3 DEF Quiet, Lengthens
<1>4. pend \in [Players -> [Threads -> AnyId]]
  BY DEF Typed, TypeOK, AnyId
<1>5. \A q \in Players : \A t \in Threads : pend'[q][t] # None => host'[q]
  <2>1. ASSUME NEW h \in Players, Destroy(h, p)
        PROVE  \A q \in Players, t \in Threads : pend'[q][t] # None => pend[q][t] # None \/ host[q]
    BY <1>4, <2>1 DEF Destroy, Remove
  <2>2. ASSUME NEW s \in Slots, Kick(p, s)
        PROVE  \A q \in Players, t \in Threads : pend'[q][t] # None => pend[q][t] # None \/ host[q]
    BY <1>4, <2>2 DEF Kick, Remove
  <2>3. ASSUME NEW t \in Threads, Schedule(p, t)
        PROVE  \A q \in Players, u \in Threads : pend'[q][u] # None => pend[q][u] # None
    BY ZenonT(60), <1>4, <2>3 DEF Schedule
  <2>4. \/ pend' = pend
        \/ \E h \in Players : Destroy(h, p)
        \/ \E s \in Slots : Kick(p, s)
        \/ \E t \in Threads : Schedule(p, t)
    BY ZenonT(60) DEF Step, AskToJoin, AnswerAgain, HearNewHost, Connect, ReadBye, TakeOver, GiveUp,
           StartLeaving, TestAgain, AskToLeave, EndSession, CloseSession, ReadCount, HandOver,
           Proclaim, HearLeave, Handle,
           HandleCreate, HandleList, HandleLeave, HandleNewHost, vars, hostVars
  <2>5. \A q \in Players, t \in Threads : pend'[q][t] # None => host[q]
    BY <2>1, <2>2, <2>3, <2>4 DEF HostsTell
  <2>6. SUFFICES ASSUME NEW q \in Players, NEW t \in Threads, pend'[q][t] # None, ~host'[q]
                 PROVE  FALSE
    OBVIOUS
  <2>7. host[q]
    BY <2>5, <2>6
  <2>8. EndSession(p) /\ q = p
    <3>1. ASSUME Step(p), ~EndSession(p) PROVE \A r \in Players : host[r] => host'[r]
      BY <3>1, MovingSteps, TakeOverStep, QuietSteps, HandOverStep, ProclaimStep DEF Step
    <3>2. EndSession(p)
      BY <2>6, <2>7, <3>1 DEF vars, selfVars
    <3> QED
      BY <2>6, <2>7, <3>2, MovingSteps
  <2>9. pend' = pend /\ pend[p]["read"] = None /\ st[p] \in {"leaving", "left", "handing"}
    BY <2>8 DEF EndSession
  <2> QED
    BY <2>6, <2>8, <2>9 DEF HostsTell, Threads
<1> HIDE DEF Step
<1>6. \A q \in Players : pend'[q]["game"] # None => st'[q] = "in"
  <2>1. SUFFICES ASSUME NEW q \in Players, pend'[q]["game"] # None PROVE st'[q] = "in"
    OBVIOUS
  <2>2. CASE st' = st
    <3>1. CASE pend'[q]["game"] = pend[q]["game"]
      BY <2>1, <2>2, <3>1 DEF HostsTell
    <3>2. CASE pend'[q]["game"] # pend[q]["game"]
      <4>1. ASSUME NEW h \in Players, Destroy(h, p) PROVE FALSE
        <5>1. PICK id : pend' = pend \/ pend' = [pend EXCEPT ![h]["read"] = id]
          BY <4>1 DEF Destroy, Remove
        <5>2. pend'[q]["game"] = pend[q]["game"]
          BY <1>4, <5>1 DEF Threads
        <5> QED
          BY <3>2, <5>2
      <4>2. ASSUME NEW t \in Threads, Schedule(p, t) PROVE FALSE
        BY ZenonT(60), <1>4, <2>1, <3>2, <4>2 DEF Schedule, Threads
      <4>3. PICK s \in Slots : Kick(p, s)
        BY ZenonT(60), <3>2, <4>1, <4>2 DEF Step, AskToJoin, AnswerAgain, HearNewHost, Connect, ReadBye,
           TakeOver, GiveUp, StartLeaving, TestAgain, AskToLeave, EndSession, CloseSession,
           ReadCount, HandOver, Proclaim,
           HearLeave, Handle, HandleCreate, HandleList, HandleLeave, HandleNewHost, vars, hostVars
      <4>4. q = p /\ st[p] = "in"
        BY <1>4, <3>2, <4>3 DEF Kick, Remove
      <4> QED
        BY <2>2, <4>4
    <3> QED
      BY <3>1, <3>2
  <2>3. CASE st' # st
    <3>1. ~(\E h \in Players : Destroy(h, p)) /\ ~(\E s \in Slots : Kick(p, s))
          /\ ~\E t \in Threads : Schedule(p, t)
      BY <2>3, QuietSteps
    <3>2. pend' = pend
      BY ZenonT(60), <3>1 DEF Step, AskToJoin, AnswerAgain, HearNewHost, Connect, ReadBye,
           TakeOver, GiveUp, StartLeaving, TestAgain, AskToLeave, EndSession, CloseSession,
           ReadCount, HandOver, Proclaim,
           HearLeave, Handle, HandleCreate, HandleList, HandleLeave, HandleNewHost, vars, hostVars
    <3>3. st[q] = "in" /\ host[q]
      BY <2>1, <3>2 DEF HostsTell, Threads
    <3>4. CASE q # p
      <4>1. st'[q] = st[q]
        BY <3>4, QuietSteps, MovingSteps, HandOverStep, TakeOverStep, ProclaimStep DEF Step, Moves, vars
      <4> QED
        BY <3>3, <4>1
    <3>5. CASE q = p
      <4>1. ~CloseSession(p)
        BY <2>1, <3>2, <3>5 DEF CloseSession
      <4>2. st'[p] = "in"
        BY <3>3, <3>5, <4>1, QuietSteps, MovingSteps, HandOverStep, TakeOverStep, ProclaimStep
        DEF Step, Moves, Reading, vars
      <4> QED
        BY <3>5, <4>2
    <3> QED
      BY <3>4, <3>5
  <2> QED
    BY <2>2, <2>3
<1> QED
  BY <1>3, <1>5, <1>6 DEF HostsTell

\* Who is a host remains it until it is out, and no one becomes idle.
LEMMA HostsStay ==
  ASSUME Typed, HostStages, ClosedStages, NEW p \in Players, Step(p) \/ UNCHANGED vars,
         NEW q \in Players
  PROVE  /\ host[q] => host'[q] \/ st'[q] = "over"
         /\ st[q] = "over" => st'[q] = "over"
         /\ st'[q] = "idle" => st[q] = "idle"
<1> USE ControlTypes
<1>1. CASE Settles
  BY <1>1 DEF Settles
<1>2. CASE \/ \E h \in Players : AskToJoin(p, h) \/ HearNewHost(p, h)
           \/ \E m \in net : Connect(p, m) \/ TakeOver(p, m)
  BY <1>2, MovingSteps, TakeOverStep, QuietSteps DEF Moves
<1> QED
  BY <1>1, <1>2, SettledSteps

LEMMA IdleOutStep ==
  ASSUME Typed, HostStages, ClosedStages, Known, HostsTell, IdleOut, NEW p \in Players,
         Step(p) \/ UNCHANGED vars
  PROVE  IdleOut'
<1>1. given' = given
  BY GivenKept
<1>2. ASSUME NEW q \in Players, st'[q] = "idle" PROVE Out(q)'
  BY <1>1, <1>2, HostsStay DEF IdleOut, Out
<1>3. ASSUME NEW h \in Players, NEW q \in Players, ~Quiet(h, q)' PROVE ~Out(q)'
  <2>1. CASE Lengthens(log'[h][q], log[h][q])
    BY <1>1, <1>3, <2>1 DEF IdleOut, Quiet, Lengthens, Out
  <2>2. CASE ~Lengthens(log'[h][q], log[h][q])
    <3>1. Lists(h, q)
      BY <2>2, HostSends
    <3> QED
      BY <1>1, <3>1 DEF Lists, Known, KnownList, Out
  <2> QED
    BY <2>1, <2>2
<1> QED
  BY <1>2, <1>3 DEF IdleOut

\* A player that asks to join is in no list and no log.
LEMMA AskerOut ==
  ASSUME Typed, Kept, Known, IdleOut, NEW p \in Players, NEW h \in Players, AskToJoin(p, h)
  PROVE  /\ Out(p) /\ asked[p] = NoPlayer /\ host[h] /\ Connected(h) /\ ~closed[h]
         /\ \A g \in Players : Quiet(g, p) /\ ~Lists(g, p)
         /\ asked'[p] = h /\ \A q \in Players \ {p} : asked'[q] = asked[q]
         /\ UNCHANGED <<list, log, half, host, closed, given, taken, from, gone>>
<1>1. st[p] = "idle" /\ host[h] /\ Connected(h) /\ ~closed[h] /\ asked' = [asked EXCEPT ![p] = h]
      /\ UNCHANGED <<list, log, half, host, closed, given, taken, from, gone>>
  BY DEF AskToJoin, hostVars, readVars, history, told
<1>2. Out(p) /\ asked[p] = NoPlayer
  BY <1>1 DEF IdleOut, Known, KnownPlayer
<1>3. \A g \in Players : Quiet(g, p) /\ ~Lists(g, p)
  BY <1>2 DEF IdleOut, Known, KnownList, Out, Lists
<1>4. asked'[p] = h /\ \A q \in Players \ {p} : asked'[q] = asked[q]
  BY <1>1 DEF Kept
<1> QED
  BY <1>1, <1>2, <1>3, <1>4

LEMMA AskedKept ==
  ASSUME Typed, HostStages, ClosedStages, NEW p \in Players, Step(p) \/ UNCHANGED vars,
         ~\E h \in Players : AskToJoin(p, h)
  PROVE  asked' = asked
<1>1. CASE Settles
  BY <1>1 DEF Settles
<1>2. CASE \/ \E h \in Players : HearNewHost(p, h)
           \/ \E m \in net : Connect(p, m) \/ TakeOver(p, m)
  BY <1>2 DEF HearNewHost, Connect, TakeOver, selfVars
<1> QED
  BY <1>1, <1>2, SettledSteps

\* Half of a take-over is a step of TakeOver.
LEMMA HalfStep ==
  ASSUME Typed, HostStages, ClosedStages, NEW p \in Players, Step(p) \/ UNCHANGED vars,
         NEW h \in Players, half'[h] # {}
  PROVE  \/ half[h] # {}
         \/ ~host[h] /\ st[h] # "over" /\ h = p /\ \E m \in net : TakeOver(p, m)
<1> USE ControlTypes
<1>1. CASE Settles
  BY <1>1 DEF Settles
<1>2. ASSUME \/ \E g \in Players : AskToJoin(p, g) \/ HearNewHost(p, g)
             \/ \E m \in net : Connect(p, m)
      PROVE  half' = half
  BY <1>2 DEF AskToJoin, HearNewHost, Connect, hostVars
<1>3. ASSUME NEW m \in net, TakeOver(p, m)
      PROVE  half[h] # {} \/ (~host[h] /\ st[h] # "over" /\ h = p)
  BY <1>3, TakeOverStep
<1> QED
  BY <1>1, <1>2, <1>3, SettledSteps

LEMMA AskedHostStep ==
  ASSUME Typed, Kept, HostStages, ClosedStages, Known, Following, NEW p \in Players,
         Step(p) \/ UNCHANGED vars
  PROVE  AskedHost'
<1> USE DEF Following
<1>1. given' = given
  BY GivenKept
<1>2. SUFFICES ASSUME NEW h \in Players, NEW q \in Players, asked'[q] = h
               PROVE  /\ host'[h] \/ st'[h] = "over"
                      /\ \A i \in DOMAIN log'[h][q] : log'[h][q][i].ty # "NewHost"
                      /\ half'[h] # {} => Out(q)'
  BY DEF AskedHost
<1>3. ASSUME NEW g \in Players, AskToJoin(p, g), q = p
      PROVE  /\ host'[h] \/ st'[h] = "over"
             /\ \A i \in DOMAIN log'[h][q] : log'[h][q][i].ty # "NewHost"
             /\ half'[h] # {} => Out(q)'
  BY <1>1, <1>2, <1>3, AskerOut DEF Quiet, Out
<1>4. ASSUME asked[q] = h
      PROVE  /\ host'[h] \/ st'[h] = "over"
             /\ \A i \in DOMAIN log'[h][q] : log'[h][q][i].ty # "NewHost"
             /\ half'[h] # {} => Out(q)'
  <2>1. host'[h] \/ st'[h] = "over"
    BY <1>4, HostsStay DEF AskedHost
  <2>2. ASSUME NEW i \in DOMAIN log'[h][q] PROVE log'[h][q][i].ty # "NewHost"
    <3>1. Sends(h, q)
      BY LogStep
    <3>2. CASE i \in DOMAIN log[h][q]
      BY <1>4, <3>1, <3>2 DEF AskedHost, Sends, Lengthens
    <3>3. CASE i \notin DOMAIN log[h][q]
      <4>1. Sendable(h, q, log'[h][q][i])
        BY <2>2, <3>1, <3>3 DEF Sends
      <4>2. ~Out(q)
        BY <4>1 DEF Sendable, Lists, Known, KnownList, Out
      <4>3. half[h] = {}
        BY <1>4, <4>2 DEF AskedHost
      <4> QED
        BY <4>1, <4>3 DEF Sendable
    <3> QED
      BY <3>2, <3>3
  <2>3. ASSUME half'[h] # {} PROVE Out(q)'
    <3>1. half[h] # {}
      BY <1>4, <2>3, HalfStep DEF AskedHost
    <3> QED
      BY <1>1, <1>4, <3>1 DEF AskedHost, Out
  <2> QED
    BY <2>1, <2>2, <2>3
<1>5. asked[q] = h \/ (q = p /\ \E g \in Players : AskToJoin(p, g))
  BY <1>2, AskerOut, AskedKept
<1> QED
  BY <1>3, <1>4, <1>5

LEMMA FollowsAskedStep ==
  ASSUME Typed, Kept, HostStages, ClosedStages, Known, Following, NEW p \in Players,
         Step(p) \/ UNCHANGED vars
  PROVE  FollowsAsked'
<1> USE ControlTypes DEF Following
<1>1. CASE Settles
  BY <1>1 DEF Settles, FollowsAsked
<1>2. ASSUME NEW h \in Players, AskToJoin(p, h) PROVE FollowsAsked'
  <2>1. st' = [st EXCEPT ![p] = "joining"] /\ UNCHANGED <<host, from, taken>>
        /\ \A q \in Players \ {p} : asked'[q] = asked[q]
    BY <1>2, AskerOut DEF AskToJoin, readVars
  <2> QED
    BY <2>1 DEF FollowsAsked, Reading
<1>3. ASSUME NEW h \in Players, HearNewHost(p, h) PROVE FollowsAsked'
  <2>1. /\ taken' = [taken EXCEPT ![p][h] = @ + 1] /\ from' = [from EXCEPT ![p] = h]
        /\ UNCHANGED <<st, host, asked>>
    BY <1>3 DEF HearNewHost, selfVars
  <2>2. from'[p] = h /\ taken'[p][h] > 0
        /\ \A q \in Players \ {p} : from'[q] = from[q] /\ taken'[q] = taken[q]
    BY <2>1 DEF Kept, Typed, TypeOK
  <2> QED
    BY <2>1, <2>2 DEF FollowsAsked, Reading
<1>4. ASSUME NEW m \in net, Connect(p, m) PROVE FollowsAsked'
  <2>1. /\ st' = [st EXCEPT ![p] = "in"] /\ from' = [from EXCEPT ![p] = m.from]
        /\ UNCHANGED <<host, asked, taken>>
    BY <1>4 DEF Connect
  <2>2. asked[p] = m.from
    BY <1>4, ConnectWrites DEF Known, KnownDatagram
  <2>3. from'[p] = m.from /\ \A q \in Players \ {p} : from'[q] = from[q] /\ st'[q] = st[q]
    BY <2>1 DEF Typed, TypeOK
  <2> QED
    BY <2>1, <2>2, <2>3 DEF FollowsAsked, Reading
<1>5. ASSUME NEW m \in net, TakeOver(p, m) PROVE FollowsAsked'
  <2>1. UNCHANGED <<asked, from, taken>>
    BY <1>5 DEF TakeOver, readVars
  <2>2. \A q \in Players : Reading(q)' => Reading(q)
    BY <1>5, TakeOverStep DEF Reading
  <2> QED
    BY <2>1, <2>2 DEF FollowsAsked
<1> QED
  BY <1>1, <1>2, <1>3, <1>4, <1>5, SettledSteps

LEMMA OnlyAskedStep ==
  ASSUME Typed, Kept, HostStages, ClosedStages, OneRight, Known, Following, NEW p \in Players,
         Step(p) \/ UNCHANGED vars
  PROVE  OnlyAsked'
<1> USE ControlTypes DEF Following
<1>1. SUFFICES ASSUME NEW h \in Players, NEW g \in Players, NEW q \in Players,
                      asked'[q] = h, Acts(h)', g # h
               PROVE  Quiet(g, q)' /\ (host'[g] => ~Lists(g, q)')
  BY DEF OnlyAsked
<1>2. ASSUME NEW k \in Players, AskToJoin(p, k), q = p
      PROVE  Quiet(g, q)' /\ (host'[g] => ~Lists(g, q)')
  BY <1>2, AskerOut DEF Quiet, Lists
<1>3. ASSUME asked[q] = h PROVE Quiet(g, q)' /\ (host'[g] => ~Lists(g, q)')
  <2>1. host[h] \/ st[h] = "over"
    BY <1>3 DEF AskedHost
  <2>2. Acts(h)
    <3>1. CASE Settles
      BY <1>1, <3>1 DEF Settles
    <3>2. ASSUME \/ \E k \in Players : AskToJoin(p, k) \/ HearNewHost(p, k)
                 \/ \E m \in net : Connect(p, m) \/ TakeOver(p, m)
          PROVE  Acts(h)
      <4>1. ASSUME NEW m \in net, TakeOver(p, m) PROVE Acts(h)
        BY <1>1, <2>1, <4>1, TakeOverStep DEF Acts, Present, Alive
      <4>2. ASSUME \/ \E k \in Players : AskToJoin(p, k)
                   \/ \E m \in net : Connect(p, m)
            PROVE  Acts(h)
        BY <1>1, <2>1, <4>2, MovingSteps DEF Moves, Acts, Connected, Present, Alive, HostStages
      <4> QED
        BY <1>1, <3>2, <4>1, <4>2, QuietSteps DEF Acts, Present, Alive
    <3> QED
      BY <3>1, <3>2, SettledSteps
  <2>3. Quiet(g, q) /\ (host[g] => ~Lists(g, q))
    BY <1>1, <1>3, <2>2 DEF OnlyAsked
  <2>4. Quiet(g, q)'
    <3>1. Lengthens(log'[g][q], log[g][q])
      BY <2>3, HostSends
    <3> QED
      BY <2>3, <3>1 DEF Quiet, Lengthens
  <2>5. ASSUME host'[g] PROVE ~Lists(g, q)'
    <3>1. host[g]
      <4>1. ASSUME NEW m \in net, TakeOver(p, m) PROVE FALSE
        <5>1. m \in Handovers /\ m.to = p /\ ~host[p] /\ st[p] # "over"
          BY <4>1, TakeOverStep
        <5> QED
          BY <2>2, <5>1 DEF OneRight, Pending
      <4>2. CASE Settles
        BY <2>5, <4>2 DEF Settles
      <4>3. ASSUME \/ \E k \in Players : AskToJoin(p, k) \/ HearNewHost(p, k)
                   \/ \E m \in net : Connect(p, m)
            PROVE  host' = host
        BY <4>3, MovingSteps, QuietSteps
      <4> QED
        BY <2>5, <4>1, <4>2, <4>3, SettledSteps
    <3> QED
      BY <2>3, <3>1, HostListStep DEF Lists
  <2> QED
    BY <2>4, <2>5
<1>4. asked[q] = h \/ (q = p /\ \E k \in Players : AskToJoin(p, k))
  BY <1>1, AskerOut, AskedKept
<1> QED
  BY <1>2, <1>3, <1>4

LEMMA FollowingStep ==
  ASSUME Typed, Kept, HostStages, ClosedStages, OneRight, Known, Following, NEW p \in Players,
         Step(p) \/ UNCHANGED vars
  PROVE  Following'
BY IdleOutStep, HostsTellStep, AskedHostStep, FollowsAskedStep, OnlyAskedStep DEF Following

LEMMA FollowingAdmit ==
  ASSUME Typed, Kept, HostStages, ClosedStages, OneRight, Known, Following,
         NEW h \in Players, NEW p \in Players, Admit(h, p)
  PROVE  Following'
<1> USE DEF Following
<1>1. PICK a : Admits(h, p, a)
  BY AdmitWrites
<1>2. /\ UNCHANGED <<st, host, closed, half, pend, asked, taken, from>>
      /\ host[h] /\ half[h] = {} /\ Acts(h) /\ asked[p] = h
  BY AdmitStep DEF Admit, selfVars, readVars, Acts, Present, Connected, Reads
<1>3. a \in given' /\ a.who = p /\ \A q \in Players \ {p} : Out(q) => Out(q)'
  BY <1>1 DEF Admits, Out
<1>4. \A q \in Players : ~Out(q) => ~Out(q)'
  BY <1>1 DEF Admits, Out
<1>5. \A g, q \in Players : g # h => Quiet(g, q)' = Quiet(g, q)
  BY <1>1 DEF Admits, Quiet
<1>6. IdleOut'
  <2>1. \A q \in Players : st[q] = "idle" => q # p
    BY <1>2, PlayersAssumption DEF Known, KnownPlayer
  <2>2. ASSUME NEW g \in Players, NEW q \in Players, ~Quiet(g, q)' PROVE ~Out(q)'
    <3>1. CASE g # h
      BY <1>4, <1>5, <2>2, <3>1 DEF IdleOut
    <3>2. CASE q = p
      BY <1>3, <3>2 DEF Out
    <3>3. CASE g = h /\ q # p
      <4>1. TellsNew(h, q, a)
        BY <1>1, <3>3 DEF Admits
      <4>2. ~Quiet(h, q) \/ Lists(h, q)
        BY <2>2, <3>3, <4>1 DEF Quiet, TellsNew
      <4>3. ~Out(q)
        BY <4>2 DEF IdleOut, Lists, Known, KnownList, Out
      <4> QED
        BY <1>4, <4>3
    <3> QED
      BY <3>1, <3>2, <3>3
  <2> QED
    BY <1>2, <1>3, <2>1, <2>2 DEF IdleOut
<1>7. HostsTell'
  BY <1>2, <1>5 DEF HostsTell
<1>8. AskedHost'
  <2>1. ASSUME NEW g \in Players, NEW q \in Players, asked[q] = g, NEW i \in DOMAIN log'[g][q]
        PROVE  log'[g][q][i].ty # "NewHost"
    <3>1. CASE g # h
      BY <1>1, <2>1, <3>1 DEF Admits, AskedHost
    <3>2. CASE g = h /\ q = p
      BY <1>1, <2>1, <3>2 DEF Admits, TellsAll
    <3>3. CASE g = h /\ q # p
      <4>1. TellsNew(h, q, a)
        BY <1>1, <3>3 DEF Admits
      <4> QED
        BY <2>1, <3>3, <4>1 DEF TellsNew, Lengthens, AskedHost
    <3> QED
      BY <3>1, <3>2, <3>3
  <2>2. ASSUME NEW g \in Players, NEW q \in Players, asked[q] = g, half[g] # {}
        PROVE  Out(q)'
    <3>1. q # p
      BY <1>2, <2>2
    <3> QED
      BY <1>3, <2>2, <3>1 DEF AskedHost
  <2> QED
    BY <1>2, <2>1, <2>2 DEF AskedHost
<1>9. FollowsAsked'
  BY <1>2 DEF FollowsAsked, Reading
<1>10. OnlyAsked'
  <2>1. \A g \in Players : Acts(g)' <=> Acts(g)
    BY <1>2 DEF Acts, Present, Alive
  <2>2. \A g \in Players : Acts(g) => g = h
    BY <1>2 DEF OneRight
  <2>3. \A g \in Players, q \in Players : g # h => Lists(g, q)' = Lists(g, q)
    BY <1>1 DEF Admits, Lists
  <2> QED
    BY <1>2, <1>5, <2>1, <2>2, <2>3 DEF OnlyAsked
<1> QED
  BY <1>6, <1>7, <1>8, <1>9, <1>10

LEMMA FollowsInit == Init => Known /\ Following
<1> SUFFICES ASSUME Init PROVE Known /\ Following
  OBVIOUS
<1>1. Joined(Empty) = {} /\ Joined([Empty EXCEPT ![0] = Created]) \subseteq {0}
      /\ [Empty EXCEPT ![0] = Created][0] = Created
  BY IdParts DEF Joined, Empty, Free
<1>2. Admissions(Empty) = {}
  BY <1>1 DEF Admissions
<1>3. Admissions([Empty EXCEPT ![0] = Created]) \subseteq {[slot |-> 0, n |-> 0, who |-> First]}
  <2>1. Admission([Empty EXCEPT ![0] = Created], 0) = [slot |-> 0, n |-> 0, who |-> First]
    BY <1>1 DEF Admission, Created
  <2> QED
    BY <1>1, <2>1 DEF Admissions
<1>4. given = {[slot |-> 0, n |-> 0, who |-> First]} /\ GivenIds = {[slot |-> 0, n |-> 0]}
  BY DEF Init, GivenIds, IdOf
<1>5. \A p \in Players : KnownList(p)
  BY <1>2, <1>3, <1>4 DEF Init, KnownList
<1>6. \A p \in Players : KnownPlayer(p)
  BY <1>4, PlayersAssumption DEF Init, KnownPlayer
<1>7. \A h, p \in Players : Quiet(h, p)
  BY DEF Init, Quiet
<1>8. Known
  BY <1>5, <1>6, <1>7 DEF Init, Known, KnownLogs, Quiet
<1>9. IdleOut
  BY <1>4, <1>7 DEF Init, IdleOut, Out
<1>10. HostsTell
  BY <1>7 DEF Init, HostsTell, Threads
<1>11. \A p \in Players : asked[p] = NoPlayer /\ NoPlayer \notin Players /\ ~Reading(p)
  BY PlayersAssumption DEF Init, Reading
<1> QED
  BY <1>8, <1>9, <1>10, <1>11 DEF Following, AskedHost, FollowsAsked, OnlyAsked

-----------------------------------------------------------------------------
(* What the logs show *)

\* A message of h to p shows the id.
Shows(h, p, id) == \E i \in DOMAIN log[h][p] : id \in Shown(log[h][p][i])

Early(p) == st[p] \in {"idle", "joining"}
Client(p) == Reading(p) \/ Early(p)

\* What a host tells that p neither asked nor followed is new to p.
Strangers ==
  \A h, p \in Players : Client(p) /\ asked[p] # h /\ taken[p][h] = 0 =>
    /\ \A id : Shows(h, p, id) =>
         /\ id \notin Ids(list[p]) \cup gone[p]
         /\ \A g \in Players \ {h} : ~Shows(g, p, id)
    /\ \A i \in DOMAIN log[h][p] :
         log[h][p][i].ty # "List" /\ (log[h][p][i].ty = "Create" => log[h][p][i].who # p)

\* The Leave of an id is the last a log says of it.
LeaveIsLast ==
  \A h, p \in Players : \A i, j \in DOMAIN log[h][p] :
    log[h][p][i].ty = "Leave" /\ i < j => log[h][p][i].id \notin Shown(log[h][p][j])

\* A host that acts does not list whose Leave it sent, and so no one that its clients know
\* has left.
HostForgets ==
  \A h, p \in Players : Acts(h) =>
    /\ \A i \in DOMAIN log[h][p] :
         log[h][p][i].ty = "Leave" => log[h][p][i].id \notin Ids(list[h])
    /\ Reading(p) /\ from[p] = h /\ asked[p] = h => gone[p] \cap Ids(list[h]) = {}

LEMMA ShownIsGiven ==
  ASSUME Known
  PROVE  /\ \A x : KnownMessage(x) => Shown(x) \subseteq GivenIds
         /\ \A h, p \in Players : \A id : Shows(h, p, id) => id \in GivenIds
         /\ \A p \in Players : Ids(list[p]) \subseteq GivenIds
<1>1. \A x : KnownMessage(x) => Shown(x) \subseteq GivenIds
  BY DEF KnownMessage, Shown, GivenIds
<1>2. \A h, p \in Players : \A id : Shows(h, p, id) => id \in GivenIds
  BY <1>1 DEF Known, KnownLogs, Shows
<1>3. \A p \in Players : Ids(list[p]) \subseteq GivenIds
  BY DEF Known, KnownList, Ids, GivenIds
<1> QED
  BY <1>1, <1>2, <1>3

\* The number of a new id is greater than all that were given out.
LEMMA NewId ==
  ASSUME Typed, KnowsLast, NEW h \in Players, NEW p \in Players, Admit(h, p), NEW a,
         Admits(h, p, a)
  PROVE  IdOf(a) \notin GivenIds
<1>1. UpTo(last[h]) /\ last[h] \in 0..MaxId
  <2>1. Acts(h) /\ half[h] = {}
    BY AdmitStep DEF Acts, Present, Connected
  <2> QED
    BY <2>1 DEF KnowsLast, Typed, TypeOK
<1>2. SUFFICES ASSUME NEW b \in given, IdOf(a) = IdOf(b) PROVE FALSE
  BY DEF GivenIds
<1>3. a.n = b.n
  BY <1>2 DEF IdOf
<1>4. b.n <= last[h] /\ a.n = last[h] + 1
  BY <1>1 DEF UpTo, Admits
<1> QED
  BY <1>1, <1>3, <1>4, NumbersAssumption

\* Only an admission shows ids.
LEMMA ShowsStep ==
  ASSUME Typed, NEW p \in Players, Step(p) \/ UNCHANGED vars,
         NEW h \in Players, NEW q \in Players
  PROVE  /\ \A id : Shows(h, q, id)' => Shows(h, q, id)
         /\ \A i \in DOMAIN log'[h][q] \ DOMAIN log[h][q] : Shown(log'[h][q][i]) = {}
<1>1. Sends(h, q)
  BY LogStep
<1>2. ASSUME NEW i \in DOMAIN log'[h][q] \ DOMAIN log[h][q] PROVE Shown(log'[h][q][i]) = {}
  <2>1. log'[h][q][i].ty \in {"Leave", "NewHost", "Migrate"}
    BY <1>1, <1>2 DEF Sends, Sendable
  <2>2. Names(log'[h][q][i]) = {}
    BY <2>1 DEF Names
  <2> QED
    BY <2>2 DEF Shown
<1>3. \A id : Shows(h, q, id)' => Shows(h, q, id)
  BY <1>1, <1>2 DEF Shows, Sends, Lengthens
<1> QED
  BY <1>2, <1>3

\* The steps in which a game is told that someone left.
LEMMA ToldSteps ==
  ASSUME NEW p \in Players, Step(p) \/ UNCHANGED vars
  PROVE  \/ UNCHANGED <<gone, twice>>
         \/ \E t \in Threads : Schedule(p, t)
         \/ \E m \in net : ReadBye(p, m) \/ TakeOver(p, m)
         \/ Handle(p) /\ HandleLeave(p, Now(p))
<1> USE DEF told
<1>1. ASSUME \/ \E h \in Players : AskToJoin(p, h) \/ AnswerAgain(h, p) \/ Destroy(h, p)
                          \/ HearNewHost(p, h)
             \/ \E m \in net : Connect(p, m)
             \/ GiveUp(p) \/ StartLeaving(p) \/ TestAgain(p) \/ AskToLeave(p) \/ EndSession(p)
             \/ \E s \in Slots : Kick(p, s)
             \/ CloseSession(p) \/ ReadCount(p) \/ HandOver(p) \/ Proclaim(p)
             \/ HearLeave(p) \/ UNCHANGED vars
      PROVE  UNCHANGED <<gone, twice>>
  BY ZenonT(60), <1>1 DEF AskToJoin, AnswerAgain, Destroy, HearNewHost, Connect, GiveUp,
        StartLeaving, TestAgain, AskToLeave,
              EndSession, Kick, CloseSession, ReadCount, HandOver, Proclaim, HearLeave, vars
<1>2. ASSUME Handle(p) PROVE UNCHANGED <<gone, twice>> \/ HandleLeave(p, Now(p))
  BY ZenonT(60), <1>2 DEF Handle, HandleCreate, HandleList, HandleNewHost, Now
<1> QED
  BY ZenonT(60), <1>1, <1>2 DEF Step

\* What a client's game is told: of the Leave that is handled, if its player is listed, and
\* no more.
LEMMA ClientTold ==
  ASSUME Typed, Kept, HostStages, ClosedStages, Known, Following, NEW p \in Players,
         Step(p) \/ UNCHANGED vars, NEW q \in Players, Client(q)'
  PROVE  /\ Client(q)
         /\ \/ gone'[q] = gone[q]
            \/ /\ q = p /\ Handle(p) /\ Now(p).ty = "Leave" /\ Now(p).id \in Ids(list[p])
               /\ gone'[q] = gone[q] \cup {Now(p).id}
<1> USE ControlTypes DEF Following
<1>0. gone \in [Players -> SUBSET AnyId]
  BY DEF Kept
<1>1. Client(q)
  <2>1. CASE Settles
    BY <2>1 DEF Settles, Client, Early
  <2>2. ASSUME \/ \E h \in Players : AskToJoin(p, h) \/ HearNewHost(p, h)
               \/ \E m \in net : Connect(p, m) \/ TakeOver(p, m)
        PROVE  Client(q)
    <3>1. q # p => st'[q] = st[q] /\ host'[q] = host[q]
      BY <2>2, MovingSteps, QuietSteps, TakeOverStep DEF Moves
    <3>2. q = p => st[p] \in {"idle", "joining"} \/ (st'[p] = st[p] /\ (host'[p] = host[p] \/ host'[p]))
      BY <2>2, MovingSteps, QuietSteps, TakeOverStep DEF Moves
    <3> QED
      BY <3>1, <3>2 DEF Client, Early, Reading
  <2> QED
    BY <2>1, <2>2, SettledSteps
<1>2. ASSUME NEW t \in Threads, Schedule(p, t) PROVE gone'[q] = gone[q]
  <2>1. gone' = [gone EXCEPT ![p] = @ \cup {pend[p][t]}] /\ host[p]
    BY <1>2 DEF Schedule, Tell, HostsTell
  <2>2. q # p
    BY <1>1, <2>1 DEF Client, Early, Reading, HostStages
  <2> QED
    BY <1>0, <2>1, <2>2
<1>3. ASSUME NEW m \in net, ReadBye(p, m) PROVE gone'[q] = gone[q]
  <2>1. gone' = [gone EXCEPT ![p] = @ \cup {m.id}] /\ st'[p] = "left"
    BY <1>3, MovingSteps DEF ReadBye, Tell, Moves
  <2>2. q # p
    BY <2>1 DEF Client, Early, Reading
  <2> QED
    BY <1>0, <2>1, <2>2
<1>4. ASSUME NEW m \in net, TakeOver(p, m) PROVE gone'[q] = gone[q]
  <2>1. (gone' = gone \/ gone' = [gone EXCEPT ![p] = @ \cup {m.old}])
        /\ host'[p] /\ st'[p] \in {"in", "going", "asking", "leaving", "left"}
    BY <1>4, TakeOverStep DEF TakeOver, Tell
  <2>2. q # p
    BY <2>1 DEF Client, Early, Reading
  <2> QED
    BY <1>0, <2>1, <2>2
<1>5. ASSUME Handle(p), HandleLeave(p, Now(p))
      PROVE  \/ gone'[q] = gone[q]
             \/ /\ q = p /\ Handle(p) /\ Now(p).ty = "Leave" /\ Now(p).id \in Ids(list[p])
                /\ gone'[q] = gone[q] \cup {Now(p).id}
  <2>1. PICK x \in Message : x = Now(p) /\ x.ty = "Leave" /\ HandleLeave(p, x)
    BY ZenonT(60), <1>5, NowType DEF HandleLeave, Takes
  <2>2. x.id \in GivenIds /\ x.id \in Id
    BY <1>5, <2>1, NowType, GivenTypes DEF Known, KnownLogs, KnownMessage, Now
  <2>3. again \in [Players -> AnyId] /\ gone \in [Players -> SUBSET AnyId]
        /\ again[p] \in gone[p] \cup {None} /\ list[p] \in [Slots -> Line]
    BY DEF Typed, TypeOK, AnyId, Kept, Known, KnownPlayer
  <2>4. CASE Has(list[p], x.id)
    <3>1. again'[p] = x.id /\ x.id # None /\ x.id \in Ids(list[p])
      BY <2>1, <2>2, <2>3, <2>4, HasId, GivenTypes DEF HandleLeave
    <3>2. gone' = [gone EXCEPT ![p] = @ \cup {x.id}]
      BY <2>1, <3>1 DEF HandleLeave, Tell
    <3> QED
      BY <1>5, <2>1, <2>3, <3>1, <3>2
  <2>5. CASE ~Has(list[p], x.id)
    <3>1. again' = again
      BY <2>1, <2>5 DEF HandleLeave
    <3>2. gone' = gone \/ (again[p] # None /\ gone' = [gone EXCEPT ![p] = @ \cup {again[p]}])
      BY <2>1, <3>1 DEF HandleLeave, Tell
    <3>3. again[p] # None => gone[p] \cup {again[p]} = gone[p]
      BY <2>3
    <3>4. gone'[p] = gone[p] /\ \A r \in Players \ {p} : gone'[r] = gone[r]
      BY <1>0, <3>2, <3>3
    <3> QED
      BY <3>4
  <2> QED
    BY <2>4, <2>5
<1> QED
  BY <1>1, <1>2, <1>3, <1>4, <1>5, ToldSteps

\* What p lists after a step: what it listed, what the message says that it handles, and its
\* own id when it connects.
LEMMA IdsStep ==
  ASSUME Typed, Known, NEW p \in Players, Step(p) \/ UNCHANGED vars, NEW q \in Players
  PROVE  \/ Ids(list'[q]) \subseteq Ids(list[q])
         \/ /\ q = p /\ Handle(p)
            /\ Ids(list'[q]) \subseteq Ids(list[q]) \cup Shown(Now(p))
         \/ /\ q = p /\ \E a \in given : a.who = p
                 /\ Ids(list'[q]) \subseteq Ids(list[q]) \cup {IdOf(a)}
            /\ st[q] = "joining"
<1>1. CASE Handle(p)
  <2>1. KnownMessage(Now(p))
    BY <1>1, NowType DEF Known, KnownLogs, Now
  <2>2. Admissions(list'[p]) \subseteq Admissions(list[p]) \cup Names(Now(p))
        /\ \A r \in Players \ {p} : list'[r] = list[r]
    BY <1>1, <2>1, HandleWrites
  <2> QED
    BY <1>1, <2>2, IdsFrom DEF Shown
<1>2. ASSUME NEW m \in net, Connect(p, m)
      PROVE  \/ Ids(list'[q]) \subseteq Ids(list[q])
             \/ /\ q = p /\ \E a \in given : a.who = p
                     /\ Ids(list'[q]) \subseteq Ids(list[q]) \cup {IdOf(a)}
                /\ st[q] = "joining"
  <2>1. PICK a : a = [slot |-> m.id.slot, n |-> m.id.n, who |-> p]
    OBVIOUS
  <2>2. /\ Admissions(list'[p]) \subseteq Admissions(list[p]) \cup {a}
        /\ \A r \in Players \ {p} : list'[r] = list[r]
        /\ a \in given
    BY <1>2, <2>1, ConnectWrites DEF Known, KnownDatagram
  <2>3. Ids(list'[p]) \subseteq Ids(list[p]) \cup {IdOf(b) : b \in {a}}
    BY <2>2, IdsFrom
  <2>4. st[p] = "joining"
    BY <1>2 DEF Connect
  <2> QED
    BY <2>1, <2>2, <2>3, <2>4
<1>3. CASE ~Handle(p) /\ ~\E m \in net : Connect(p, m)
  <2>1. Admissions(list'[q]) \subseteq Admissions(list[q])
    BY <1>3, ListStep DEF ListsShrink
  <2> QED
    BY <2>1 DEF Ids
<1> QED
  BY <1>1, <1>2, <1>3

\* Every admission has an id of its own.
LEMMA SameId ==
  ASSUME Typed, IdsUnique, hasty = {}, NEW a \in given, NEW b \in given, IdOf(a) = IdOf(b)
  PROVE  a = b
BY DEF IdOf, IdsUnique

LEMMA StrangersStep ==
  ASSUME Typed, Kept, HostStages, ClosedStages, IdsUnique, hasty = {}, Known, Following,
         Strangers, NEW p \in Players, Step(p) \/ UNCHANGED vars
  PROVE  Strangers'
<1> USE DEF Following
<1>1. SUFFICES ASSUME NEW h \in Players, NEW q \in Players, Client(q)', asked'[q] # h,
                      taken'[q][h] = 0
               PROVE  /\ \A id : Shows(h, q, id)' =>
                           /\ id \notin Ids(list'[q]) \cup gone'[q]
                           /\ \A g \in Players \ {h} : ~Shows(g, q, id)'
                      /\ \A i \in DOMAIN log'[h][q] :
                           /\ log'[h][q][i].ty # "List"
                           /\ log'[h][q][i].ty = "Create" => log'[h][q][i].who # q
  BY DEF Strangers
<1>2. CASE asked[q] = h
  <2>1. FALSE
    <3>1. ASSUME NEW k \in Players, AskToJoin(p, k) PROVE q = p => asked[q] = NoPlayer
      BY <3>1, AskerOut
    <3>2. ASSUME NEW k \in Players, AskToJoin(p, k) PROVE q # p => asked'[q] = asked[q]
      BY <3>2, AskerOut
    <3> QED
      BY <1>1, <1>2, <3>1, <3>2, AskedKept, PlayersAssumption
  <2> QED
    BY <2>1
<1>3. CASE asked[q] # h
  <2>1. Client(q)
    BY <1>1, ClientTold
  <2>2. taken[q][h] = 0
    <3>1. taken \in [Players -> [Players -> Nat]]
      BY DEF Kept
    <3>2. ASSUME NEW k \in Players, HearNewHost(p, k) PROVE taken[q][h] = 0
      <4>1. taken' = [taken EXCEPT ![p][k] = @ + 1]
        BY <3>2 DEF HearNewHost
      <4> QED
        BY <1>1, <3>1, <4>1
    <3>3. taken' = taken \/ \E k \in Players : HearNewHost(p, k)
      BY SettledSteps DEF Settles, AskToJoin, Connect, TakeOver, readVars
    <3> QED
      BY <1>1, <3>2, <3>3
  <2>3. /\ \A id : Shows(h, q, id) =>
             /\ id \notin Ids(list[q]) \cup gone[q]
             /\ \A g \in Players \ {h} : ~Shows(g, q, id)
        /\ \A i \in DOMAIN log[h][q] :
             /\ log[h][q][i].ty # "List"
             /\ log[h][q][i].ty = "Create" => log[h][q][i].who # q
    BY <1>3, <2>1, <2>2 DEF Strangers
  <2>4. ASSUME NEW i \in DOMAIN log'[h][q]
        PROVE  /\ log'[h][q][i].ty # "List"
               /\ log'[h][q][i].ty = "Create" => log'[h][q][i].who # q
    <3>1. Sends(h, q)
      BY LogStep
    <3> QED
      BY <2>3, <3>1 DEF Sends, Sendable, Lengthens
  <2>5. ASSUME NEW id, Shows(h, q, id)'
        PROVE  /\ id \notin Ids(list'[q]) \cup gone'[q]
               /\ \A g \in Players \ {h} : ~Shows(g, q, id)'
    <3>1. Shows(h, q, id)
      BY <2>5, ShowsStep
    <3>2. /\ id \notin Ids(list[q]) \cup gone[q]
          /\ \A g \in Players \ {h} : ~Shows(g, q, id)
      BY <2>3, <3>1
    <3>3. \A g \in Players \ {h} : ~Shows(g, q, id)'
      BY <3>2, ShowsStep
    <3>4. id \notin gone'[q]
      BY <1>1, <3>2, ClientTold
    <3>5. id \notin Ids(list'[q])
      <4>1. ASSUME q = p, Handle(p) PROVE id \notin Shown(Now(p))
        <5>1. from[p] \in Players /\ next[p] + 1 \in DOMAIN log[from[p]][p] /\ Reading(p)
          BY <4>1, NowType
        <5>2. from[p] # h
          BY <1>3, <2>2, <4>1, <5>1 DEF FollowsAsked
        <5>3. ~Shows(from[p], p, id)
          BY <3>2, <4>1, <5>1, <5>2
        <5> QED
          BY <5>1, <5>3 DEF Shows, Now
      <4>2. ASSUME NEW a \in given, a.who = q PROVE id # IdOf(a)
        <5>1. SUFFICES ASSUME id = IdOf(a) PROVE FALSE
          OBVIOUS
        <5>2. PICK i \in DOMAIN log[h][q] : id \in Shown(log[h][q][i])
          BY <3>1 DEF Shows
        <5>3. PICK x : x = log[h][q][i]
          OBVIOUS
        <5>4. x.ty # "List" /\ (x.ty = "Create" => x.who # q) /\ Names(x) \subseteq given
          BY <2>3, <5>3 DEF Known, KnownLogs, KnownMessage
        <5>5. PICK b \in Names(x) : id = IdOf(b)
          BY <5>2, <5>3 DEF Shown
        <5>6. b.who # q
          BY <5>4, <5>5 DEF Names
        <5>7. a = b
          BY <5>1, <5>4, <5>5, SameId
        <5> QED
          BY <4>2, <5>6, <5>7
      <4>3. CASE Ids(list'[q]) \subseteq Ids(list[q])
        BY <3>2, <4>3
      <4>4. CASE q = p /\ Handle(p) /\ Ids(list'[q]) \subseteq Ids(list[q]) \cup Shown(Now(p))
        BY <3>2, <4>1, <4>4
      <4>5. ASSUME NEW a \in given, q = p, a.who = p, Ids(list'[q]) \subseteq Ids(list[q]) \cup {IdOf(a)}
            PROVE  id \notin Ids(list'[q])
        BY <3>2, <4>2, <4>5
      <4> QED
        BY <4>3, <4>4, <4>5, IdsStep
    <3> QED
      BY <3>3, <3>4, <3>5
  <2> QED
    BY <2>4, <2>5
<1> QED
  BY <1>2, <1>3

LEMMA LeaveIsLastStep ==
  ASSUME Typed, LeaveIsLast, NEW p \in Players, Step(p) \/ UNCHANGED vars
  PROVE  LeaveIsLast'
<1>1. SUFFICES ASSUME NEW h \in Players, NEW q \in Players,
                      NEW i \in DOMAIN log'[h][q], NEW j \in DOMAIN log'[h][q],
                      log'[h][q][i].ty = "Leave", i < j
               PROVE  log'[h][q][i].id \notin Shown(log'[h][q][j])
  BY DEF LeaveIsLast
<1>2. Sends(h, q)
  BY LogStep
<1>3. CASE j \notin DOMAIN log[h][q]
  BY <1>3, ShowsStep
<1>4. CASE j \in DOMAIN log[h][q]
  <2>1. i \in DOMAIN log[h][q]
    <3>1. PICK n \in Nat : DOMAIN log[h][q] = 1..n
      BY LogType
    <3>2. DOMAIN log'[h][q] \subseteq Nat \ {0}
      <4>1. log' \in [Players -> [Players -> Seq(Message)]]
        BY SentTypes, StepOfNext
      <4> QED
        BY <4>1, LenProperties
    <3> QED
      BY <1>1, <1>4, <3>1, <3>2
  <2> QED
    BY <1>1, <1>2, <1>4, <2>1 DEF Sends, Lengthens, LeaveIsLast
<1> QED
  BY <1>3, <1>4

-----------------------------------------------------------------------------
(* A host that acts has not told its clients that one it lists has left *)

\* Who acts acted before, or has just taken over.
LEMMA ActsStep ==
  ASSUME Typed, HostStages, ClosedStages, NEW p \in Players, Step(p) \/ UNCHANGED vars,
         NEW h \in Players, Acts(h)'
  PROVE  \/ Acts(h)
         \/ ~host[h] /\ st[h] # "over" /\ \E m \in net : TakeOver(p, m)
<1> USE ControlTypes
<1>1. CASE Settles
  BY <1>1 DEF Settles
<1>2. ASSUME NEW m \in net, TakeOver(p, m) PROVE Acts(h) \/ (~host[h] /\ st[h] # "over")
  BY <1>2, TakeOverStep DEF Acts, Present, Alive
<1>3. ASSUME \/ \E k \in Players : AskToJoin(p, k)
             \/ \E m \in net : Connect(p, m)
      PROVE  Acts(h)
  BY <1>3, MovingSteps DEF Moves, Acts, Connected, Present, Alive, HostStages
<1>4. ASSUME NEW k \in Players, HearNewHost(p, k) PROVE Acts(h)
  BY <1>4, QuietSteps DEF Acts, Present, Alive
<1> QED
  BY <1>1, <1>2, <1>3, <1>4, SettledSteps

\* No game is told that someone left before it is in the session.
EarlyTold == \A p \in Players : Early(p) => gone[p] = {}

LEMMA EarlyToldStep ==
  ASSUME Typed, Kept, HostStages, ClosedStages, Known, Following, EarlyTold,
         NEW p \in Players, Step(p) \/ UNCHANGED vars
  PROVE  EarlyTold'
<1> USE ControlTypes
<1>1. SUFFICES ASSUME NEW q \in Players, Early(q)' PROVE gone'[q] = {}
  BY DEF EarlyTold
<1>2. Client(q)'
  BY <1>1 DEF Client
<1>3. CASE Early(q) /\ gone'[q] = gone[q]
  BY <1>3 DEF EarlyTold
<1>4. ASSUME Reading(q) PROVE FALSE
  <2>1. CASE Settles
    BY <1>1, <1>4, <2>1 DEF Settles, Early, Reading
  <2>2. CASE \/ \E h \in Players : AskToJoin(p, h) \/ HearNewHost(p, h)
             \/ \E m \in net : Connect(p, m) \/ TakeOver(p, m)
    BY <1>1, <1>4, <2>2, MovingSteps, QuietSteps, TakeOverStep DEF Moves, Early, Reading
  <2> QED
    BY <2>1, <2>2, SettledSteps
<1>5. Early(q)
  BY <1>2, <1>4, ClientTold DEF Client
<1>6. ASSUME q = p, Handle(p) PROVE FALSE
  BY <1>4, <1>6, NowType
<1> QED
  BY <1>2, <1>3, <1>5, <1>6, ClientTold

\* An id that was removed is listed no more, and only one thread has it to tell of.
PendGone ==
  \A p \in Players, t \in Threads : pend[p][t] # None =>
    /\ pend[p][t] \notin Ids(list[p])
    /\ \A u \in Threads : pend[p][u] = pend[p][t] => u = t

LEMMA HostForgetsStep ==
  ASSUME Typed, Kept, HostStages, ClosedStages, ClosedStages', Known, Following, EarlyTold,
         PendGone, HostForgets, NEW p \in Players, Step(p) \/ UNCHANGED vars
  PROVE  HostForgets'
<1> USE ControlTypes DEF Following
<1>1. SUFFICES ASSUME NEW h \in Players, NEW q \in Players, Acts(h)'
               PROVE  /\ \A i \in DOMAIN log'[h][q] :
                           log'[h][q][i].ty = "Leave" => log'[h][q][i].id \notin Ids(list'[h])
                      /\ Reading(q)' /\ from'[q] = h /\ asked'[q] = h
                           => gone'[q] \cap Ids(list'[h]) = {}
  BY DEF HostForgets
<1>2. ASSUME Acts(h), NEW i \in DOMAIN log'[h][q], log'[h][q][i].ty = "Leave"
      PROVE  log'[h][q][i].id \notin Ids(list'[h])
  <2>1. Ids(list'[h]) \subseteq Ids(list[h])
    BY <1>2, HostListStep DEF Acts, Ids
  <2>2. Sends(h, q)
    BY LogStep
  <2>3. CASE i \in DOMAIN log[h][q]
    BY <1>2, <2>1, <2>2, <2>3 DEF Sends, Lengthens, HostForgets
  <2>4. CASE i \notin DOMAIN log[h][q]
    <3>1. PICK x : x = log'[h][q][i]
      OBVIOUS
    <3>2. Sendable(h, q, x) /\ x.ty = "Leave"
      BY <1>2, <2>2, <2>4, <3>1 DEF Sends
    <3>3. ~(st[h] = "counting" /\ st'[h] = "handing")
      BY <1>1 DEF ClosedStages, Acts
    <3>4. PICK t \in Threads : x.id = pend[h][t] /\ pend[h][t] # None
      BY <3>2, <3>3 DEF Sendable
    <3> QED
      BY <2>1, <3>1, <3>4 DEF PendGone
  <2> QED
    BY <2>3, <2>4
<1>3. ASSUME Acts(h), Reading(q)', from'[q] = h, asked'[q] = h
      PROVE  gone'[q] \cap Ids(list'[h]) = {}
  <2>1. Ids(list'[h]) \subseteq Ids(list[h])
    BY <1>3, HostListStep DEF Acts, Ids
  <2>2. asked[q] = h
    <3>1. ASSUME NEW k \in Players, AskToJoin(p, k) PROVE q # p
      BY <1>3, <3>1, MovingSteps DEF Moves, Reading
    <3> QED
      BY <1>3, <3>1, AskedKept, AskerOut
  <2>3. gone[q] = {} \/ (Reading(q) /\ from[q] = h)
    <3>1. CASE Settles
      BY <1>3, <3>1 DEF Settles
    <3>2. ASSUME NEW k \in Players, HearNewHost(p, k) PROVE Reading(q) /\ from[q] = h
      <4>1. UNCHANGED <<st, host, log>> /\ from' = [from EXCEPT ![p] = k]
            /\ \E i \in DOMAIN log[k][p] : log[k][p][i].ty = "NewHost"
        BY <3>2 DEF HearNewHost, selfVars, hostVars
      <4>2. q # p
        BY <1>3, <2>2, <4>1 DEF AskedHost, Typed, TypeOK
      <4> QED
        BY <1>3, <4>1, <4>2 DEF Reading
    <3>3. ASSUME NEW m \in net, Connect(p, m) PROVE gone[q] = {} \/ (Reading(q) /\ from[q] = h)
      <4>1. st[p] = "joining" /\ st' = [st EXCEPT ![p] = "in"] /\ host' = host
            /\ from' = [from EXCEPT ![p] = m.from]
        BY <3>3 DEF Connect
      <4>2. CASE q = p
        BY <4>1, <4>2 DEF EarlyTold, Early
      <4>3. CASE q # p
        BY <1>3, <4>1, <4>3 DEF Reading
      <4> QED
        BY <4>2, <4>3
    <3>4. ASSUME \/ \E k \in Players : AskToJoin(p, k)
                 \/ \E m \in net : TakeOver(p, m)
          PROVE  Reading(q) /\ from[q] = h
      <4>1. from' = from
        BY <3>4 DEF AskToJoin, TakeOver, readVars
      <4>2. Reading(q)
        BY <1>3, <3>4, MovingSteps, TakeOverStep DEF Moves, Reading
      <4> QED
        BY <1>3, <4>1, <4>2
    <3> QED
      BY <3>1, <3>2, <3>3, <3>4, SettledSteps
  <2>4. gone[q] \cap Ids(list[h]) = {}
    BY <1>3, <2>2, <2>3 DEF HostForgets
  <2>5. ASSUME q = p, Handle(p), Now(p).ty = "Leave" PROVE Now(p).id \notin Ids(list[h])
    <3>1. Reading(q) /\ from[q] = h /\ next[p] + 1 \in DOMAIN log[h][p]
      BY ZenonT(60), <1>3, <2>5, NowType DEF Handle, HandleCreate, HandleList, HandleLeave, HandleNewHost
    <3> QED
      BY ZenonT(60), <1>3, <2>5, <3>1 DEF HostForgets, Now
  <2>6. Client(q)'
    BY <1>3 DEF Client
  <2> QED
    BY <2>1, <2>4, <2>5, <2>6, ClientTold
<1>4. ASSUME NEW m \in net, TakeOver(p, m), ~host[h], st[h] # "over"
      PROVE  DOMAIN log'[h][q] = {} /\ asked'[q] # h
  <2>1. log' = log /\ asked' = asked
    BY <1>4 DEF TakeOver
  <2> QED
    BY <1>4, <2>1 DEF HostsTell, Quiet, AskedHost
<1> QED
  BY <1>1, <1>2, <1>3, <1>4, ActsStep

\* What a step writes of the ids that are still to be told of.
Removed(q) ==
  \A t \in Threads :
    \/ pend'[q][t] = pend[q][t]
    \/ pend'[q][t] = None
    \/ /\ pend[q][t] = None /\ pend'[q][t] \in Ids(list[q]) \ Ids(list'[q])
       /\ \A u \in Threads \ {t} : pend'[q][u] = pend[q][u]

LEMMA RemoveWrites ==
  ASSUME Typed, NEW h \in Players, NEW t \in Threads, NEW s \in Joined(list[h]),
         pend[h][t] = None, Remove(h, t, s)
  PROVE  \A q \in Players : Removed(q)
<1>1. list \in [Players -> [Slots -> Line]] /\ pend \in [Players -> [Threads -> AnyId]]
  BY DEF Typed, TypeOK, AnyId
<1>2. s \in Slots
  BY DEF Joined
<1>3. list' = [list EXCEPT ![h][s] = Free] /\ pend' = [pend EXCEPT ![h][t] = IdAt(list[h], s)]
  BY DEF Remove
<1>4. list'[h] = [list[h] EXCEPT ![s] = Free]
  BY <1>1, <1>3
<1>5. IdAt(list[h], s) \in Ids(list[h]) \ Ids(list'[h])
  BY <1>1, <1>2, <1>4, FreeLine, IdAtSlot
<1>6. /\ pend'[h][t] = IdAt(list[h], s)
      /\ \A u \in Threads \ {t} : pend'[h][u] = pend[h][u]
      /\ \A q \in Players \ {h} : pend'[q] = pend[q]
  BY <1>1, <1>3
<1> QED
  BY <1>5, <1>6 DEF Removed

LEMMA PendStep ==
  ASSUME Typed, Kept, Known, NEW p \in Players, Step(p) \/ UNCHANGED vars
  PROVE  \A q \in Players : Removed(q)
<1> USE DEF hostVars, selfVars, readVars, history, told
<1>1. ASSUME pend' = pend PROVE \A q \in Players : Removed(q)
  BY <1>1 DEF Removed
<1>2. ASSUME NEW h \in Players, Destroy(h, p) PROVE \A q \in Players : Removed(q)
  <2>1. CASE pend' = pend
    BY <1>1, <2>1
  <2>2. CASE pend' # pend
    <3>1. /\ Has(list[h], me[p]) /\ Remove(h, "read", me[p].slot)
          /\ pend[h]["read"] = None /\ begged[p] = h
      BY <1>2, <2>2 DEF Destroy
    <3>2. me[p] \in Id
      BY <3>1, GivenTypes DEF Known, KnownPlayer
    <3>3. me[p].slot \in Joined(list[h])
      BY <3>1, <3>2 DEF Has, Joined, Id
    <3> QED
      BY <3>1, <3>3, RemoveWrites DEF Threads
  <2> QED
    BY <2>1, <2>2
<1>3. ASSUME NEW s \in Slots, Kick(p, s) PROVE \A q \in Players : Removed(q)
  BY <1>3, RemoveWrites DEF Kick, Threads
<1>4. ASSUME NEW t \in Threads, Schedule(p, t) PROVE \A q \in Players : Removed(q)
  <2>1. pend' = [pend EXCEPT ![p][t] = None] /\ pend \in [Players -> [Threads -> AnyId]]
    BY <1>4 DEF Schedule, Typed, TypeOK, AnyId
  <2>2. \A q \in Players, u \in Threads : pend'[q][u] \in {pend[q][u], None}
    BY ZenonT(60), <2>1
  <2> QED
    BY <2>2 DEF Removed
<1>5. ASSUME \/ \E h \in Players : AskToJoin(p, h) \/ AnswerAgain(h, p) \/ HearNewHost(p, h)
             \/ \E m \in net : Connect(p, m) \/ ReadBye(p, m) \/ TakeOver(p, m)
             \/ GiveUp(p) \/ StartLeaving(p) \/ TestAgain(p) \/ AskToLeave(p) \/ EndSession(p)
             \/ CloseSession(p) \/ ReadCount(p)
             \/ HandOver(p) \/ Proclaim(p) \/ HearLeave(p) \/ UNCHANGED vars
      PROVE  pend' = pend
  BY ZenonT(60), <1>5 DEF AskToJoin, AnswerAgain, HearNewHost, Connect, ReadBye, TakeOver, GiveUp,
              StartLeaving, TestAgain, AskToLeave, EndSession, CloseSession, ReadCount, HandOver,
              Proclaim, HearLeave, vars
<1>6. ASSUME Handle(p) PROVE pend' = pend
  BY ZenonT(60), <1>6 DEF Handle, HandleCreate, HandleList, HandleLeave, HandleNewHost
<1> QED
  BY <1>1, <1>2, <1>3, <1>4, <1>5, <1>6 DEF Step

LEMMA PendGoneStep ==
  ASSUME Typed, Kept, HostStages, ClosedStages, Known, Following, PendGone,
         NEW p \in Players, Step(p) \/ UNCHANGED vars
  PROVE  PendGone'
<1> USE DEF Following
<1>1. SUFFICES ASSUME NEW q \in Players, NEW t \in Threads, pend'[q][t] # None
               PROVE  /\ pend'[q][t] \notin Ids(list'[q])
                      /\ \A u \in Threads : pend'[q][u] = pend'[q][t] => u = t
  BY DEF PendGone
<1>2. Removed(q)
  BY PendStep
<1>3. \A u \in Threads : pend[q][u] # None =>
        pend[q][u] \notin Ids(list[q]) /\ pend[q][u] \notin Ids(list'[q])
  BY HostListStep DEF HostsTell, PendGone, Ids
<1>4. \A u \in Threads : \/ pend'[q][u] = pend[q][u]
                         \/ pend'[q][u] = None
                         \/ pend'[q][u] \in Ids(list[q]) \ Ids(list'[q])
                            /\ \A v \in Threads \ {u} : pend'[q][v] = pend[q][v]
  BY <1>2 DEF Removed
<1>5. pend'[q][t] \notin Ids(list'[q])
  BY <1>1, <1>3, <1>4
<1>6. ASSUME NEW u \in Threads, pend'[q][u] = pend'[q][t], u # t PROVE FALSE
  <2>1. CASE pend'[q][u] = pend[q][u] /\ pend'[q][t] = pend[q][t]
    BY <1>1, <1>6, <2>1 DEF PendGone
  <2>2. CASE pend'[q][u] = pend[q][u] /\ pend'[q][t] \in Ids(list[q])
    BY <1>1, <1>3, <1>6, <2>2
  <2>3. CASE pend'[q][t] = pend[q][t] /\ pend'[q][u] \in Ids(list[q])
    BY <1>1, <1>3, <1>6, <2>3
  <2> QED
    BY <1>1, <1>4, <1>6, <2>1, <2>2, <2>3
<1> QED
  BY <1>5, <1>6

-----------------------------------------------------------------------------
(* No game is told twice *)

Excused(p) == p \in dropped \cup stray

NotTwice == twice \subseteq dropped \cup stray

\* Who has left is neither listed, nor to be told of, nor shown by what is still to be
\* handled.
GoneOnce ==
  \A p \in Players : ~Excused(p) =>
    /\ gone[p] \cap Ids(list[p]) = {}
    /\ \A t \in Threads : pend[p][t] \notin gone[p]
    /\ Reading(p) => \A i \in DOMAIN log[from[p]][p] :
                       i > next[p] => Shown(log[from[p]][p][i]) \cap gone[p] = {}

LEMMA ExcusedStays ==
  ASSUME NEW p \in Players, Step(p) \/ UNCHANGED vars
  PROVE  \A q : Excused(q) => Excused(q)'
<1> USE DEF history, told
<1>1. dropped \subseteq dropped'
  <2>1. ASSUME \E h \in Players : AskToJoin(p, h) \/ AnswerAgain(h, p) \/ Destroy(h, p)
                          \/ HearNewHost(p, h)
        PROVE  dropped \subseteq dropped'
    BY ZenonT(60), <2>1 DEF AskToJoin, AnswerAgain, Destroy, HearNewHost
  <2>2. ASSUME Handle(p) PROVE dropped \subseteq dropped'
    BY ZenonT(60), <2>2 DEF Handle, HandleCreate, HandleList, HandleLeave, HandleNewHost
  <2>3. ASSUME \/ \E m \in net : Connect(p, m) \/ ReadBye(p, m) \/ TakeOver(p, m)
               \/ GiveUp(p) \/ StartLeaving(p) \/ TestAgain(p) \/ AskToLeave(p) \/ EndSession(p)
               \/ \E s \in Slots : Kick(p, s)
               \/ \E t \in Threads : Schedule(p, t)
               \/ CloseSession(p) \/ ReadCount(p) \/ HandOver(p) \/ Proclaim(p)
               \/ HearLeave(p) \/ UNCHANGED vars
        PROVE  dropped \subseteq dropped'
    BY ZenonT(60), <2>3 DEF Connect, ReadBye, TakeOver, GiveUp, StartLeaving, TestAgain,
          AskToLeave, EndSession, Kick, Schedule,
                CloseSession, ReadCount, HandOver, Proclaim, HearLeave, vars
  <2> QED
    BY <2>1, <2>2, <2>3 DEF Step
<1>2. stray \subseteq stray'
  <2>1. ASSUME \E h \in Players : AskToJoin(p, h) \/ AnswerAgain(h, p) \/ Destroy(h, p)
                          \/ HearNewHost(p, h)
        PROVE  stray \subseteq stray'
    BY <2>1 DEF AskToJoin, AnswerAgain, Destroy, HearNewHost
  <2>2. ASSUME Handle(p) PROVE stray \subseteq stray'
    BY ZenonT(60), <2>2 DEF Handle, HandleCreate, HandleList, HandleLeave, HandleNewHost
  <2>3. ASSUME \/ \E m \in net : Connect(p, m) \/ ReadBye(p, m) \/ TakeOver(p, m)
               \/ GiveUp(p) \/ StartLeaving(p) \/ TestAgain(p) \/ AskToLeave(p) \/ EndSession(p)
               \/ \E s \in Slots : Kick(p, s)
               \/ \E t \in Threads : Schedule(p, t)
               \/ CloseSession(p) \/ ReadCount(p) \/ HandOver(p) \/ Proclaim(p)
               \/ HearLeave(p) \/ UNCHANGED vars
        PROVE  stray \subseteq stray'
    BY ZenonT(60), <2>3 DEF Connect, ReadBye, TakeOver, GiveUp, StartLeaving, TestAgain,
          AskToLeave, EndSession, Kick, Schedule,
                CloseSession, ReadCount, HandOver, Proclaim, HearLeave, vars
  <2> QED
    BY <2>1, <2>2, <2>3 DEF Step
<1> QED
  BY <1>1, <1>2 DEF Excused

\* Where a client is in what it handles.
LEMMA ReadsOn ==
  ASSUME Typed, HostStages, ClosedStages, NEW p \in Players, Step(p) \/ UNCHANGED vars,
         NEW q \in Players, Reading(q)'
  PROVE  \/ Reading(q) /\ from'[q] = from[q] /\ next'[q] >= next[q]
         \/ st[q] = "joining"
         \/ \E h \in Players : HearNewHost(p, h) /\ q = p
<1> USE ControlTypes
<1>1. next \in [Players -> Nat] /\ from \in [Players -> Players \cup {NoPlayer}]
  BY DEF Typed, TypeOK
<1>2. ASSUME NEW h \in Players, HearNewHost(p, h), q # p
      PROVE  Reading(q) /\ from'[q] = from[q] /\ next'[q] >= next[q]
  <2>1. UNCHANGED <<st, host>> /\ from'[q] = from[q] /\ next'[q] = next[q]
    BY <1>1, <1>2 DEF HearNewHost, selfVars
  <2> QED
    BY <1>1, <2>1 DEF Reading
<1>3. ASSUME NEW m \in net, Connect(p, m)
      PROVE  \/ Reading(q) /\ from'[q] = from[q] /\ next'[q] >= next[q]
             \/ st[q] = "joining"
  <2>1. CASE q = p
    BY <1>3, <2>1 DEF Connect
  <2>2. CASE q # p
    <3>1. st'[q] = st[q] /\ host' = host /\ from'[q] = from[q] /\ next' = next
      BY <1>1, <1>3, <2>2 DEF Connect
    <3> QED
      BY <1>1, <3>1 DEF Reading
  <2> QED
    BY <2>1, <2>2
<1>4. ASSUME ~\E h \in Players : HearNewHost(p, h), ~\E m \in net : Connect(p, m)
      PROVE  Reading(q) /\ from'[q] = from[q] /\ next'[q] >= next[q]
  <2>1. Reading(q) /\ from' = from
    <3>1. CASE Settles
      BY <3>1 DEF Settles
    <3>2. ASSUME \/ \E k \in Players : AskToJoin(p, k)
                 \/ \E m \in net : TakeOver(p, m)
          PROVE  Reading(q) /\ from' = from
      BY SMTT(40), <3>2, MovingSteps, TakeOverStep DEF Moves, Reading, AskToJoin, TakeOver, readVars
    <3> QED
      BY <1>4, <3>1, <3>2, SettledSteps
  <2>2. ASSUME Handle(p) PROVE next' = [next EXCEPT ![p] = @ + 1]
    BY ZenonT(60), <2>2 DEF Handle, HandleCreate, HandleList, HandleLeave, HandleNewHost, Takes
  <2>3. ASSUME \/ \E h \in Players : AskToJoin(p, h) \/ AnswerAgain(h, p) \/ Destroy(h, p)
               \/ \E m \in net : ReadBye(p, m) \/ TakeOver(p, m)
               \/ GiveUp(p) \/ StartLeaving(p) \/ TestAgain(p) \/ AskToLeave(p) \/ EndSession(p)
               \/ \E s \in Slots : Kick(p, s)
               \/ \E t \in Threads : Schedule(p, t)
               \/ CloseSession(p) \/ ReadCount(p) \/ HandOver(p) \/ Proclaim(p)
               \/ HearLeave(p) \/ UNCHANGED vars
        PROVE  next' = next
    BY ZenonT(60), <2>3 DEF AskToJoin, AnswerAgain, Destroy, ReadBye, TakeOver, GiveUp,
          StartLeaving, TestAgain, AskToLeave,
                EndSession, Kick, Schedule, CloseSession, ReadCount, HandOver, Proclaim,
                HearLeave, vars, readVars
  <2>4. next' = next \/ next' = [next EXCEPT ![p] = @ + 1]
    BY <1>4, <2>2, <2>3 DEF Step
  <2> QED
    BY <1>1, <2>1, <2>4
<1> QED
  BY <1>2, <1>3, <1>4

\* The removal of a line of the list.
LEMMA Removal ==
  ASSUME Typed, NEW p \in Players, NEW id \in Ids(list[p]), id \in Id,
         list' = [list EXCEPT ![p] = Without(@, id)]
  PROVE  /\ Ids(list'[p]) \subseteq Ids(list[p]) /\ id \notin Ids(list'[p])
         /\ \A q \in Players \ {p} : list'[q] = list[q]
<1>1. list \in [Players -> [Slots -> Line]] /\ id.slot \in Slots
  BY DEF Typed, TypeOK, Id
<1>2. list'[p] = [list[p] EXCEPT ![id.slot] = Free] /\ \A q \in Players \ {p} : list'[q] = list[q]
  BY <1>1 DEF Without
<1>3. Has(list[p], id)
  BY <1>1, HasId
<1>4. IdAt(list[p], id.slot) = id
  BY <1>3 DEF Has, IdAt, Id
<1>5. Admissions(list'[p]) \subseteq Admissions(list[p]) /\ id \notin Ids(list'[p])
  BY <1>1, <1>2, <1>4, FreeLine
<1> QED
  BY <1>2, <1>5 DEF Ids

\* The game of p is told of one it was not told of.
LEMMA ToldOf ==
  ASSUME Kept, NEW p \in Players, NEW id, Tell(p, id)
  PROVE  /\ gone'[p] = gone[p] \cup {id}
         /\ \A q \in Players \ {p} : gone'[q] = gone[q]
         /\ twice' = twice \/ (id \in gone[p] /\ twice' = twice \cup {p})
BY DEF Kept, Tell

\* What a step tells a game that is not excused is new to it, and it knows no more of it.
Leaves(p, id) ==
  /\ id \notin gone[p] /\ gone'[p] = gone[p] \cup {id}
  /\ id \notin Ids(list'[p]) /\ Ids(list'[p]) \subseteq Ids(list[p])
  /\ \A t \in Threads : pend'[p][t] \in {pend[p][t], None} \ {id}
  /\ Reading(p)' =>
       /\ Reading(p) /\ from'[p] = from[p] /\ next'[p] >= next[p]
       /\ \A i \in DOMAIN log[from[p]][p] :
            i > next'[p] => id \notin Shown(log[from[p]][p][i])

LEMMA ScheduleTells ==
  ASSUME Typed, Kept, HostStages, Known, Following, PendGone, GoneOnce,
         NEW p \in Players, NEW t \in Threads, Schedule(p, t), ~Excused(p)
  PROVE  Leaves(p, pend[p][t]) /\ twice' = twice
<1> USE DEF Following
<1>1. PICK id : id = pend[p][t]
  OBVIOUS
<1>2. id # None /\ pend' = [pend EXCEPT ![p][t] = None] /\ Tell(p, id)
      /\ list' = list /\ UNCHANGED <<st, host>>
  BY <1>1 DEF Schedule, selfVars
<1>3. pend \in [Players -> [Threads -> AnyId]]
  BY DEF Typed, TypeOK, AnyId
<1>4. id \notin gone[p] /\ id \notin Ids(list[p])
      /\ \A u \in Threads : pend[p][u] = id => u = t
  BY <1>1, <1>2 DEF GoneOnce, PendGone
<1>5. pend'[p][t] = None /\ \A u \in Threads \ {t} : pend'[p][u] = pend[p][u]
  BY <1>2, <1>3
<1>6. ~Reading(p)'
  BY <1>1, <1>2 DEF HostsTell, Reading
<1>7. gone'[p] = gone[p] \cup {id} /\ twice' = twice
  BY <1>2, <1>4, ToldOf
<1> QED
  BY <1>1, <1>2, <1>4, <1>5, <1>6, <1>7 DEF Leaves

LEMMA ByeTells ==
  ASSUME Typed, Kept, HostStages, Known, Following, GoneOnce,
         NEW p \in Players, NEW m \in net, ReadBye(p, m), ~Excused(p)
  PROVE  Leaves(p, m.id) /\ twice' = twice
<1> USE DEF Following
<1>1. /\ m.id = me[p] /\ Has(list[p], m.id) /\ Reading(p)
      /\ st' = [st EXCEPT ![p] = "left"] /\ list' = [list EXCEPT ![p] = Without(@, m.id)]
      /\ Tell(p, m.id) /\ pend' = pend
  BY DEF ReadBye, Hears
<1>2. m.id \in Id /\ m.id # None
  BY <1>1, GivenTypes DEF Known, KnownPlayer, Reading
<1>3. m.id \in Ids(list[p])
  BY <1>1, <1>2, HasId DEF Typed, TypeOK
<1>4. Ids(list'[p]) \subseteq Ids(list[p]) /\ m.id \notin Ids(list'[p])
  BY <1>1, <1>2, <1>3, Removal
<1>5. m.id \notin gone[p]
  BY <1>3 DEF GoneOnce
<1>6. \A t \in Threads : pend[p][t] = None
  BY <1>1 DEF HostsTell, Reading
<1>7. ~Reading(p)'
  BY <1>1, ControlTypes DEF Reading
<1>8. gone'[p] = gone[p] \cup {m.id} /\ twice' = twice
  BY <1>1, <1>5, ToldOf
<1> QED
  BY <1>1, <1>2, <1>4, <1>5, <1>6, <1>7, <1>8 DEF Leaves

LEMMA TakeOverTells ==
  ASSUME Typed, Kept, HostStages, Known, Following, GoneOnce,
         NEW p \in Players, NEW m \in net, TakeOver(p, m), ~Excused(p)
  PROVE  UNCHANGED <<gone, twice>> \/ (Leaves(p, m.old) /\ twice' = twice)
<1> USE DEF Following
<1>1. m.ty = "Migrate" /\ ~host[p] /\ host'[p] /\ list' = [list EXCEPT ![p] = Ousted(p, m)]
      /\ pend' = pend
  BY TakeOverStep, ControlTypes DEF TakeOver
<1>2. SUFFICES ASSUME Found(p, m) PROVE Leaves(p, m.old) /\ twice' = twice
  BY DEF TakeOver
<1>3. m.old \in Id /\ m.old # None
  BY <1>1, GivenTypes DEF Known, KnownDatagram
<1>4. list \in [Players -> [Slots -> Line]]
  BY DEF Typed, TypeOK
<1>5. m.old \in Ids(list[p])
  BY <1>2, <1>3, <1>4, HasId DEF Found
<1>6. \A s \in Slots : s # m.old.slot =>
        Ousted(p, m)[s].n = list[p][s].n /\ Ousted(p, m)[s].who = list[p][s].who
  BY <1>4 DEF Ousted, Line
<1>7. Ousted(p, m)[m.old.slot] = Free
  BY <1>2, <1>3 DEF Ousted, Found, Id
<1>8. \A s \in Joined(Ousted(p, m)) :
        /\ s # m.old.slot /\ s \in Joined(list[p])
        /\ Ousted(p, m)[s].n = list[p][s].n /\ Ousted(p, m)[s].who = list[p][s].who
  BY <1>6, <1>7 DEF Joined, Free
<1>9. Admissions(Ousted(p, m)) \subseteq Admissions(list[p])
  BY <1>8, ListFrom
<1>10. m.old \notin Ids(Ousted(p, m))
  <2>1. \A s \in Joined(Ousted(p, m)) : IdOf(Admission(Ousted(p, m), s)).slot = s
    BY DEF IdOf, Admission
  <2> QED
    BY <1>8, <2>1 DEF Ids, Admissions
<1>11. list'[p] = Ousted(p, m)
  BY <1>1, <1>4
<1>12. Ids(list'[p]) \subseteq Ids(list[p]) /\ m.old \notin Ids(list'[p])
  BY <1>9, <1>10, <1>11 DEF Ids
<1>13. m.old \notin gone[p]
  BY <1>5 DEF GoneOnce
<1>14. \A t \in Threads : pend[p][t] = None
  BY <1>1 DEF HostsTell
<1>15. gone'[p] = gone[p] \cup {m.old} /\ twice' = twice
  BY <1>2, <1>13, ToldOf DEF TakeOver
<1> QED
  BY <1>1, <1>3, <1>12, <1>13, <1>14, <1>15 DEF Leaves, Reading

LEMMA LeaveTells ==
  ASSUME Typed, Kept, HostStages, Known, Following, LeaveIsLast, GoneOnce,
         NEW p \in Players, Handle(p), HandleLeave(p, Now(p)), ~Excused(p)'
  PROVE  ~Excused(p) => Leaves(p, Now(p).id) /\ twice' = twice
<1> USE DEF Following
<1>1. PICK x \in Message : x = Now(p) /\ x.ty = "Leave" /\ HandleLeave(p, x)
  BY NowType DEF HandleLeave, Takes
<1>2. /\ Reading(p) /\ from[p] \in Players /\ next[p] + 1 \in DOMAIN log[from[p]][p]
      /\ x = log[from[p]][p][next[p] + 1]
  BY <1>1, NowType DEF Now
<1>3. x.id \in Id /\ x.id # None
  BY <1>1, <1>2, GivenTypes DEF Known, KnownLogs, KnownMessage
<1>4. Has(list[p], x.id) /\ stray' = stray
  BY <1>1 DEF HandleLeave, Excused
<1>5. x.id \in Ids(list[p])
  BY <1>3, <1>4, HasId DEF Typed, TypeOK
<1>6. /\ list' = [list EXCEPT ![p] = Without(@, x.id)]
      /\ next' = [next EXCEPT ![p] = @ + 1]
      /\ again' = [again EXCEPT ![p] = x.id]
      /\ again'[p] # None => Tell(p, again'[p])
      /\ UNCHANGED <<st, host, from, pend>>
  BY <1>1, <1>4 DEF HandleLeave, Takes, selfVars
<1>7. Tell(p, x.id)
  <2>1. again'[p] = x.id
    BY <1>6 DEF Typed, TypeOK
  <2> QED
    BY <1>3, <1>6, <2>1
<1>8. Ids(list'[p]) \subseteq Ids(list[p]) /\ x.id \notin Ids(list'[p])
  BY <1>3, <1>5, <1>6, Removal
<1>9. SUFFICES ASSUME ~Excused(p) PROVE Leaves(p, x.id) /\ twice' = twice
  BY <1>1
<1>10. x.id \notin gone[p]
  BY <1>5, <1>9 DEF GoneOnce
<1>11. \A t \in Threads : pend[p][t] = None
  BY <1>2 DEF HostsTell, Reading
<1>12. gone'[p] = gone[p] \cup {x.id} /\ twice' = twice
  BY <1>7, <1>10, ToldOf
<1>13. next[p] \in Nat /\ next'[p] = next[p] + 1
  BY <1>6 DEF Typed, TypeOK
<1>14. \A i \in DOMAIN log[from[p]][p] : i > next'[p] => x.id \notin Shown(log[from[p]][p][i])
  BY <1>1, <1>2, <1>13, LogType DEF LeaveIsLast
<1>15. \A t \in Threads : pend'[p][t] \in {pend[p][t], None} \ {x.id}
  BY <1>3, <1>6, <1>11
<1>16. Reading(p) /\ from'[p] = from[p] /\ next'[p] >= next[p]
  BY <1>2, <1>6, <1>13
<1> QED
  BY <1>8, <1>10, <1>12, <1>14, <1>15, <1>16 DEF Leaves

Knows(q) ==
  /\ gone[q] \cap Ids(list[q]) = {}
  /\ \A t \in Threads : pend[q][t] \notin gone[q]
  /\ Reading(q) => \A i \in DOMAIN log[from[q]][q] :
                     i > next[q] => Shown(log[from[q]][q][i]) \cap gone[q] = {}

\* What was not shown by the rest of a log is not shown by what a step adds to it.
LEMMA RestOfLog ==
  ASSUME Typed, NEW p \in Players, Step(p) \/ UNCHANGED vars, NEW q \in Players,
         NEW h \in Players, NEW n \in Nat, NEW S,
         \A i \in DOMAIN log[h][q] : i > n => Shown(log[h][q][i]) \cap S = {}
  PROVE  \A i \in DOMAIN log'[h][q] : i > n => Shown(log'[h][q][i]) \cap S = {}
<1>1. Sends(h, q)
  BY LogStep
<1> QED
  BY <1>1, ShowsStep DEF Sends, Lengthens

LEMMA LeavesKeeps ==
  ASSUME Typed, Kept, Known, HostStages, ClosedStages, NEW p \in Players,
         Step(p) \/ UNCHANGED vars, Knows(p), NEW id, id # None, Leaves(p, id)
  PROVE  Knows(p)'
<1>1. gone'[p] = gone[p] \cup {id}
  BY DEF Leaves
<1>2. gone'[p] \cap Ids(list'[p]) = {}
  BY <1>1 DEF Leaves, Knows
<1>3. \A t \in Threads : pend'[p][t] \notin gone'[p]
  <2>1. None \notin gone[p]
    BY GivenTypes DEF Known, KnownPlayer
  <2> QED
    BY <1>1, <2>1 DEF Leaves, Knows
<1>4. ASSUME Reading(p)'
      PROVE  \A i \in DOMAIN log'[from'[p]][p] :
               i > next'[p] => Shown(log'[from'[p]][p][i]) \cap gone'[p] = {}
  <2>1. /\ Reading(p) /\ from'[p] = from[p] /\ next'[p] >= next[p]
        /\ \A i \in DOMAIN log[from[p]][p] : i > next'[p] => id \notin Shown(log[from[p]][p][i])
    BY <1>4 DEF Leaves
  <2>2. from[p] \in Players /\ next[p] \in Nat
    BY <2>1 DEF Typed, TypeOK, SentOK
  <2>3. next'[p] \in Nat
    <3>1. Typed'
      BY TypedStep, StepOfNext
    <3> QED
      BY <3>1 DEF Typed, TypeOK
  <2>4. DOMAIN log[from[p]][p] \subseteq Nat
    BY <2>2, LogType
  <2>5. \A i \in DOMAIN log[from[p]][p] : i > next'[p] => i > next[p]
    BY <2>1, <2>2, <2>3, <2>4
  <2>6. \A i \in DOMAIN log[from[p]][p] :
          i > next'[p] => Shown(log[from[p]][p][i]) \cap gone'[p] = {}
    BY <1>1, <2>1, <2>5 DEF Knows
  <2>7. PICK n \in Nat, h \in Players : n = next'[p] /\ h = from[p]
    BY <2>2, <2>3
  <2>8. PICK S : S = gone'[p]
    OBVIOUS
  <2>9. \A i \in DOMAIN log'[h][p] : i > n => Shown(log'[h][p][i]) \cap S = {}
    BY <2>6, <2>7, <2>8, RestOfLog
  <2> QED
    BY <2>1, <2>7, <2>8, <2>9
<1> QED
  BY <1>2, <1>3, <1>4 DEF Knows

LEMMA UntoldKeeps ==
  ASSUME Typed, Kept, HostStages, ClosedStages, Known, Following, EarlyTold, Strangers,
         NEW p \in Players, Step(p) \/ UNCHANGED vars, NEW q \in Players,
         Knows(q), gone'[q] = gone[q], ~Excused(q)'
  PROVE  Knows(q)'
<1> USE DEF Following
<1>1. gone[q] \cap Ids(list'[q]) = {}
  <2>1. CASE Ids(list'[q]) \subseteq Ids(list[q])
    BY <2>1 DEF Knows
  <2>2. CASE q = p /\ Handle(p) /\ Ids(list'[q]) \subseteq Ids(list[q]) \cup Shown(Now(p))
    <3>1. Reading(q) /\ next[q] + 1 \in DOMAIN log[from[q]][q] /\ next[q] \in Nat
      BY <2>2, NowType DEF Typed, TypeOK
    <3>2. Shown(Now(p)) \cap gone[q] = {}
      BY <2>2, <3>1 DEF Knows, Now
    <3> QED
      BY <2>2, <3>2 DEF Knows
  <2>3. CASE st[q] = "joining"
    BY <2>3 DEF EarlyTold, Early
  <2> QED
    BY <2>1, <2>2, <2>3, IdsStep
<1>2. \A t \in Threads : pend'[q][t] \notin gone[q]
  <2>1. Removed(q)
    BY PendStep
  <2>2. None \notin gone[q]
    BY GivenTypes DEF Known, KnownPlayer
  <2> QED
    BY <2>1, <2>2 DEF Removed, Knows
<1>3. ASSUME Reading(q)'
      PROVE  \A i \in DOMAIN log'[from'[q]][q] :
               i > next'[q] => Shown(log'[from'[q]][q][i]) \cap gone[q] = {}
  <2>1. CASE st[q] = "joining"
    BY <2>1 DEF EarlyTold, Early
  <2>2. CASE Reading(q) /\ from'[q] = from[q] /\ next'[q] >= next[q]
    <3>1. from[q] \in Players /\ next[q] \in Nat
      BY <2>2 DEF Typed, TypeOK, SentOK
    <3>2. next'[q] \in Nat
      <4>1. Typed'
        BY TypedStep, StepOfNext
      <4> QED
        BY <4>1 DEF Typed, TypeOK
    <3>3. PICK n \in Nat, h \in Players : n = next[q] /\ h = from[q]
      BY <3>1
    <3>4. \A i \in DOMAIN log[h][q] : i > n => Shown(log[h][q][i]) \cap gone[q] = {}
      BY <2>2, <3>3 DEF Knows
    <3>5. \A i \in DOMAIN log'[h][q] : i > n => Shown(log'[h][q][i]) \cap gone[q] = {}
      BY <3>4, RestOfLog
    <3>6. DOMAIN log'[h][q] \subseteq Nat
      <4>1. log' \in [Players -> [Players -> Seq(Message)]]
        BY SentTypes, StepOfNext
      <4> QED
        BY <4>1, LenProperties
    <3>7. \A i \in DOMAIN log'[h][q] : i > next'[q] => i > n
      BY <2>2, <3>1, <3>2, <3>3, <3>6
    <3> QED
      BY <2>2, <3>3, <3>5, <3>7
  <2>3. ASSUME NEW h \in Players, HearNewHost(p, h), q = p
        PROVE  \A i \in DOMAIN log'[from'[q]][q] :
                 i > next'[q] => Shown(log'[from'[q]][q][i]) \cap gone[q] = {}
    <3>1. /\ Reading(p) /\ log' = log /\ from' = [from EXCEPT ![p] = h]
          /\ \E i \in DOMAIN log[h][p] : log[h][p][i].ty = "NewHost"
          /\ p \notin dropped' => ~(taken[p][h] > 0)
      BY <2>3 DEF HearNewHost, Hears, hostVars
    <3>2. from'[p] = h /\ taken[p][h] = 0
      <4>1. p \notin dropped' /\ taken[p][h] \in Nat
        BY <2>3 DEF Excused, Kept
      <4> QED
        BY <3>1, <4>1 DEF Typed, TypeOK
    <3>3. asked[p] # h
      BY <2>3, <3>1 DEF AskedHost
    <3>4. \A id : Shows(h, p, id) => id \notin gone[p]
      BY <2>3, <3>1, <3>2, <3>3 DEF Strangers, Client
    <3>5. \A i \in DOMAIN log[h][p] : Shown(log[h][p][i]) \cap gone[p] = {}
      BY <3>4 DEF Shows
    <3> QED
      BY <2>3, <3>1, <3>2, <3>5
  <2> QED
    BY <1>3, <2>1, <2>2, <2>3, ReadsOn
<1> QED
  BY <1>1, <1>2, <1>3 DEF Knows

LEMMA GoneOnceStep ==
  ASSUME Typed, Kept, HostStages, ClosedStages, Known, Following, EarlyTold, Strangers,
         LeaveIsLast, PendGone, GoneOnce, NotTwice, NEW p \in Players, Step(p) \/ UNCHANGED vars
  PROVE  GoneOnce' /\ NotTwice'
<1>0. gone \in [Players -> SUBSET AnyId]
  BY DEF Kept
<1>1. \A q \in Players : ~Excused(q) <=> q \notin dropped \cup stray
  BY DEF Excused
<1>2. \A q \in Players : ~Excused(q)' => ~Excused(q) /\ Knows(q)
  BY ExcusedStays DEF GoneOnce, Knows
<1>3. UNCHANGED <<gone, twice>>
      \/ /\ \A q \in Players \ {p} : gone'[q] = gone[q]
         /\ twice' = twice \/ twice' = twice \cup {p}
         /\ ~Excused(p)' => twice' = twice /\ \E id : id # None /\ Leaves(p, id)
  <2>1. \A id : Tell(p, id) => /\ \A q \in Players \ {p} : gone'[q] = gone[q]
                               /\ twice' = twice \/ twice' = twice \cup {p}
    BY <1>0 DEF Tell
  <2>2. ASSUME NEW t \in Threads, Schedule(p, t)
        PROVE  /\ Tell(p, pend[p][t]) /\ pend[p][t] # None
               /\ ~Excused(p)' => twice' = twice /\ Leaves(p, pend[p][t])
    BY <1>2, <2>2, ScheduleTells DEF Schedule
  <2>3. ASSUME NEW m \in net, ReadBye(p, m)
        PROVE  /\ Tell(p, m.id) /\ m.id # None
               /\ ~Excused(p)' => twice' = twice /\ Leaves(p, m.id)
    <3>1. m.id # None /\ Tell(p, m.id)
      BY <2>3, GivenTypes DEF ReadBye, Hears, Reading, Known, KnownPlayer
    <3> QED
      BY <1>2, <2>3, <3>1, ByeTells
  <2>4. ASSUME NEW m \in net, TakeOver(p, m)
        PROVE  \/ UNCHANGED <<gone, twice>>
               \/ /\ Tell(p, m.old) /\ m.old # None
                  /\ ~Excused(p)' => UNCHANGED <<gone, twice>> \/ (twice' = twice /\ Leaves(p, m.old))
    <3>1. m.old # None
      BY ZenonT(60), <2>4, TakeOverStep, GivenTypes DEF Known, KnownDatagram, Handovers
    <3>2. UNCHANGED <<gone, twice>> \/ Tell(p, m.old)
      BY <2>4 DEF TakeOver
    <3> QED
      BY <1>2, <2>4, <3>1, <3>2, TakeOverTells
  <2>5. ASSUME Handle(p), HandleLeave(p, Now(p))
        PROVE  \/ UNCHANGED <<gone, twice>>
               \/ /\ \E id : Tell(p, id)
                  /\ ~Excused(p)' => twice' = twice /\ \E id : id # None /\ Leaves(p, id)
    <3>1. UNCHANGED <<gone, twice>> \/ \E id : Tell(p, id)
      BY <2>5 DEF HandleLeave
    <3>2. Now(p).id # None
      BY <2>5, NowType, GivenTypes DEF Known, KnownLogs, KnownMessage, Now, HandleLeave, Takes
    <3> QED
      BY <1>2, <2>5, <3>1, <3>2, LeaveTells
  <2> QED
    BY <2>1, <2>2, <2>3, <2>4, <2>5, ToldSteps
<1>4. ASSUME NEW q \in Players, ~Excused(q)' PROVE Knows(q)'
  <2>1. CASE gone'[q] = gone[q]
    BY <1>2, <1>4, <2>1, UntoldKeeps
  <2>2. ASSUME q = p, NEW id, id # None, Leaves(p, id) PROVE Knows(q)'
    BY <1>2, <1>4, <2>2, LeavesKeeps
  <2> QED
    BY <1>3, <1>4, <2>1, <2>2
<1>5. GoneOnce'
  BY <1>4 DEF GoneOnce, Knows
<1>6. NotTwice'
  <2>1. twice \subseteq dropped' \cup stray'
    BY ExcusedStays DEF NotTwice, Excused
  <2>2. twice' = twice \/ (twice' = twice \cup {p} /\ Excused(p)')
    BY <1>3
  <2> QED
    BY <2>1, <2>2 DEF NotTwice, Excused
<1> QED
  BY <1>5, <1>6

-----------------------------------------------------------------------------
(* An admission shows an id that is new to everyone *)

\* What an admission adds to a log, of h only.
NewEntries(h, p, a) ==
  /\ \A g, q \in Players : g # h => log'[g][q] = log[g][q]
  /\ \A q \in Players : q # p =>
       /\ Lengthens(log[h][q], log'[h][q])
       /\ \A i \in DOMAIN log'[h][q] \ DOMAIN log[h][q] :
            /\ log'[h][q][i].ty = "Create" /\ log'[h][q][i].who = p
            /\ Shown(log'[h][q][i]) = {IdOf(a)}
  /\ \A i \in DOMAIN log'[h][p] :
       log'[h][p][i].ty = "List" /\ Shown(log'[h][p][i]) \subseteq Ids(list'[h])

LEMMA AdmitShows ==
  ASSUME Typed, NEW h \in Players, NEW p \in Players, NEW a, Admits(h, p, a)
  PROVE  /\ NewEntries(h, p, a)
         /\ Ids(list'[h]) = Ids(list[h]) \cup {IdOf(a)}
         /\ \A q \in Players : q # h => list'[q] = list[q]
<1>1. \A g, q \in Players : g # h => log'[g][q] = log[g][q]
  BY DEF Admits
<1>2. ASSUME NEW q \in Players, q # p
      PROVE  /\ Lengthens(log[h][q], log'[h][q])
             /\ \A i \in DOMAIN log'[h][q] \ DOMAIN log[h][q] :
                  /\ log'[h][q][i].ty = "Create" /\ log'[h][q][i].who = p
                  /\ Shown(log'[h][q][i]) = {IdOf(a)}
  <2>1. TellsNew(h, q, a) /\ a.who = p
    BY <1>2 DEF Admits
  <2> QED
    BY <2>1 DEF TellsNew, Shown
<1>3. \A i \in DOMAIN log'[h][p] :
        log'[h][p][i].ty = "List" /\ Shown(log'[h][p][i]) \subseteq Ids(list'[h])
  <2>1. TellsAll(h, p)
    BY DEF Admits
  <2> QED
    BY <2>1 DEF TellsAll, Shown, Ids
<1>4. Ids(list'[h]) = Ids(list[h]) \cup {IdOf(a)}
  BY DEF Admits, Ids
<1>5. \A q \in Players : q # h => list'[q] = list[q]
  BY DEF Admits
<1> QED
  BY <1>1, <1>2, <1>3, <1>4, <1>5 DEF NewEntries

\* What the host that admits and the player it admits are to each other.
LEMMA Admitting ==
  ASSUME Typed, NEW h \in Players, NEW p \in Players, Admit(h, p)
  PROVE  /\ UNCHANGED <<st, me, host, closed, half, pend, asked, taken, from, next, gone, twice,
                        stray, dropped>>
         /\ host[h] /\ half[h] = {} /\ Acts(h) /\ asked[p] = h
BY AdmitStep DEF Admit, selfVars, readVars, told, Acts, Present, Connected, Reads

LEMMA StrangersAdmit ==
  ASSUME Typed, Kept, HostStages, Known, Following, Strangers, KnowsLast,
         NEW h \in Players, NEW p \in Players, Admit(h, p)
  PROVE  Strangers'
<1> USE DEF Following
<1>1. PICK a : Admits(h, p, a)
  BY AdmitWrites
<1>2. NewEntries(h, p, a) /\ \A q \in Players : q # h => list'[q] = list[q]
  BY <1>1, AdmitShows
<1>3. IdOf(a) \notin GivenIds
  BY <1>1, NewId
<1>4. UNCHANGED <<st, host, asked, taken, gone>> /\ host[h] /\ Acts(h) /\ asked[p] = h
  BY Admitting
<1>5. SUFFICES ASSUME NEW g \in Players, NEW q \in Players, Client(q), asked[q] # g,
                      taken[q][g] = 0
               PROVE  /\ \A id : Shows(g, q, id)' =>
                           /\ id \notin Ids(list'[q]) \cup gone[q]
                           /\ \A k \in Players \ {g} : ~Shows(k, q, id)'
                      /\ \A i \in DOMAIN log'[g][q] :
                           /\ log'[g][q][i].ty # "List"
                           /\ log'[g][q][i].ty = "Create" => log'[g][q][i].who # q
  BY <1>4 DEF Strangers, Client, Reading, Early
<1>6. list'[q] = list[q]
  <2>1. q # h
    BY <1>4, <1>5 DEF Client, Reading, Early, HostStages
  <2> QED
    BY <1>2, <2>1
<1>7. /\ \A id : Shows(g, q, id) =>
           /\ id \notin Ids(list[q]) \cup gone[q]
           /\ \A k \in Players \ {g} : ~Shows(k, q, id)
      /\ \A i \in DOMAIN log[g][q] :
           log[g][q][i].ty # "List" /\ (log[g][q][i].ty = "Create" => log[g][q][i].who # q)
  BY <1>5 DEF Strangers
<1>8. IdOf(a) \notin Ids(list[q]) \cup gone[q] /\ \A k \in Players : ~Shows(k, q, IdOf(a))
  BY <1>3, ShownIsGiven DEF Known, KnownPlayer
<1>9. \A k \in Players : \A id : k # h => (Shows(k, q, id)' <=> Shows(k, q, id))
  BY <1>2 DEF NewEntries, Shows
<1>10. ASSUME q # p, NEW id, Shows(h, q, id)' PROVE Shows(h, q, id) \/ id = IdOf(a)
  BY <1>2, <1>10 DEF NewEntries, Shows, Lengthens
<1>11. CASE g = h
  <2>1. q # p
    BY <1>4, <1>5, <1>11
  <2>2. ASSUME NEW id, Shows(g, q, id)'
        PROVE  /\ id \notin Ids(list'[q]) \cup gone[q]
               /\ \A k \in Players \ {g} : ~Shows(k, q, id)'
    BY <1>6, <1>7, <1>8, <1>9, <1>10, <1>11, <2>1, <2>2
  <2>3. \A i \in DOMAIN log'[g][q] :
          log'[g][q][i].ty # "List" /\ (log'[g][q][i].ty = "Create" => log'[g][q][i].who # q)
    BY <1>2, <1>7, <1>11, <2>1 DEF NewEntries, Lengthens
  <2> QED
    BY <2>2, <2>3
<1>12. CASE g # h
  <2>1. log'[g][q] = log[g][q]
    BY <1>2, <1>12 DEF NewEntries
  <2>2. CASE q = p
    BY <1>4, <1>12, <2>1, <2>2 DEF OnlyAsked, Quiet, Shows
  <2>3. CASE q # p
    <3>1. \A id : Shows(g, q, id) => ~Shows(h, q, id)'
      BY <1>7, <1>8, <1>10, <1>12, <2>3
    <3> QED
      BY <1>6, <1>7, <1>9, <1>12, <2>1, <3>1
  <2> QED
    BY <2>2, <2>3
<1> QED
  BY <1>11, <1>12

LEMMA LeaveIsLastAdmit ==
  ASSUME Typed, Known, LeaveIsLast, KnowsLast,
         NEW h \in Players, NEW p \in Players, Admit(h, p)
  PROVE  LeaveIsLast'
<1>1. PICK a : Admits(h, p, a)
  BY AdmitWrites
<1>2. NewEntries(h, p, a)
  BY <1>1, AdmitShows
<1>3. IdOf(a) \notin GivenIds
  BY <1>1, NewId
<1>4. SUFFICES ASSUME NEW g \in Players, NEW q \in Players, NEW i \in DOMAIN log'[g][q],
                      NEW j \in DOMAIN log'[g][q], log'[g][q][i].ty = "Leave", i < j
               PROVE  log'[g][q][i].id \notin Shown(log'[g][q][j])
  BY DEF LeaveIsLast
<1>5. CASE g # h
  BY <1>2, <1>4, <1>5 DEF NewEntries, LeaveIsLast
<1>6. CASE g = h /\ q = p
  BY <1>2, <1>4, <1>6 DEF NewEntries
<1>7. CASE g = h /\ q # p
  <2>1. i \in DOMAIN log[h][q] /\ log'[h][q][i] = log[h][q][i]
    BY <1>2, <1>4, <1>7 DEF NewEntries, Lengthens
  <2>2. log[h][q][i].id \in GivenIds
    BY <1>4, <1>7, <2>1 DEF Known, KnownLogs, KnownMessage
  <2>3. CASE j \in DOMAIN log[h][q]
    BY <1>2, <1>4, <1>7, <2>1, <2>3 DEF NewEntries, Lengthens, LeaveIsLast
  <2>4. CASE j \notin DOMAIN log[h][q]
    <3>1. Shown(log'[h][q][j]) = {IdOf(a)}
      BY SMTT(40), <1>2, <1>4, <1>7, <2>4 DEF NewEntries
    <3>2. log'[h][q][i].id \in GivenIds
      BY <2>1, <2>2
    <3> QED
      BY <1>3, <1>7, <3>1, <3>2
  <2> QED
    BY <2>3, <2>4
<1> QED
  BY <1>5, <1>6, <1>7

LEMMA HostForgetsAdmit ==
  ASSUME Typed, Known, HostForgets, OneRight, KnowsLast,
         NEW h \in Players, NEW p \in Players, Admit(h, p)
  PROVE  HostForgets'
<1>1. PICK a : Admits(h, p, a)
  BY AdmitWrites
<1>2. NewEntries(h, p, a) /\ Ids(list'[h]) = Ids(list[h]) \cup {IdOf(a)}
  BY <1>1, AdmitShows
<1>3. IdOf(a) \notin GivenIds
  BY <1>1, NewId
<1>4. UNCHANGED <<st, host, closed, from, asked, gone>> /\ Acts(h)
  BY Admitting
<1>5. \A g \in Players : Acts(g)' => g = h
  BY <1>4 DEF OneRight, Acts, Connected, Present, Alive
<1>6. ASSUME NEW q \in Players, NEW i \in DOMAIN log'[h][q], log'[h][q][i].ty = "Leave"
      PROVE  log'[h][q][i].id \notin Ids(list'[h])
  <2>1. q # p /\ i \in DOMAIN log[h][q] /\ log'[h][q][i] = log[h][q][i]
    BY <1>2, <1>6 DEF NewEntries, Lengthens
  <2>2. log[h][q][i].id \in GivenIds /\ log[h][q][i].id \notin Ids(list[h])
    BY <1>4, <1>6, <2>1 DEF Known, KnownLogs, KnownMessage, HostForgets
  <2> QED
    BY <1>2, <1>3, <2>1, <2>2
<1>7. ASSUME NEW q \in Players, Reading(q), from[q] = h, asked[q] = h
      PROVE  gone[q] \cap Ids(list'[h]) = {}
  BY <1>2, <1>3, <1>4, <1>7 DEF HostForgets, Known, KnownPlayer
<1> QED
  BY <1>4, <1>5, <1>6, <1>7 DEF HostForgets, Reading

LEMMA GoneOnceAdmit ==
  ASSUME Typed, Kept, Known, Following, HostForgets, EarlyTold, PendGone, GoneOnce, NotTwice,
         KnowsLast, NEW h \in Players, NEW p \in Players, Admit(h, p)
  PROVE  EarlyTold' /\ PendGone' /\ GoneOnce' /\ NotTwice'
<1> USE DEF Following
<1>1. PICK a : Admits(h, p, a)
  BY AdmitWrites
<1>2. NewEntries(h, p, a) /\ Ids(list'[h]) = Ids(list[h]) \cup {IdOf(a)}
      /\ \A q \in Players : q # h => list'[q] = list[q]
  BY <1>1, AdmitShows
<1>3. IdOf(a) \notin GivenIds
  BY <1>1, NewId
<1>4. UNCHANGED <<st, host, closed, pend, from, next, asked, gone, twice, stray, dropped>>
      /\ Acts(h) /\ asked[p] = h
  BY Admitting
<1>5. EarlyTold' /\ NotTwice'
  BY <1>4 DEF EarlyTold, Early, NotTwice
<1>6. \A q \in Players : Ids(list'[q]) \subseteq Ids(list[q]) \cup {IdOf(a)}
  BY <1>2
<1>7. PendGone'
  <2>1. \A q \in Players, t \in Threads : pend[q][t] # None => pend[q][t] \in GivenIds
    BY DEF Known, KnownPlayer
  <2> QED
    BY <1>3, <1>4, <1>6, <2>1 DEF PendGone
<1>8. \A q \in Players : IdOf(a) \notin gone[q]
  BY <1>3 DEF Known, KnownPlayer
<1>9. ASSUME NEW q \in Players, Reading(q), ~Excused(q), NEW i \in DOMAIN log'[from[q]][q],
             i > next[q]
      PROVE  Shown(log'[from[q]][q][i]) \cap gone[q] = {}
  <2>1. from[q] \in Players
    BY <1>9 DEF Typed, SentOK
  <2>2. \A j \in DOMAIN log[from[q]][q] :
          j > next[q] => Shown(log[from[q]][q][j]) \cap gone[q] = {}
    BY <1>9 DEF GoneOnce
  <2>3. CASE from[q] # h
    BY <1>2, <1>9, <2>1, <2>2, <2>3 DEF NewEntries
  <2>4. CASE from[q] = h /\ q # p
    BY <1>2, <1>8, <1>9, <2>2, <2>4 DEF NewEntries, Lengthens
  <2>5. CASE from[q] = h /\ q = p
    <3>1. Shown(log'[h][p][i]) \subseteq Ids(list'[h])
      BY <1>2, <1>9, <2>5 DEF NewEntries
    <3>2. gone[p] \cap Ids(list[h]) = {}
      BY <1>4, <1>9, <2>5 DEF HostForgets
    <3> QED
      BY <1>2, <1>8, <2>5, <3>1, <3>2
  <2> QED
    BY <2>3, <2>4, <2>5
<1>10. GoneOnce'
  BY <1>4, <1>6, <1>8, <1>9 DEF GoneOnce, Excused, Reading
<1> QED
  BY <1>5, <1>7, <1>10

\* What holds as long as every host began to leave after its own take-over, for ToldOnce.
TellsOnce ==
  /\ Known /\ Following /\ Strangers /\ LeaveIsLast /\ HostForgets
  /\ EarlyTold /\ PendGone /\ GoneOnce /\ NotTwice
TellInv == Inv /\ Kept /\ (hasty = {} => TellsOnce)

LEMMA TellInvInit == Init => TellInv
<1> SUFFICES ASSUME Init PROVE TellInv
  OBVIOUS
<1>1. Known /\ Following /\ Inv /\ Kept
  BY FollowsInit, InvInit, KeptInit
<1>2. /\ \A h, p \in Players : DOMAIN log[h][p] = {}
      /\ \A p \in Players : ~Reading(p) /\ gone[p] = {} /\ \A t \in Threads : pend[p][t] = None
      /\ twice = {}
  <2>1. \A h, p \in Players : log[h][p] = << >>
    BY DEF Init
  <2>2. \A p \in Players : st[p] = "idle" \/ host[p]
    BY DEF Init
  <2>3. \A p \in Players : gone[p] = {} /\ \A t \in Threads : pend[p][t] = None
    BY DEF Init
  <2>4. twice = {}
    BY DEF Init
  <2> QED
    BY <2>1, <2>2, <2>3, <2>4 DEF Reading
<1>3. Strangers /\ LeaveIsLast /\ HostForgets
  BY <1>2 DEF Strangers, LeaveIsLast, HostForgets, Shows
<1>4. EarlyTold /\ PendGone /\ GoneOnce /\ NotTwice
  BY <1>2 DEF EarlyTold, PendGone, GoneOnce, NotTwice
<1> QED
  BY <1>1, <1>3, <1>4 DEF TellInv, TellsOnce

LEMMA TellsOnceStep ==
  ASSUME Inv, Inv', Kept, TellsOnce, hasty = {}, hasty' = {}, NEW p \in Players,
         Step(p) \/ UNCHANGED vars
  PROVE  TellsOnce'
<1> USE DEF TellsOnce
<1>1. Typed /\ HostStages /\ ClosedStages /\ ClosedStages' /\ OneRight /\ IdsUnique
  BY DEF Inv
<1>2. Known' /\ Following'
  BY <1>1, KnownStep, FollowingStep
<1>3. Strangers' /\ LeaveIsLast' /\ HostForgets'
  BY <1>1, StrangersStep, LeaveIsLastStep, HostForgetsStep
<1>4. EarlyTold' /\ PendGone'
  BY <1>1, EarlyToldStep, PendGoneStep
<1>5. GoneOnce' /\ NotTwice'
  BY <1>1, GoneOnceStep
<1> QED
  BY <1>2, <1>3, <1>4, <1>5

LEMMA TellsOnceAdmit ==
  ASSUME Inv, Kept, TellsOnce, hasty = {}, NEW h \in Players, NEW p \in Players, Admit(h, p)
  PROVE  TellsOnce'
<1> USE DEF TellsOnce
<1>1. Typed /\ HostStages /\ ClosedStages /\ OneRight /\ KnowsLast
  BY DEF Inv
<1>2. Known' /\ Following'
  BY <1>1, KnownAdmit, FollowingAdmit
<1>3. Strangers' /\ LeaveIsLast' /\ HostForgets'
  BY <1>1, StrangersAdmit, LeaveIsLastAdmit, HostForgetsAdmit
<1>4. EarlyTold' /\ PendGone' /\ GoneOnce' /\ NotTwice'
  BY <1>1, GoneOnceAdmit
<1> QED
  BY <1>2, <1>3, <1>4

LEMMA TellInvStep == ASSUME TellInv, [Next]_vars PROVE TellInv'
<1>1. Inv /\ Inv' /\ Kept /\ Kept'
  BY InvStep, KeptStep DEF TellInv, Inv
<1>2. ASSUME hasty' = {} PROVE TellsOnce'
  <2>1. hasty = {} /\ TellsOnce
    BY <1>2, Hasty DEF TellInv
  <2>2. ASSUME NEW p \in Players, Step(p) PROVE TellsOnce'
    BY <1>1, <1>2, <2>1, <2>2, TellsOnceStep
  <2>3. CASE UNCHANGED vars
    BY <1>1, <1>2, <2>1, <2>3, TellsOnceStep, PlayersAssumption
  <2>4. ASSUME NEW h \in Players, NEW p \in Players, Admit(h, p) PROVE TellsOnce'
    BY <1>1, <2>1, <2>4, TellsOnceAdmit
  <2> QED
    BY <2>2, <2>3, <2>4, StepsOrAdmits
<1> QED
  BY <1>1, <1>2 DEF TellInv

\* While no host began to leave before its own take-over was through (hasty = {}): no game is
\* told twice that a player left, by whatever of the kick, the answer to a Destroy, the Leave
\* and the MigrateHost, unless it lost messages of a host (dropped) or handled the Leave of one
\* that it did not list (stray).
THEOREM Told == Spec => []ToldOnce
<1>1. TellInv => ToldOnce
  BY DEF TellInv, TellsOnce, NotTwice, ToldOnce
<1> QED
  BY <1>1, TellInvInit, TellInvStep, PTL DEF Spec

-----------------------------------------------------------------------------
(* What the messages of a log make of a list and a number *)

\* What a client knows of the session: the list, and the number of players.
View == [l : [Slots -> Line], n : Int]
Seen(l, n) == [l |-> l, n |-> n]

Flags(l, id) == [s \in Slots |-> [l[s] EXCEPT !.host = IdAt(l, s) = id]]

\* What is known when message x was handled.
Apply(v, x) ==
  IF x.ty = "Create"
  THEN Seen([v.l EXCEPT ![x.id.slot] = [n |-> x.id.n, who |-> x.who, host |-> FALSE]], x.count)
  ELSE IF x.ty = "List"
  THEN Seen([s \in Slots |-> IF s \in DOMAIN x.part THEN x.part[s] ELSE v.l[s]], x.count)
  ELSE IF x.ty = "Leave" /\ Has(v.l, x.id)
  THEN Seen(Without(v.l, x.id), x.count)
  ELSE IF x.ty = "NewHost"
  THEN Seen(Flags(v.l, x.id), IF Has(v.l, x.id) THEN x.count ELSE v.n)
  ELSE v

\* From v, the messages of L after the first k make w.
Course(c, v, L, k, w) ==
  /\ c[k] = v /\ c[Len(L)] = w
  /\ \A i \in k+1..Len(L) : c[i] = Apply(c[i - 1], L[i])
Leads(v, L, k, w) == k \in 0..Len(L) /\ \E c : Course(c, v, L, k, w)

\* A message makes a view of a view.
LEMMA ApplyType ==
  ASSUME NEW v \in View, NEW x \in Message
  PROVE  Apply(v, x) \in View
<1>1. v.l \in [Slots -> Line] /\ v.n \in Int
  BY DEF View
<1>2. ASSUME x.ty = "Create" PROVE Apply(v, x) \in View
  <2>1. x.id.slot \in Slots /\ x.id.n \in -1..MaxId /\ x.who \in Players /\ x.count \in Int
    BY <1>2, MessageParts, IdParts
  <2>2. [v.l EXCEPT ![x.id.slot] = [n |-> x.id.n, who |-> x.who, host |-> FALSE]] \in [Slots -> Line]
    BY <1>1, <2>1, ListType
  <2> QED
    BY <1>2, <2>1, <2>2 DEF Apply, Seen, View
<1>3. ASSUME x.ty = "List" PROVE Apply(v, x) \in View
  <2>1. x.part \in Parts /\ x.count \in Int
    BY <1>3, MessageParts
  <2>2. \A s \in DOMAIN x.part : x.part[s] \in Line
    BY <2>1 DEF Parts
  <2>3. [s \in Slots |-> IF s \in DOMAIN x.part THEN x.part[s] ELSE v.l[s]] \in [Slots -> Line]
    BY <1>1, <2>2
  <2> QED
    BY <1>3, <2>1, <2>3 DEF Apply, Seen, View
<1>4. ASSUME x.ty = "Leave" PROVE Apply(v, x) \in View
  <2>1. x.id.slot \in Slots /\ x.count \in Int
    BY <1>4, MessageParts, IdParts
  <2>2. Without(v.l, x.id) \in [Slots -> Line]
    BY <1>1, <2>1, ListType DEF Without
  <2> QED
    BY <1>4, <2>1, <2>2 DEF Apply, Seen, View
<1>5. ASSUME x.ty = "NewHost" PROVE Apply(v, x) \in View
  <2>1. x.count \in Int
    BY <1>5, MessageParts
  <2>2. Flags(v.l, x.id) \in [Slots -> Line]
    BY <1>1, HostFlagType DEF Flags
  <2> QED
    BY <1>1, <1>5, <2>1, <2>2 DEF Apply, Seen, View
<1>6. ASSUME x.ty \notin {"Create", "List", "Leave", "NewHost"} PROVE Apply(v, x) = v
  BY <1>6 DEF Apply
<1> QED
  BY <1>2, <1>3, <1>4, <1>5, <1>6

\* Nothing more to handle.
LEMMA LeadsEnd ==
  ASSUME NEW L \in Seq(Message), NEW v
  PROVE  /\ Leads(v, L, Len(L), v)
         /\ \A k, w : Leads(v, L, k, w) /\ k >= Len(L) => w = v
<1>1. PICK n \in Nat : n = Len(L)
  BY LenProperties
<1>2. Leads(v, L, n, v)
  <2>1. PICK c : c = [i \in {n} |-> v]
    OBVIOUS
  <2>2. Course(c, v, L, n, v)
    BY <1>1, <2>1 DEF Course
  <2> QED
    BY <1>1, <2>2 DEF Leads
<1>3. ASSUME NEW k, NEW w, Leads(v, L, k, w), k >= n PROVE w = v
  <2>1. k \in 0..n /\ \E c : Course(c, v, L, k, w)
    BY <1>1, <1>3 DEF Leads
  <2>2. k = n
    BY <1>3, <2>1
  <2> QED
    BY <1>1, <2>1, <2>2 DEF Course
<1> QED
  BY <1>1, <1>2, <1>3

\* The next message is handled.
LEMMA LeadsNext ==
  ASSUME NEW L \in Seq(Message), NEW v, NEW w, NEW k, Leads(v, L, k, w), k < Len(L)
  PROVE  Leads(Apply(v, L[k + 1]), L, k + 1, w)
<1>1. PICK n \in Nat : n = Len(L)
  BY LenProperties
<1>2. k \in 0..n
  BY <1>1 DEF Leads
<1>3. PICK c : Course(c, v, L, k, w)
  BY DEF Leads
<1>4. k + 1 \in k+1..n /\ (k + 1) - 1 = k /\ k + 1 \in 0..n
  BY <1>1, <1>2
<1>5. c[k + 1] = Apply(v, L[k + 1])
  BY <1>1, <1>3, <1>4 DEF Course
<1>6. \A i \in (k+1)+1..n : i \in k+1..n
  BY <1>2
<1>7. Course(c, Apply(v, L[k + 1]), L, k + 1, w)
  BY <1>1, <1>3, <1>5, <1>6 DEF Course
<1> QED
  BY <1>1, <1>4, <1>7 DEF Leads

\* One more message is sent.
LEMMA LeadsOn ==
  ASSUME NEW L \in Seq(Message), NEW x \in Message, NEW v, NEW w, NEW k, Leads(v, L, k, w)
  PROVE  Leads(v, Append(L, x), k, Apply(w, x))
<1>1. PICK n \in Nat : n = Len(L)
  BY LenProperties
<1>2. k \in 0..n
  BY <1>1 DEF Leads
<1>3. PICK c : Course(c, v, L, k, w)
  BY DEF Leads
<1>4. PICK M : M = Append(L, x)
  OBVIOUS
<1>5. Len(M) = n + 1 /\ M[n + 1] = x /\ \A i \in 1..n : M[i] = L[i]
  BY <1>1, <1>4, AppendProperties
<1>6. PICK u : u = Apply(w, x)
  OBVIOUS
<1>7. PICK d : d = [i \in 0..n+1 |-> IF i = n + 1 THEN u ELSE c[i]]
  OBVIOUS
<1>8. d[k] = v /\ d[n + 1] = u /\ d[n] = w
  BY <1>1, <1>2, <1>3, <1>7 DEF Course
<1>9. ASSUME NEW i \in k+1..n+1 PROVE d[i] = Apply(d[i - 1], M[i])
  <2>1. CASE i = n + 1
    BY <1>5, <1>6, <1>8, <2>1
  <2>2. CASE i # n + 1
    <3>1. i \in k+1..n /\ i \in 1..n /\ i - 1 \in 0..n /\ i \in 0..n+1 /\ i - 1 \in 0..n+1 /\ i - 1 # n + 1
      BY <1>2, <2>2
    <3>2. c[i] = Apply(c[i - 1], L[i])
      BY <1>1, <1>3, <3>1 DEF Course
    <3>3. d[i] = c[i] /\ d[i - 1] = c[i - 1] /\ M[i] = L[i]
      BY <1>5, <1>7, <2>2, <3>1
    <3> QED
      BY <3>2, <3>3
  <2> QED
    BY <2>1, <2>2
<1>10. Course(d, v, M, k, u)
  BY <1>5, <1>8, <1>9 DEF Course
<1>11. k \in 0..n+1
  BY <1>2
<1> QED
  BY <1>4, <1>5, <1>6, <1>10, <1>11 DEF Leads

\* What a player knows that was just admitted: its own line.
Own(a) == [Empty EXCEPT ![a.slot] = [n |-> a.n, who |-> a.who, host |-> FALSE]]

\* A line without a player is free.
FreeLines(l) == \A s \in Slots : s \notin Joined(l) => l[s] = Free

\* The PlayerList makes the list and the number of the host of what an admitted player knows.
LEMMA PacketsLead ==
  ASSUME RoomForAll, NEW l \in [Slots -> Line], FreeLines(l),
         NEW a \in Admissions(l), l[a.slot].host = FALSE, NEW n,
         NEW c, c = Cardinality(Joined(l))
  PROVE  Leads(Seen(Own(a), n), ListPackets(l, c), 0, Seen(l, c))
<1>1. PICK s \in Joined(l) : a = Admission(l, s)
  BY DEF Admissions
<1>2. s \in Slots /\ a.slot = s /\ l[s].n = a.n /\ l[s].who = a.who
  BY <1>1 DEF Joined, Admission
<1>3. l[s] = [n |-> a.n, who |-> a.who, host |-> FALSE]
  <2>1. l[s] \in Line
    BY <1>2
  <2> QED
    BY <1>2, <2>1 DEF Line
<1>4. PICK o : o = Own(a)
  OBVIOUS
<1>5. o[s] = l[s] /\ \A t \in Slots \ {s} : o[t] = Free
  BY <1>2, <1>3, <1>4 DEF Own, Empty
<1>6. c \in Nat \ {0} /\ ~(c < 0)
  BY <1>1, JoinedSlots, FS_EmptySet
<1>7. PICK z \in Nat : z = (c + PerPacket - 1) \div PerPacket /\ z >= 1
  BY <1>6, PacketsNeeded
<1>8. PICK L : L = [i \in 1..z |-> [ty |-> "List", part |-> [t \in Part(l, i) |-> l[t]], count |-> c]]
  OBVIOUS
<1>9. L = ListPackets(l, c)
  BY <1>6, <1>7, <1>8 DEF ListPackets
<1>10. Len(L) = z
  <2>0. PICK S : S = {[ty |-> "List", part |-> [t \in Part(l, i) |-> l[t]], count |-> c] : i \in 1..z}
    OBVIOUS
  <2>1. L \in Seq(S)
    <3>1. L \in [1..z -> S]
      BY <1>8, <2>0
    <3> QED
      BY <1>7, <3>1, SeqDef
  <2>2. DOMAIN L = 1..z
    BY <1>8
  <2> QED
    BY <1>7, <2>1, <2>2, LenProperties
<1>11. PICK f : f = [i \in 0..z |->
          Seen([t \in Slots |-> IF \E j \in 1..i : t \in Part(l, j) THEN l[t] ELSE o[t]],
               IF i = 0 THEN n ELSE c)]
  OBVIOUS
<1>12. f[0] = Seen(o, n)
  <2>1. f[0] = Seen([t \in Slots |-> IF \E j \in 1..0 : t \in Part(l, j) THEN l[t] ELSE o[t]], n)
    BY <1>7, <1>11
  <2>2. [t \in Slots |-> IF \E j \in 1..0 : t \in Part(l, j) THEN l[t] ELSE o[t]] = [t \in Slots |-> o[t]]
    OBVIOUS
  <2>3. o = [t \in Slots |-> o[t]]
    BY <1>4 DEF Own, Empty
  <2> QED
    BY <2>1, <2>2, <2>3
<1>13. f[z] = Seen(l, c)
  <2>1. f[z] = Seen([t \in Slots |-> IF \E j \in 1..z : t \in Part(l, j) THEN l[t] ELSE o[t]], c)
    BY <1>7, <1>11
  <2>2. \A t \in Joined(l) : \E j \in 1..z : t \in Part(l, j)
    <3>1. \A t \in Joined(l) : \E j \in DOMAIN L : t \in DOMAIN L[j].part
      BY <1>6, <1>9, PlayerListComplete
    <3> QED
      BY <1>8, <3>1
  <2>3. \A t \in Slots : (IF \E j \in 1..z : t \in Part(l, j) THEN l[t] ELSE o[t]) = l[t]
    BY <1>1, <1>5, <2>2 DEF FreeLines
  <2>4. [t \in Slots |-> IF \E j \in 1..z : t \in Part(l, j) THEN l[t] ELSE o[t]] = l
    BY <2>3
  <2> QED
    BY <2>1, <2>4
<1>14. ASSUME NEW i \in 1..z PROVE f[i] = Apply(f[i - 1], L[i])
  <2>1. i - 1 \in 0..z /\ i \in 0..z /\ i # 0
    OBVIOUS
  <2>2. PICK g : g = [t \in Slots |-> IF \E j \in 1..i-1 : t \in Part(l, j) THEN l[t] ELSE o[t]]
    OBVIOUS
  <2>3. f[i - 1].l = g
    BY <1>11, <2>1, <2>2 DEF Seen
  <2>4. L[i].ty = "List" /\ DOMAIN L[i].part = Part(l, i) /\ L[i].count = c
        /\ \A t \in Part(l, i) : L[i].part[t] = l[t]
    BY <1>8
  <2>5. Apply(f[i - 1], L[i]) =
          Seen([t \in Slots |-> IF t \in Part(l, i) THEN L[i].part[t] ELSE g[t]], c)
    BY <2>3, <2>4 DEF Apply
  <2>6. \A t \in Slots : (\E j \in 1..i : t \in Part(l, j))
                           <=> t \in Part(l, i) \/ \E j \in 1..i-1 : t \in Part(l, j)
    <3>1. \A j \in 1..i : j = i \/ j \in 1..i-1
      OBVIOUS
    <3>2. i \in 1..i /\ \A j \in 1..i-1 : j \in 1..i
      OBVIOUS
    <3> QED
      BY <3>1, <3>2
  <2>7. [t \in Slots |-> IF t \in Part(l, i) THEN L[i].part[t] ELSE g[t]]
          = [t \in Slots |-> IF \E j \in 1..i : t \in Part(l, j) THEN l[t] ELSE o[t]]
    BY <2>2, <2>4, <2>6
  <2> QED
    BY <1>11, <2>1, <2>5, <2>7
<1>15. Course(f, Seen(o, n), L, 0, Seen(l, c))
  BY <1>10, <1>12, <1>13, <1>14 DEF Course
<1> QED
  BY <1>4, <1>7, <1>9, <1>10, <1>15 DEF Leads

\* If all that is left to handle is the Leave of id, it is off the list by then, if it was there.
LEMMA OnlyLeaves ==
  ASSUME NEW L \in Seq(Message), NEW v \in View, NEW w \in View, NEW k, Leads(v, L, k, w),
         NEW id \in Id,
         \A i \in k+1..Len(L) : \/ L[i].ty = "Migrate"
                                \/ L[i].ty = "Leave" /\ L[i].id = id
  PROVE  w.l = v.l \/ (Has(v.l, id) /\ w.l = Without(v.l, id))
<1>1. PICK n \in Nat : n = Len(L)
  BY LenProperties
<1>2. k \in 0..n
  BY <1>1 DEF Leads
<1>3. PICK c : Course(c, v, L, k, w)
  BY DEF Leads
<1> DEFINE Fine(u) == u.l = v.l \/ (Has(v.l, id) /\ u.l = Without(v.l, id))
<1>4. id.slot \in Slots /\ id.n # -1 /\ v.l \in [Slots -> Line]
  BY NumbersAssumption DEF Id, View
<1>5. ASSUME NEW u, NEW i \in k+1..n, Fine(u) PROVE Fine(Apply(u, L[i]))
  <2>1. CASE L[i].ty = "Migrate" \/ (L[i].ty = "Leave" /\ ~Has(u.l, L[i].id))
    <3>1. Apply(u, L[i]) = u
      BY <2>1 DEF Apply
    <3> QED
      BY <1>5, <3>1
  <2>2. CASE L[i].ty = "Leave" /\ Has(u.l, L[i].id) /\ L[i].id = id
    <3>1. Apply(u, L[i]).l = Without(u.l, id)
      BY <2>2 DEF Apply, Seen
    <3>2. ~Has(Without(v.l, id), id)
      BY <1>4 DEF Has, Without, Free
    <3>3. u.l = v.l /\ Has(v.l, id)
      BY <1>5, <2>2, <3>2
    <3> QED
      BY <3>1, <3>3
  <2> QED
    BY <1>1, <2>1, <2>2
<1>6. Fine(v)
  OBVIOUS
<1> HIDE DEF Fine
<1> DEFINE Bad == {i \in 0..n : i >= k /\ ~Fine(c[i])}
<1>7. c[k] = v /\ c[n] = w /\ \A i \in k+1..n : c[i] = Apply(c[i - 1], L[i])
  BY <1>1, <1>3 DEF Course
<1>8. Bad = {}
  <2>1. SUFFICES ASSUME Bad # {} PROVE FALSE
    OBVIOUS
  <2>2. Bad \in SUBSET Nat
    OBVIOUS
  <2>3. PICK i \in Bad : \A j \in Bad : i <= j
    BY <2>1, <2>2, LeastElement
  <2>4. i \in 0..n /\ i >= k /\ ~Fine(c[i])
    OBVIOUS
  <2>5. i # k
    BY <1>6, <1>7, <2>4
  <2>6. i \in k+1..n /\ i - 1 \in 0..n /\ i - 1 >= k /\ ~(i <= i - 1)
    BY <1>2, <2>4, <2>5
  <2>7. Fine(c[i - 1])
    BY <2>3, <2>6
  <2> QED
    BY <1>5, <1>7, <2>4, <2>6, <2>7
<1>9. Fine(c[n])
  BY <1>1, <1>2, <1>8
<1> QED
  BY <1>7, <1>9 DEF Fine

-----------------------------------------------------------------------------
(* What a host has told, and what it still has to *)

\* View w is what follows from all the messages of a host that has list l and number c, but
\* for the removed ids I that it still has to tell of.
Tells(l, c, I, w) ==
  /\ w \in View
  /\ \A s \in Slots : w.l[s] = l[s] \/ (l[s] = Free /\ IdAt(w.l, s) \in I)
  /\ I \cap Ids(w.l) = {} => w.n = c

\* What knows a list knows it, but for a line that is not yet told of, when that line goes.
LEMMA TellsRemoved ==
  ASSUME NEW l \in [Slots -> Line], NEW c \in Int, NEW I, NEW w, Tells(l, c, I, w),
         NEW s \in Joined(l)
  PROVE  Tells([l EXCEPT ![s] = Free], c - 1, I \cup {IdAt(l, s)}, w)
<1>1. s \in Slots /\ l[s].n # -1 /\ w \in View
  BY DEF Joined, Tells
<1>2. l[s] # Free
  BY <1>1 DEF Free
<1>3. w.l[s] = l[s] /\ IdAt(w.l, s) = IdAt(l, s)
  BY <1>1, <1>2 DEF Tells, IdAt
<1>4. IdAt(l, s) \in Ids(w.l)
  <2>1. s \in Joined(w.l)
    BY <1>1, <1>3 DEF Joined
  <2> QED
    BY <1>3, <2>1, IdAtSlot
<1>5. PICK k : k = [l EXCEPT ![s] = Free]
  OBVIOUS
<1>6. k[s] = Free /\ \A t \in Slots \ {s} : k[t] = l[t]
  BY <1>1, <1>5
<1>7. \A t \in Slots : w.l[t] = k[t] \/ (k[t] = Free /\ IdAt(w.l, t) \in I \cup {IdAt(l, s)})
  BY <1>3, <1>6 DEF Tells
<1> QED
  BY <1>1, <1>4, <1>5, <1>7 DEF Tells

\* A Leave tells of a line that went.
LEMMA TellsBye ==
  ASSUME NEW l \in [Slots -> Line], NEW c \in Int, NEW I, NEW w, Tells(l, c, I, w),
         NEW id \in I, id \in Id, id \notin Ids(l),
         NEW x \in Message, x.ty = "Leave", x.id = id, x.count = c
  PROVE  Tells(l, c, I \ {id}, Apply(w, x))
<1>1. w \in View /\ w.l \in [Slots -> Line] /\ Apply(w, x) \in View
  BY ApplyType DEF Tells, View
<1>2. id.slot \in Slots /\ id.n # -1 /\ id = [slot |-> id.slot, n |-> id.n]
  BY NumbersAssumption DEF Id
<1>3. CASE Has(w.l, id)
  <2>1. PICK k : k = Without(w.l, id)
    OBVIOUS
  <2>2. Apply(w, x) = Seen(k, c)
    BY <1>3, <2>1 DEF Apply
  <2>3. k[id.slot] = Free /\ \A s \in Slots \ {id.slot} : k[s] = w.l[s] /\ IdAt(k, s) = IdAt(w.l, s)
    BY <1>1, <1>2, <2>1 DEF Without, IdAt
  <2>4. l[id.slot] = Free
    <3>1. ~Has(l, id)
      BY HasId
    <3>2. w.l[id.slot] # l[id.slot]
      BY <1>3, <3>1 DEF Has
    <3> QED
      BY <1>2, <3>2 DEF Tells
  <2>5. \A s \in Slots \ {id.slot} : IdAt(w.l, s) # id
    BY <1>2 DEF IdAt
  <2>6. \A s \in Slots : k[s] = l[s] \/ (l[s] = Free /\ IdAt(k, s) \in I \ {id})
    BY <2>3, <2>4, <2>5 DEF Tells
  <2> QED
    BY <1>1, <2>2, <2>6 DEF Tells, Seen
<1>4. CASE ~Has(w.l, id)
  <2>1. Apply(w, x) = w
    BY <1>4 DEF Apply
  <2>2. id \notin Ids(w.l)
    BY <1>1, <1>4, HasId
  <2>3. \A s \in Slots : IdAt(w.l, s) # id
    BY <1>2, <1>4 DEF IdAt, Has
  <2>4. (I \ {id}) \cap Ids(w.l) = {} => I \cap Ids(w.l) = {}
    BY <2>2
  <2> QED
    BY <1>1, <2>1, <2>3, <2>4 DEF Tells
<1> QED
  BY <1>3, <1>4

\* A Create tells of a line that came.
LEMMA TellsCreate ==
  ASSUME NEW l \in [Slots -> Line], NEW c, NEW I, NEW w, Tells(l, c, I, w),
         NEW x \in Message, x.ty = "Create", x.id \in Id,
         NEW k, k = [l EXCEPT ![x.id.slot] = [n |-> x.id.n, who |-> x.who, host |-> FALSE]]
  PROVE  Tells(k, x.count, I, Apply(w, x))
<1>1. w \in View /\ w.l \in [Slots -> Line] /\ Apply(w, x) \in View
  BY ApplyType DEF Tells, View
<1>2. x.id.slot \in Slots
  BY DEF Id
<1>3. PICK r : r = [w.l EXCEPT ![x.id.slot] = [n |-> x.id.n, who |-> x.who, host |-> FALSE]]
  OBVIOUS
<1>4. Apply(w, x) = Seen(r, x.count)
  BY <1>3 DEF Apply
<1>5. r[x.id.slot] = k[x.id.slot] /\ \A s \in Slots \ {x.id.slot} : r[s] = w.l[s] /\ k[s] = l[s]
  BY <1>1, <1>2, <1>3
<1>6. \A s \in Slots : r[s] = k[s] \/ (k[s] = Free /\ IdAt(r, s) \in I)
  BY <1>5 DEF Tells, IdAt
<1>7. PICK y : y = Apply(w, x)
  OBVIOUS
<1>8. y.l = r /\ y.n = x.count /\ y \in View
  BY <1>1, <1>4, <1>7 DEF Seen
<1>9. Tells(k, x.count, I, y)
  BY <1>6, <1>8 DEF Tells
<1> QED
  BY <1>7, <1>9

\* With nothing left to tell, what is known is the list and its number.
LEMMA TellsSame ==
  ASSUME NEW l \in [Slots -> Line], NEW c \in Int
  PROVE  /\ Seen(l, c) \in View /\ \A I : Tells(l, c, I, Seen(l, c))
         /\ \A w : Tells(l, c, {}, w) => w = Seen(l, c)
<1>1. Seen(l, c) \in View
  BY DEF Seen, View
<1>2. \A I : Tells(l, c, I, Seen(l, c))
  BY <1>1 DEF Tells, Seen
<1>3. ASSUME NEW w, Tells(l, c, {}, w) PROVE w = Seen(l, c)
  <2>1. w \in View /\ w.n = c /\ \A s \in Slots : w.l[s] = l[s]
    BY <1>3 DEF Tells
  <2>2. w.l = l
    BY <2>1 DEF View
  <2> QED
    BY <2>1, <2>2 DEF View, Seen
<1> QED
  BY <1>1, <1>2, <1>3

-----------------------------------------------------------------------------
(* What a step leaves of a host and of a client *)

\* A host that leads the session, up to handing it over.
Live(h) ==
  /\ host[h] /\ half[h] = {}
  /\ st[h] = "in" \/ (closed[h] /\ st[h] \in {"closing", "counting"})

Untold(h) == {pend[h][t] : t \in Threads} \ {None}

HostKept(h) ==
  Live(h)' => /\ Live(h) /\ list'[h] = list[h] /\ count'[h] = count[h]
              /\ pend'[h] = pend[h] /\ log'[h] = log[h]

\* A player that is a client in the session was so before; who is joining now was so, or asked.
ClientKept(p) ==
  /\ st'[p] = "in" /\ ~host'[p] =>
       /\ st[p] = "in" /\ ~host[p] /\ list'[p] = list[p] /\ count'[p] = count[p]
       /\ next'[p] = next[p] /\ from'[p] = from[p] /\ me'[p] = me[p]
  /\ st'[p] = "joining" => st[p] \in {"joining", "idle"}
  /\ asked'[p] = asked[p] \/ st[p] = "idle"

\* The types of the state, by the functions that a step writes to.
LEMMA StateTypes ==
  ASSUME Typed
  PROVE  /\ list \in [Players -> [Slots -> Line]] /\ count \in [Players -> Int]
         /\ pend \in [Players -> [Threads -> AnyId]]
         /\ log \in [Players -> [Players -> Seq(Message)]]
         /\ me \in [Players -> AnyId]
         /\ from \in [Players -> Players \cup {NoPlayer}] /\ next \in [Players -> Nat]
         /\ tmp \in [Players -> Int]
BY DEF Typed, TypeOK, SentOK, AnyId

\* A host that nothing is written of is kept.
LEMMA StayHost ==
  ASSUME NEW h \in Players, list'[h] = list[h], count'[h] = count[h], pend'[h] = pend[h],
         log'[h] = log[h], Live(h)' => Live(h)
  PROVE  HostKept(h)
BY DEF HostKept

\* A host that leads on is kept, but for removals, Leaves and the end of its take-over.
LEMMA HostKeptSteps ==
  ASSUME Typed, HostStages, ClosedStages, NEW a \in Players, Step(a) \/ UNCHANGED vars, NEW h \in Players
  PROVE  \/ HostKept(h)
         \/ Destroy(h, a)
         \/ h = a /\ (Proclaim(a) \/ (\E s \in Slots : Kick(a, s)) \/ \E t \in Threads : Schedule(a, t))
<1> USE ControlTypes, StateTypes
<1>1. ASSUME NEW g \in Players,
             \/ AskToJoin(a, g) \/ AnswerAgain(g, a) \/ HearNewHost(a, g) \/ HearLeave(a)
             \/ GiveUp(a) \/ StartLeaving(a) \/ TestAgain(a) \/ AskToLeave(a) \/ UNCHANGED vars
      PROVE  HostKept(h)
  <2>1. UNCHANGED <<list, count, pend, log, half>>
    BY ZenonT(60), <1>1 DEF AskToJoin, AnswerAgain, HearNewHost, HearLeave, GiveUp, StartLeaving,
          TestAgain, AskToLeave, vars,
          hostVars
  <2>2. Live(h)' => Live(h)
    <3>1. CASE AskToJoin(a, g) \/ GiveUp(a) \/ StartLeaving(a) \/ TestAgain(a) \/ AskToLeave(a)
      <4>1. PICK v \in {"joining", "over", "left", "going", "asking", "leaving", "closing"} :
              /\ st' = [st EXCEPT ![a] = v] /\ UNCHANGED <<host, closed>>
              /\ v = "closing" => st[a] = "going"
        BY <3>1, MovingSteps DEF Moves
      <4>2. st'[a] = v /\ (h # a => st'[h] = st[h])
        BY <4>1
      <4>3. v = "closing" => ~closed[a]
        BY <4>1 DEF ClosedStages
      <4> QED
        BY <2>1, <4>1, <4>2, <4>3 DEF Live
    <3>2. CASE AnswerAgain(g, a) \/ HearNewHost(a, g) \/ HearLeave(a) \/ UNCHANGED vars
      BY <2>1, <3>2, QuietSteps DEF Live
    <3> QED
      BY <1>1, <3>1, <3>2
  <2> QED
    BY <2>1, <2>2, StayHost
<1>2. ASSUME CloseSession(a) \/ ReadCount(a) PROVE HostKept(h)
  <2>1. UNCHANGED <<list, count, pend, log, half, host>>
    BY ZenonT(60), <1>2 DEF CloseSession, ReadCount, selfVars
  <2>2. Live(h)' => Live(h)
    <3>1. h # a => st'[h] = st[h]
      BY ZenonT(60), <1>2, MovingSteps DEF Moves
    <3>2. st[a] = "in" \/ (st[a] = "closing" /\ closed[a])
      BY <1>2 DEF CloseSession, ReadCount, ClosedStages
    <3>3. h # a => closed'[h] = closed[h]
      BY <1>2 DEF CloseSession, ReadCount
    <3> QED
      BY <2>1, <3>1, <3>2, <3>3 DEF Live
  <2> QED
    BY <2>1, <2>2, StayHost
<1>3. ASSUME NEW m \in net, Connect(a, m) \/ ReadBye(a, m) PROVE HostKept(h)
  <2>1. UNCHANGED <<pend, log, half, host, closed>> /\ ~host[a] /\ h # a => st'[h] = st[h]
    BY <1>3, MovingSteps DEF Connect, ReadBye, selfVars, Moves, HostStages
  <2>2. h # a => list'[h] = list[h] /\ count'[h] = count[h]
    BY <1>3 DEF Connect, ReadBye
  <2> QED
    BY <1>3, <2>1, <2>2, MovingSteps DEF HostKept, Live, Moves, Connect, ReadBye, selfVars, HostStages
<1>4. ASSUME EndSession(a) PROVE HostKept(h)
  <2>1. UNCHANGED <<pend, log, half, count, closed>> /\ ~host'[a]
        /\ (h # a => st'[h] = st[h] /\ host'[h] = host[h] /\ list'[h] = list[h])
    BY <1>4 DEF EndSession
  <2> QED
    BY <2>1 DEF HostKept, Live
<1>5. ASSUME HandOver(a) PROVE HostKept(h)
  <2>1. UNCHANGED <<pend, list, half, host, closed>> /\ st'[a] = "handing"
        /\ (h # a => st'[h] = st[h])
    BY <1>5, HandOverStep DEF HandOver
  <2>2. h # a => count'[h] = count[h]
    BY <1>5 DEF HandOver
  <2>3. h # a => log'[h] = log[h]
    <3>1. PICK r : log' = [log EXCEPT ![a] = r]
      BY <1>5 DEF HandOver
    <3> QED
      BY <3>1
  <2> QED
    BY <2>1, <2>2, <2>3 DEF HostKept, Live
<1>6. ASSUME NEW m \in net, TakeOver(a, m) PROVE HostKept(h)
  <2>1. UNCHANGED <<pend, count, log, st, closed>> /\ half'[a] # {}
        /\ (h # a => half'[h] = half[h] /\ host'[h] = host[h] /\ list'[h] = list[h])
    BY <1>6 DEF TakeOver
  <2> QED
    BY <2>1 DEF HostKept, Live
<1>7. ASSUME NEW s \in Slots, Kick(a, s), h # a PROVE HostKept(h)
  <2>1. UNCHANGED <<log, half, st, host, closed>> /\ list'[h] = list[h]
        /\ count'[h] = count[h] /\ pend'[h] = pend[h]
    BY <1>7 DEF Kick, Remove, selfVars
  <2> QED
    BY <2>1 DEF HostKept, Live
<1>8. ASSUME NEW t \in Threads, Schedule(a, t), h # a PROVE HostKept(h)
  <2>1. UNCHANGED <<list, count, half, st, host, closed>> /\ log'[h] = log[h] /\ pend'[h] = pend[h]
    BY <1>8 DEF Schedule, selfVars
  <2> QED
    BY <2>1 DEF HostKept, Live
<1>9. ASSUME Proclaim(a), h # a PROVE HostKept(h)
  <2>1. UNCHANGED <<list, pend, st, host>> /\ closed'[h] = closed[h]
        /\ log'[h] = log[h] /\ half'[h] = half[h] /\ count'[h] = count[h]
    BY <1>9 DEF Proclaim, selfVars
  <2> QED
    BY <2>1 DEF HostKept, Live
<1>10. ASSUME NEW g \in Players, Destroy(g, a), h # g PROVE HostKept(h)
  <2>1. UNCHANGED <<log, half, st, host, closed>>
    BY <1>10 DEF Destroy, selfVars
  <2>2. list'[h] = list[h] /\ count'[h] = count[h] /\ pend'[h] = pend[h]
    BY SMTT(40), <1>10 DEF Destroy, Remove
  <2> QED
    BY <2>1, <2>2 DEF HostKept, Live
<1>11. ASSUME Handle(a) PROVE HostKept(h)
  <2>1. UNCHANGED <<pend, log, half, st, host, closed>> /\ ~host[a]
    BY ZenonT(60), <1>11 DEF Handle, HandleCreate, HandleList, HandleLeave, HandleNewHost, Reading,
          selfVars
  <2>2. h # a => list'[h] = list[h] /\ count'[h] = count[h]
    BY ZenonT(60), <1>11 DEF Handle, HandleCreate, HandleList, HandleLeave, HandleNewHost
  <2> QED
    BY <2>1, <2>2 DEF HostKept, Live
<1> QED
  BY <1>1, <1>2, <1>3, <1>4, <1>5, <1>6, <1>7, <1>8, <1>9, <1>10, <1>11 DEF Step

\* A host's own step leaves its clients as they are.
LEMMA ClientKeptHost ==
  ASSUME Typed, HostStages, NEW a \in Players, NEW g \in Players, NEW p \in Players,
         \/ Destroy(g, a) \/ Proclaim(g) \/ HandOver(g)
         \/ (\E s \in Slots : Kick(g, s)) \/ \E t \in Threads : Schedule(g, t)
  PROVE  ClientKept(p)
<1> USE ControlTypes, StateTypes
<1>1. UNCHANGED <<asked, next, from, me, host>>
  BY ZenonT(60) DEF Destroy, Proclaim, HandOver, Kick, Schedule, selfVars, readVars
<1>2. st' = st \/ st' = [st EXCEPT ![g] = "handing"]
  BY DEF Destroy, Proclaim, HandOver, Kick, Schedule
<1>3. p # g => list'[p] = list[p] /\ count'[p] = count[p]
  BY DEF Destroy, Proclaim, HandOver, Kick, Schedule, Remove
<1>4. HandOver(g) => st'[g] = "handing"
  BY HandOverStep
<1>5. HandOver(g) \/ host[g] \/ UNCHANGED <<list, count>>
  BY DEF Destroy, Proclaim, Kick, Schedule, HostStages
<1> QED
  BY <1>1, <1>2, <1>3, <1>4, <1>5 DEF ClientKept

\* A player that is a client is kept, but for what it handles, hears and joins itself.
LEMMA ClientKeptSteps ==
  ASSUME Typed, Kept, HostStages, NEW a \in Players, Step(a) \/ UNCHANGED vars, NEW p \in Players
  PROVE  \/ ClientKept(p)
         \/ p = a /\ (Handle(a) \/ (\E h \in Players : HearNewHost(a, h)) \/ \E m \in net : Connect(a, m))
<1> USE ControlTypes, StateTypes
<1>1. ASSUME UNCHANGED <<asked, list, count, next, from, me>>,
             st'[p] = "in" /\ ~host'[p] => st[p] = "in" /\ ~host[p],
             st'[p] = "joining" => st[p] \in {"joining", "idle"}
      PROVE  ClientKept(p)
  BY <1>1 DEF ClientKept
<1>2. ASSUME \/ \E g \in Players : AnswerAgain(g, a)
             \/ HearLeave(a) \/ (\E t \in Threads : Schedule(a, t)) \/ UNCHANGED vars
      PROVE  ClientKept(p)
  <2>1. UNCHANGED <<asked, list, count, next, from, me, st, host>>
    BY ZenonT(60), <1>2 DEF AnswerAgain, HearLeave, Schedule, vars, hostVars, selfVars, readVars
  <2> QED
    BY <1>1, <2>1
<1>3. ASSUME GiveUp(a) \/ StartLeaving(a) \/ TestAgain(a) \/ AskToLeave(a) \/ CloseSession(a)
             \/ ReadCount(a)
      PROVE  ClientKept(p)
  <2>1. UNCHANGED <<asked, list, count, next, from, me, host>>
    BY ZenonT(60), <1>3 DEF GiveUp, StartLeaving, TestAgain, AskToLeave, CloseSession, ReadCount,
          hostVars, selfVars, readVars
  <2>2. PICK v \in {"over", "left", "going", "asking", "leaving", "closing", "counting"} :
          st' = [st EXCEPT ![a] = v]
    BY <1>3, MovingSteps DEF Moves
  <2>3. st'[p] \in {"in", "joining"} => st'[p] = st[p]
    BY <2>2
  <2> QED
    BY <1>1, <2>1, <2>3
<1>4. ASSUME NEW g \in Players, AskToJoin(a, g) PROVE ClientKept(p)
  <2>1. UNCHANGED <<list, count, next, from, me, host>> /\ st[a] = "idle"
        /\ st' = [st EXCEPT ![a] = "joining"] /\ asked' = [asked EXCEPT ![a] = g]
    BY <1>4 DEF AskToJoin, hostVars, readVars
  <2> QED
    BY <2>1 DEF ClientKept, Kept
<1>5. ASSUME NEW m \in net, ReadBye(a, m) PROVE ClientKept(p)
  <2>1. UNCHANGED <<asked, count, next, from, me, host>> /\ st' = [st EXCEPT ![a] = "left"]
        /\ (p # a => list'[p] = list[p])
    BY <1>5 DEF ReadBye, selfVars
  <2> QED
    BY <2>1 DEF ClientKept
<1>6. ASSUME EndSession(a) PROVE ClientKept(p)
  <2>1. UNCHANGED <<asked, count, next, from, me>> /\ st' = [st EXCEPT ![a] = "over"]
        /\ (p # a => list'[p] = list[p] /\ host'[p] = host[p])
    BY <1>6 DEF EndSession, readVars
  <2> QED
    BY <2>1 DEF ClientKept
<1>7. ASSUME NEW m \in net, TakeOver(a, m) PROVE ClientKept(p)
  <2>1. UNCHANGED <<asked, count, next, from, me, st>> /\ host' = [host EXCEPT ![a] = TRUE]
        /\ (p # a => list'[p] = list[p])
    BY <1>7 DEF TakeOver, readVars
  <2> QED
    BY <2>1 DEF ClientKept
<1>8. ASSUME NEW g \in Players, \/ Destroy(g, a) \/ Proclaim(g) \/ HandOver(g)
                                \/ \E s \in Slots : Kick(g, s)
      PROVE  ClientKept(p)
  BY <1>8, ClientKeptHost
<1>9. ASSUME p # a, \/ Handle(a) \/ (\E h \in Players : HearNewHost(a, h))
                    \/ \E m \in net : Connect(a, m)
      PROVE  ClientKept(p)
  <2>1. UNCHANGED <<asked, host>>
    BY ZenonT(60), <1>9 DEF Handle, HandleCreate, HandleList, HandleLeave, HandleNewHost, HearNewHost,
          Connect, selfVars
  <2>2. st' = st \/ st' = [st EXCEPT ![a] = "in"]
    BY ZenonT(60), <1>9 DEF Handle, HandleCreate, HandleList, HandleLeave, HandleNewHost, HearNewHost,
          Connect
  <2>3. list'[p] = list[p] /\ count'[p] = count[p] /\ next'[p] = next[p] /\ from'[p] = from[p]
        /\ me'[p] = me[p]
    <3>1. CASE Handle(a)
      BY ZenonT(60), <1>9, <3>1 DEF Handle, HandleCreate, HandleList, HandleLeave, HandleNewHost, Takes, selfVars
    <3>2. CASE \E h \in Players : HearNewHost(a, h)
      BY <1>9, <3>2 DEF HearNewHost, hostVars, selfVars
    <3>3. CASE \E m \in net : Connect(a, m)
      BY <1>9, <3>3 DEF Connect
    <3> QED
      BY SMTT(40), <1>9, <3>1, <3>2, <3>3
  <2> QED
    BY <1>9, <2>1, <2>2, <2>3 DEF ClientKept
<1> QED
  BY <1>2, <1>3, <1>4, <1>5, <1>6, <1>7, <1>8, <1>9 DEF Step

\* What only grows, and what only TakeOver and the sending steps write.
LEMMA Grows ==
  ASSUME NEW a \in Players, Step(a) \/ UNCHANGED vars
  PROVE  /\ skewed \subseteq skewed' /\ dropped \subseteq dropped' /\ net \subseteq net'
         /\ took' = took \/ \E m \in net : TakeOver(a, m) /\ took' = [took EXCEPT ![a] = m.from]
         /\ Handovers' = Handovers \/ HandOver(a)
<1> USE DEF history
<1>1. ASSUME \E h \in Players : AskToJoin(a, h) \/ AnswerAgain(h, a) \/ Destroy(h, a)
      PROVE  UNCHANGED <<skewed, dropped, took>> /\ net \subseteq net'
  BY ZenonT(60), <1>1 DEF AskToJoin, AnswerAgain, Destroy
<1>2. ASSUME \/ GiveUp(a) \/ StartLeaving(a) \/ TestAgain(a) \/ AskToLeave(a) \/ EndSession(a)
             \/ CloseSession(a) \/ ReadCount(a)
             \/ Proclaim(a) \/ HearLeave(a) \/ UNCHANGED vars \/ \E m \in net : Connect(a, m) \/ ReadBye(a, m)
      PROVE  UNCHANGED <<skewed, dropped, took>> /\ net \subseteq net'
  BY ZenonT(60), <1>2 DEF GiveUp, StartLeaving, TestAgain, AskToLeave, EndSession, CloseSession,
        ReadCount, Proclaim, HearLeave,
       Connect, ReadBye, vars
<1>3. ASSUME Handle(a) PROVE UNCHANGED <<skewed, dropped, took>> /\ net \subseteq net'
  BY ZenonT(60), <1>3 DEF Handle, HandleCreate, HandleList, HandleLeave, HandleNewHost
<1>4. ASSUME \/ (\E s \in Slots : Kick(a, s)) \/ (\E t \in Threads : Schedule(a, t)) \/ HandOver(a)
             \/ \E h \in Players : HearNewHost(a, h)
      PROVE  skewed \subseteq skewed' /\ dropped \subseteq dropped' /\ took' = took /\ net \subseteq net'
  <2>1. dropped \subseteq dropped' /\ took' = took
    BY <1>4 DEF Kick, Schedule, HandOver, HearNewHost
  <2>2. net \subseteq net'
    BY <1>4 DEF Kick, Schedule, HandOver, HearNewHost
  <2>3. skewed \subseteq skewed'
    BY <1>4 DEF Kick, Schedule, HandOver, HearNewHost
  <2> QED
    BY SMTT(40), <2>1, <2>2, <2>3
<1>5. ASSUME NEW m \in net, TakeOver(a, m)
      PROVE  /\ skewed \subseteq skewed' /\ dropped' = dropped /\ net' = net
             /\ took' = [took EXCEPT ![a] = m.from]
  BY <1>5 DEF TakeOver
<1>6. Handovers' = Handovers \/ HandOver(a)
  <2>1. ASSUME \E h \in Players : AnswerAgain(h, a) \/ Destroy(h, a) \/ HearNewHost(a, h)
        PROVE  Handovers' = Handovers
    BY <2>1, QuietSteps
  <2>2. ASSUME \/ HearLeave(a) \/ (\E s \in Slots : Kick(a, s)) \/ (\E t \in Threads : Schedule(a, t))
               \/ Handle(a) \/ UNCHANGED vars
        PROVE  Handovers' = Handovers
    BY <2>2, QuietSteps
  <2>3. ASSUME \/ \E h \in Players : AskToJoin(a, h)
               \/ GiveUp(a) \/ StartLeaving(a) \/ TestAgain(a) \/ AskToLeave(a)
               \/ EndSession(a) \/ CloseSession(a) \/ ReadCount(a)
               \/ \E m \in net : Connect(a, m) \/ ReadBye(a, m)
        PROVE  Handovers' = Handovers
    BY <2>3, MovingSteps DEF Moves
  <2>4. ASSUME Proclaim(a) \/ \E m \in net : TakeOver(a, m) PROVE Handovers' = Handovers
    BY <2>4, ProclaimStep, TakeOverStep
  <2> QED
    BY <2>1, <2>2, <2>3, <2>4 DEF Step
<1> QED
  BY <1>1, <1>2, <1>3, <1>4, <1>5, <1>6 DEF Step

-----------------------------------------------------------------------------
(* Where each host has its session from *)

\* From where to where a player can go in its calls.
Goes(x, y) ==
  \/ x = y
  \/ x = "idle" /\ y = "joining"
  \/ x = "joining" /\ y \in {"in", "over"}
  \/ x = "in" /\ y \in {"going", "left", "closing"}
  \/ x = "going" /\ y \in {"asking", "closing", "left"}
  \/ x = "asking" /\ y \in {"leaving", "left"}
  \/ x = "leaving" /\ y = "left"
  \/ x = "closing" /\ y = "counting"
  \/ x = "counting" /\ y = "handing"
  \/ x \in {"leaving", "left", "handing"} /\ y = "over"

\* A step moves a player along its calls.
LEMMA StageSteps ==
  ASSUME Typed, NEW a \in Players, Step(a) \/ UNCHANGED vars, NEW q \in Players
  PROVE  Goes(st[q], st'[q])
<1> USE ControlTypes
<1>1. ASSUME NEW v, st' = [st EXCEPT ![a] = v], Goes(st[a], v) PROVE Goes(st[q], st'[q])
  BY <1>1 DEF Goes
<1>2. ASSUME st' = st PROVE Goes(st[q], st'[q])
  BY <1>2 DEF Goes
<1>3. ASSUME \/ \E h \in Players : AnswerAgain(h, a) \/ Destroy(h, a) \/ HearNewHost(a, h)
             \/ HearLeave(a) \/ (\E s \in Slots : Kick(a, s)) \/ (\E t \in Threads : Schedule(a, t))
             \/ Handle(a) \/ UNCHANGED vars \/ Proclaim(a) \/ \E m \in net : TakeOver(a, m)
      PROVE  st' = st
  <2>1. CASE \E h \in Players : AnswerAgain(h, a) \/ Destroy(h, a) \/ HearNewHost(a, h)
    BY <2>1, QuietSteps
  <2>2. CASE HearLeave(a) \/ (\E s \in Slots : Kick(a, s)) \/ (\E t \in Threads : Schedule(a, t))
             \/ Handle(a) \/ UNCHANGED vars
    BY <2>2, QuietSteps
  <2>3. CASE Proclaim(a) \/ \E m \in net : TakeOver(a, m)
    BY <2>3, ProclaimStep, TakeOverStep
  <2> QED
    BY <1>3, <2>1, <2>2, <2>3
<1>4. ASSUME \/ \E h \in Players : AskToJoin(a, h)
             \/ GiveUp(a) \/ StartLeaving(a) \/ TestAgain(a) \/ AskToLeave(a) \/ EndSession(a)
             \/ CloseSession(a) \/ ReadCount(a)
             \/ \E m \in net : Connect(a, m) \/ ReadBye(a, m)
      PROVE  \E v : st' = [st EXCEPT ![a] = v] /\ Goes(st[a], v)
  <2>1. CASE \E h \in Players : AskToJoin(a, h)
    <3>1. st' = [st EXCEPT ![a] = "joining"] /\ st[a] = "idle"
      BY <2>1, MovingSteps DEF Moves
    <3> QED
      BY <3>1 DEF Goes
  <2>2. CASE GiveUp(a)
    <3>1. st' = [st EXCEPT ![a] = "over"] /\ st[a] = "joining"
      BY <2>2, MovingSteps DEF Moves
    <3> QED
      BY <3>1 DEF Goes
  <2>3. CASE AskToLeave(a)
    <3>1. PICK v \in {"left", "leaving"} : st' = [st EXCEPT ![a] = v] /\ st[a] = "asking"
      BY <2>3, MovingSteps DEF Moves
    <3> QED
      BY <3>1 DEF Goes
  <2>9. CASE StartLeaving(a)
    <3>1. st' = [st EXCEPT ![a] = "going"] /\ st[a] = "in"
      BY <2>9, MovingSteps DEF Moves
    <3> QED
      BY <3>1 DEF Goes
  <2>10. CASE TestAgain(a)
    <3>1. PICK v \in {"asking", "closing"} : st' = [st EXCEPT ![a] = v] /\ st[a] = "going"
      BY <2>10, MovingSteps DEF Moves
    <3> QED
      BY <3>1 DEF Goes
  <2>4. CASE EndSession(a)
    <3>1. st' = [st EXCEPT ![a] = "over"] /\ st[a] \in {"leaving", "left", "handing"}
      BY <2>4, MovingSteps DEF Moves
    <3> QED
      BY <3>1 DEF Goes
  <2>5. CASE CloseSession(a)
    <3>1. PICK v \in {"left", "closing"} : st' = [st EXCEPT ![a] = v] /\ st[a] = "in"
      BY <2>5, MovingSteps DEF Moves
    <3> QED
      BY <3>1 DEF Goes
  <2>6. CASE ReadCount(a)
    <3>1. st' = [st EXCEPT ![a] = "counting"] /\ st[a] = "closing"
      BY <2>6, MovingSteps DEF Moves
    <3> QED
      BY <3>1 DEF Goes
  <2>7. CASE \E m \in net : Connect(a, m)
    <3>1. st' = [st EXCEPT ![a] = "in"] /\ st[a] = "joining"
      BY <2>7, MovingSteps DEF Moves
    <3> QED
      BY <3>1 DEF Goes
  <2>8. CASE \E m \in net : ReadBye(a, m)
    <3>1. st' = [st EXCEPT ![a] = "left"] /\ st[a] \in {"in", "going", "asking", "leaving"}
      BY <2>8, MovingSteps DEF Moves, Reading
    <3> QED
      BY <3>1 DEF Goes
  <2> QED
    BY <1>4, <2>1, <2>2, <2>3, <2>4, <2>5, <2>6, <2>7, <2>8, <2>9, <2>10
<1>5. ASSUME HandOver(a) PROVE \E v : st' = [st EXCEPT ![a] = v] /\ Goes(st[a], v)
  <2>1. st' = [st EXCEPT ![a] = "handing"] /\ st[a] = "counting"
    BY <1>5, HandOverStep
  <2> QED
    BY <2>1 DEF Goes
<1> QED
  BY <1>1, <1>2, <1>3, <1>4, <1>5 DEF Step

\* Who is not yet in a session has no list and has handled nothing.
Blank == \A p \in Players : Early(p) => list[p] = Empty /\ next[p] = 0

\* Only who is leaving has asked to be removed.
BeggedOut ==
  \A p \in Players :
    st[p] \in {"idle", "joining", "in", "going", "asking", "closing", "counting"} => begged[p] = NoPlayer

\* A host hands its session over once.
OneHandover ==
  \A m \in Handovers :
    /\ st[m.from] \in {"handing", "over"}
    /\ \A k \in Handovers : k.from = m.from => k = m

\* A host has its session by a MigrateHost from the one it took over from.
TookFrom ==
  /\ took \in [Players -> Players \cup {NoPlayer}]
  /\ \A q \in Players : \A m \in half[q] : m \in Handovers /\ m.to = q /\ took[q] = m.from
  /\ \A q \in Players : took[q] \in Players => \E m \in Handovers : m.from = took[q] /\ m.to = q

\* The log of h to p has its NewHost.
Proclaims(h, p) == \E i \in DOMAIN log[h][p] : log[h][p][i].ty = "NewHost"

\* A host whose NewHost was sent, or taken, is through with its take-over.
Proclaimed ==
  \A h, p \in Players : Proclaims(h, p) \/ taken[p][h] > 0 =>
    half[h] = {} /\ (host[h] \/ st[h] = "over")

Origins == Blank /\ BeggedOut /\ OneHandover /\ TookFrom /\ Proclaimed

\* Nothing is written of a player before it connects.
LEMMA BlankStep ==
  ASSUME Typed, Kept, HostStages, Blank, NEW a \in Players, Step(a) \/ UNCHANGED vars
  PROVE  Blank'
<1> USE ControlTypes, StateTypes
<1> SUFFICES ASSUME NEW q \in Players, Early(q)'
             PROVE  Early(q) /\ list'[q] = list[q] /\ next'[q] = next[q]
  BY DEF Blank
<1>1. Early(q)
  BY StageSteps DEF Early, Goes
<1>2. ~host[q] /\ ~Reading(q)
  BY <1>1 DEF HostStages, Early, Reading
<1>3. ASSUME \/ \E h \in Players : AskToJoin(a, h) \/ AnswerAgain(h, a)
             \/ (\E t \in Threads : Schedule(a, t)) \/ HearLeave(a) \/ GiveUp(a)
             \/ StartLeaving(a) \/ TestAgain(a) \/ AskToLeave(a)
             \/ CloseSession(a) \/ ReadCount(a) \/ HandOver(a) \/ Proclaim(a) \/ UNCHANGED vars
      PROVE  UNCHANGED <<list, next>>
  BY ZenonT(60), <1>3 DEF AskToJoin, AnswerAgain, Schedule, HearLeave, GiveUp, StartLeaving,
        TestAgain, AskToLeave, CloseSession,
       ReadCount, HandOver, Proclaim, vars, hostVars, readVars
<1>4. ASSUME NEW h \in Players, Destroy(h, a) PROVE list'[q] = list[q] /\ next'[q] = next[q]
  BY <1>2, <1>4 DEF Destroy, Remove, readVars
<1>5. ASSUME NEW s \in Slots, Kick(a, s) PROVE list'[q] = list[q] /\ next'[q] = next[q]
  BY <1>2, <1>5 DEF Kick, Remove, readVars
<1>6. ASSUME NEW h \in Players, HearNewHost(a, h) PROVE list'[q] = list[q] /\ next'[q] = next[q]
  BY <1>2, <1>6 DEF HearNewHost, Hears, hostVars
<1>7. ASSUME NEW m \in net, Connect(a, m) PROVE list'[q] = list[q] /\ next'[q] = next[q]
  <2>1. q # a
    <3>1. st' = [st EXCEPT ![a] = "in"]
      BY <1>7 DEF Connect
    <3> QED
      BY <3>1 DEF Early
  <2> QED
    BY <1>7, <2>1 DEF Connect
<1>8. ASSUME NEW m \in net, ReadBye(a, m) PROVE list'[q] = list[q] /\ next'[q] = next[q]
  <2>1. q # a
    BY <1>1, <1>8 DEF ReadBye, Early
  <2> QED
    BY <1>8, <2>1 DEF ReadBye
<1>9. ASSUME NEW m \in net, TakeOver(a, m) PROVE list'[q] = list[q] /\ next'[q] = next[q]
  <2>1. q # a
    BY <1>1, <1>9 DEF TakeOver, Early
  <2> QED
    BY <1>9, <2>1 DEF TakeOver, readVars
<1>10. ASSUME EndSession(a) PROVE list'[q] = list[q] /\ next'[q] = next[q]
  <2>1. q # a
    BY SMTT(40), <1>1, <1>10 DEF EndSession, Early
  <2> QED
    BY <1>10, <2>1 DEF EndSession, readVars
<1>11. ASSUME Handle(a) PROVE list'[q] = list[q] /\ next'[q] = next[q]
  <2>1. q # a
    BY <1>2, <1>11 DEF Handle
  <2> QED
    BY ZenonT(60), <1>11, <2>1 DEF Handle, HandleCreate, HandleList, HandleLeave, HandleNewHost, Takes
<1> QED
  BY <1>1, <1>3, <1>4, <1>5, <1>6, <1>7, <1>8, <1>9, <1>10, <1>11 DEF Step

\* Only AskToLeave sends a Destroy.
LEMMA BeggedOutStep ==
  ASSUME Typed, Kept, BeggedOut, NEW a \in Players, Step(a) \/ UNCHANGED vars
  PROVE  BeggedOut'
<1> USE ControlTypes
<1>1. ASSUME \/ \E h \in Players : AskToJoin(a, h) \/ AnswerAgain(h, a) \/ Destroy(h, a)
                                   \/ HearNewHost(a, h)
             \/ \E m \in net : Connect(a, m) \/ ReadBye(a, m) \/ TakeOver(a, m)
             \/ GiveUp(a) \/ EndSession(a)
             \/ (\E s \in Slots : Kick(a, s)) \/ (\E t \in Threads : Schedule(a, t))
             \/ CloseSession(a) \/ ReadCount(a) \/ HandOver(a) \/ Proclaim(a)
             \/ StartLeaving(a) \/ TestAgain(a) \/ HearLeave(a) \/ UNCHANGED vars
      PROVE  begged' = begged
  BY ZenonT(60), <1>1 DEF AskToJoin, AnswerAgain, Destroy, HearNewHost, Connect, ReadBye, TakeOver, GiveUp,
       EndSession, Kick, Schedule, CloseSession, ReadCount, HandOver, Proclaim, StartLeaving,
       TestAgain,
       HearLeave, vars, selfVars
<1>2. ASSUME Handle(a) PROVE begged' = begged
  BY ZenonT(60), <1>2 DEF Handle, HandleCreate, HandleList, HandleLeave, HandleNewHost, selfVars
<1>3. ASSUME AskToLeave(a), NEW q \in Players PROVE begged'[q] = begged[q] \/ st'[q] \in {"left", "leaving"}
  <2>1. q # a => begged'[q] = begged[q]
    BY <1>3 DEF AskToLeave
  <2>2. st'[a] \in {"left", "leaving"}
    BY <1>3 DEF AskToLeave
  <2> QED
    BY <2>1, <2>2
<1>4. ASSUME NEW q \in Players, st'[q] \in {"idle", "joining", "in", "going", "asking", "closing", "counting"}
      PROVE  begged'[q] = NoPlayer
  <2>1. st[q] \in {"idle", "joining", "in", "going", "asking", "closing", "counting"}
    BY <1>4, StageSteps DEF Goes
  <2>2. begged'[q] = begged[q]
    BY <1>1, <1>2, <1>3, <1>4 DEF Step
  <2> QED
    BY <2>1, <2>2 DEF BeggedOut
<1> QED
  BY <1>4 DEF BeggedOut

\* Host h hands its session over to the player in slot s, by m.
Farewell(h) == [ty |-> "Leave", id |-> me[h], count |-> tmp[h] - 1]
HandsTo(h, s, m) ==
  /\ s \in Heirs(h)
  /\ m = [ty |-> "Migrate", to |-> list[h][s].who, from |-> h, id |-> IdAt(list[h], s),
          old |-> me[h], count |-> tmp[h] - 1, last |-> last[h], flag |-> kept[h]]
  /\ Handovers' = Handovers \cup {m}
  /\ log' = [log EXCEPT ![h] = [Scheduled(h, list[h], Farewell(h)) EXCEPT ![m.to] =
                Append(@, [ty |-> "Migrate"])]]
  /\ skewed' = IF count[h] # tmp[h] \/ \E t \in Threads : pend[h][t] # None
               THEN skewed \cup {m.to} ELSE skewed

\* What a host that leaves writes, and tells.
LEMMA HandOverWrites ==
  ASSUME Typed, NEW h \in Players, HandOver(h)
  PROVE  Handovers' = Handovers \/ \E s, m : HandsTo(h, s, m)
<1>1. CASE Heirs(h) = {}
  BY <1>1 DEF HandOver, Handovers
<1>2. CASE Heirs(h) # {}
  <2>1. PICK s : s = Heir(h)
    OBVIOUS
  <2>2. s \in Heirs(h)
    <3>1. Heirs(h) \in SUBSET Nat
      BY SlotNumbers DEF Heirs, Joined
    <3>2. \E t \in Heirs(h) : \A u \in Heirs(h) : t <= u
      BY <1>2, <3>1, LeastElement
    <3> QED
      BY <2>1, <3>2 DEF Heir
  <2>3. PICK m : m = [ty |-> "Migrate", to |-> list[h][s].who, from |-> h, id |-> IdAt(list[h], s),
                      old |-> me[h], count |-> tmp[h] - 1, last |-> last[h],
                      flag |-> kept[h]]
    OBVIOUS
  <2>4. net' = net \cup {m}
    BY <1>2, <2>1, <2>3 DEF HandOver, LastSent
  <2>5. Handovers' = Handovers \cup {m}
    BY <2>3, <2>4 DEF Handovers
  <2>p. m.to = list[h][s].who
    BY <2>3
  <2>6. /\ log' = [log EXCEPT ![h] = [Scheduled(h, list[h], Farewell(h)) EXCEPT ![m.to] =
                      Append(@, [ty |-> "Migrate"])]]
        /\ skewed' = IF count[h] # tmp[h] \/ \E t \in Threads : pend[h][t] # None
                     THEN skewed \cup {m.to} ELSE skewed
    BY <1>2, <2>1, <2>p DEF HandOver, Farewell
  <2>7. HandsTo(h, s, m)
    BY <2>2, <2>3, <2>5, <2>6 DEF HandsTo
  <2> QED
    BY <2>7
<1> QED
  BY <1>1, <1>2

\* Only HandOver hands over, and who did has nothing left to hand over.
LEMMA OneHandoverStep ==
  ASSUME Typed, OneHandover, NEW a \in Players, Step(a) \/ UNCHANGED vars
  PROVE  OneHandover'
<1> USE ControlTypes
<1>0. \A m \in Handovers : m.from \in Players
  BY DEF Handovers, Typed, SentOK, Datagram, Migrates
<1>1. \A m \in Handovers : st'[m.from] \in {"handing", "over"}
  BY <1>0, StageSteps DEF OneHandover, Goes
<1>2. CASE Handovers' = Handovers
  BY <1>1, <1>2 DEF OneHandover
<1>3. CASE Handovers' # Handovers
  <2>1. HandOver(a)
    BY <1>3, Grows
  <2>2. \E m : m.from = a /\ Handovers' = Handovers \cup {m}
    <3>1. PICK s, m : HandsTo(a, s, m)
      BY <1>3, <2>1, HandOverWrites
    <3> QED
      BY <3>1 DEF HandsTo
  <2>m. PICK m : m.from = a /\ Handovers' = Handovers \cup {m}
    BY <2>2
  <2>3. st[a] = "counting" /\ st'[a] = "handing"
    BY <2>1, HandOverStep
  <2>4. \A k \in Handovers : k.from # a
    BY <2>3 DEF OneHandover
  <2> QED
    BY <1>1, <2>m, <2>3, <2>4 DEF OneHandover
<1> QED
  BY <1>2, <1>3

\* Only TakeOver takes over.
LEMMA TookFromStep ==
  ASSUME Typed, TookFrom, HostStages, ClosedStages, NEW a \in Players, Step(a) \/ UNCHANGED vars
  PROVE  TookFrom'
<1> USE ControlTypes
<1>1. Handovers \subseteq Handovers'
  BY Grows DEF Handovers
<1>2. \A m \in Handovers : m.from \in Players
  BY DEF Handovers, Typed, SentOK, Datagram, Migrates
<1>3. CASE took' = took /\ ~\E m \in net : TakeOver(a, m)
  <2>1. \A q \in Players : half'[q] = half[q] \/ half'[q] = {}
    <3>1. CASE half' = half
      BY <3>1
    <3>2. CASE half' # half
      <4>1. Proclaim(a)
        <5>1. ASSUME \/ \E h \in Players : AskToJoin(a, h) \/ AnswerAgain(h, a) \/ Destroy(h, a)
                                   \/ HearNewHost(a, h)
                     \/ \E m \in net : Connect(a, m) \/ ReadBye(a, m)
                     \/ GiveUp(a) \/ EndSession(a) \/ StartLeaving(a) \/ TestAgain(a)
                     \/ AskToLeave(a)
                     \/ (\E s \in Slots : Kick(a, s)) \/ (\E t \in Threads : Schedule(a, t))
                     \/ CloseSession(a) \/ ReadCount(a) \/ HandOver(a)
                     \/ HearLeave(a) \/ UNCHANGED vars
              PROVE  half' = half
          BY ZenonT(60), <5>1 DEF AskToJoin, AnswerAgain, Destroy, HearNewHost, Connect, ReadBye, GiveUp,
               EndSession, StartLeaving, TestAgain, AskToLeave, Kick, Schedule, CloseSession,
               ReadCount, HandOver, HearLeave, vars,
               hostVars
        <5>2. ASSUME Handle(a) PROVE half' = half
          BY ZenonT(60), <5>2 DEF Handle, HandleCreate, HandleList, HandleLeave, HandleNewHost
        <5> QED
          BY <1>3, <3>2, <5>1, <5>2 DEF Step
      <4> QED
        BY <4>1, ProclaimStep
    <3> QED
      BY <3>1, <3>2
  <2> QED
    BY <1>1, <1>3, <2>1 DEF TookFrom
<1>4. ASSUME NEW m \in net, TakeOver(a, m) PROVE TookFrom'
  <2>1. m \in Handovers /\ m.to = a /\ half' = [half EXCEPT ![a] = {m}]
    BY <1>4, TakeOverStep
  <2>2. took' = [took EXCEPT ![a] = m.from]
    BY <1>4 DEF TakeOver
  <2>3. m.from \in Players
    BY <1>2, <2>1
  <2>4. took' \in [Players -> Players \cup {NoPlayer}]
    BY <2>2, <2>3 DEF TookFrom
  <2>5. ASSUME NEW q \in Players, NEW k \in half'[q]
        PROVE  k \in Handovers' /\ k.to = q /\ took'[q] = k.from
    BY <1>1, <2>1, <2>2, <2>5 DEF TookFrom
  <2>6. ASSUME NEW q \in Players, took'[q] \in Players
        PROVE  \E k \in Handovers' : k.from = took'[q] /\ k.to = q
    BY <1>1, <2>1, <2>2, <2>6 DEF TookFrom
  <2> QED
    BY <2>4, <2>5, <2>6 DEF TookFrom
<1> QED
  BY <1>3, <1>4, Grows

\* A step sends no NewHost, but for Proclaim.
LEMMA LogWrites ==
  ASSUME Typed, NEW a \in Players, Step(a) \/ UNCHANGED vars, NEW h \in Players
  PROVE  \/ log'[h] = log[h]
         \/ h = a /\ (HandOver(a) \/ Proclaim(a) \/ \E t \in Threads : Schedule(a, t))
<1> USE StateTypes
<1>1. ASSUME \/ \E g \in Players : AskToJoin(a, g) \/ AnswerAgain(g, a) \/ Destroy(g, a)
                                   \/ HearNewHost(a, g)
             \/ \E m \in net : Connect(a, m) \/ ReadBye(a, m) \/ TakeOver(a, m)
             \/ GiveUp(a) \/ EndSession(a) \/ StartLeaving(a) \/ TestAgain(a) \/ AskToLeave(a)
             \/ (\E s \in Slots : Kick(a, s))
             \/ CloseSession(a) \/ ReadCount(a) \/ HearLeave(a) \/ UNCHANGED vars
      PROVE  log' = log
  BY ZenonT(60), <1>1 DEF AskToJoin, AnswerAgain, Destroy, HearNewHost, Connect, ReadBye, TakeOver, GiveUp,
       EndSession, StartLeaving, TestAgain, AskToLeave, Kick, CloseSession, ReadCount, HearLeave,
       vars, hostVars
<1>2. ASSUME Handle(a) PROVE log' = log
  BY ZenonT(60), <1>2 DEF Handle, HandleCreate, HandleList, HandleLeave, HandleNewHost
<1>3. ASSUME HandOver(a) \/ Proclaim(a) \/ \E t \in Threads : Schedule(a, t)
      PROVE  h # a => log'[h] = log[h]
  <2>1. PICK r : log' = [log EXCEPT ![a] = r]
    BY <1>3 DEF HandOver, Proclaim, Schedule
  <2> QED
    BY <2>1
<1> QED
  BY <1>1, <1>2, <1>3 DEF Step

\* A NewHost is sent by Proclaim only.
LEMMA ProclaimsStep ==
  ASSUME Typed, HostStages, ClosedStages, NEW a \in Players, Step(a) \/ UNCHANGED vars,
         NEW h \in Players, NEW p \in Players, Proclaims(h, p)'
  PROVE  Proclaims(h, p) \/ (h = a /\ Proclaim(a))
<1>1. CASE log'[h] = log[h]
  BY <1>1 DEF Proclaims
<1>2. ASSUME h = a, HandOver(a) PROVE Proclaims(h, p)
  <2>1. half[h] = {}
    BY <1>2, HandOverStep DEF ClosedStages
  <2>2. Sends(h, p)
    BY <1>2, HandOverSends
  <2> QED
    BY <2>1, <2>2 DEF Sends, Sendable, Lengthens, Proclaims
<1>3. ASSUME h = a, NEW t \in Threads, Schedule(a, t) PROVE Proclaims(h, p)
  <2>1. PICK x : x = [ty |-> "Leave", id |-> pend[a][t], count |-> count[a]]
    OBVIOUS
  <2>2. x \in Message
    BY <2>1, StateTypes DEF Message
  <2>3. log' = [log EXCEPT ![a] = Scheduled(a, list[a], x)]
    BY <1>3, <2>1 DEF Schedule
  <2>4. log'[a][p] = Scheduled(a, list[a], x)[p]
    BY <2>3, StateTypes
  <2>5. \A i \in DOMAIN log'[a][p] \ DOMAIN log[a][p] : log'[a][p][i].ty # "NewHost"
    BY <2>1, <2>2, <2>4, ScheduledTo
  <2>6. Lengthens(log[a][p], log'[a][p])
    BY <2>2, <2>4, ScheduledTo
  <2> QED
    BY <1>3, <2>5, <2>6 DEF Lengthens, Proclaims
<1> QED
  BY <1>1, <1>2, <1>3, LogWrites

\* No host goes back between the halves of a take-over once it has proclaimed itself.
LEMMA ProclaimedStep ==
  ASSUME Typed, Kept, HostStages, ClosedStages, Proclaimed, NEW a \in Players, Step(a) \/ UNCHANGED vars
  PROVE  Proclaimed'
<1> USE ControlTypes
<1> SUFFICES ASSUME NEW h \in Players, NEW p \in Players, Proclaims(h, p)' \/ taken'[p][h] > 0
             PROVE  half'[h] = {} /\ (host'[h] \/ st'[h] = "over")
  BY DEF Proclaimed
<1>1. ASSUME h = a, Proclaim(a) PROVE half'[h] = {} /\ (host'[h] \/ st'[h] = "over")
  <2>1. half[h] # {} /\ half'[h] = {} /\ host' = host
    BY <1>1, ProclaimStep
  <2> QED
    BY <2>1 DEF HostStages
<1>2. ASSUME Proclaims(h, p) \/ taken[p][h] > 0
      PROVE  half'[h] = {} /\ (host'[h] \/ st'[h] = "over")
  <2>1. half[h] = {} /\ (host[h] \/ st[h] = "over")
    BY <1>2 DEF Proclaimed
  <2> QED
    BY <2>1, HalfStep, HostsStay
<1>3. ASSUME taken'[p][h] > 0 PROVE Proclaims(h, p) \/ taken[p][h] > 0
  <2>1. ASSUME NEW g \in Players, HearNewHost(a, g) PROVE Proclaims(h, p) \/ taken'[p][h] = taken[p][h]
    <3>1. taken' = [taken EXCEPT ![a][g] = @ + 1] /\ Proclaims(g, a)
      BY <2>1 DEF HearNewHost, Proclaims
    <3>2. <<p, h>> = <<a, g>> \/ taken'[p][h] = taken[p][h]
      BY <3>1 DEF Kept
    <3> QED
      BY <3>1, <3>2
  <2>2. CASE Settles
    BY <1>3, <2>2 DEF Settles
  <2>3. CASE \/ \E g \in Players : AskToJoin(a, g)
             \/ \E m \in net : Connect(a, m) \/ TakeOver(a, m)
    BY <1>3, <2>3 DEF AskToJoin, Connect, TakeOver, readVars
  <2> QED
    BY <1>3, <2>1, <2>2, <2>3, SettledSteps
<1> QED
  BY <1>1, <1>2, <1>3, ProclaimsStep
LEMMA OriginsInit == Init => Origins
<1> SUFFICES ASSUME Init PROVE Origins
  OBVIOUS
<1>1. Blank
  <2>1. \A p \in Players : Early(p) => p # First
    BY DEF Init, Early
  <2> QED
    BY <2>1 DEF Init, Blank
<1>2. BeggedOut /\ OneHandover /\ TookFrom
  BY PlayersAssumption DEF Init, BeggedOut, OneHandover, TookFrom, Handovers
<1>3. Proclaimed
  <2>1. \A h, p \in Players : log[h][p] = << >> /\ taken[p][h] = 0
    BY DEF Init
  <2> QED
    BY <2>1 DEF Proclaimed, Proclaims
<1> QED
  BY <1>1, <1>2, <1>3 DEF Origins

\* Where each host has its session from stays true in every step but an admission ...
LEMMA OriginsStep ==
  ASSUME Typed, Kept, HostStages, ClosedStages, Origins, NEW a \in Players, Step(a) \/ UNCHANGED vars
  PROVE  Origins'
BY BlankStep, BeggedOutStep, OneHandoverStep, TookFromStep, ProclaimedStep DEF Origins

\* ... and in an admission.
LEMMA OriginsAdmit ==
  ASSUME Typed, Kept, HostStages, Origins, NEW h \in Players, NEW p \in Players, Admit(h, p)
  PROVE  Origins'
<1>1. /\ UNCHANGED <<st, me, host, closed, half, pend, asked, taken, from, next>>
      /\ host[h] /\ half[h] = {}
  BY Admitting
<1>2. UNCHANGED <<begged, took, Handovers>>
  BY AdmitStep DEF Admit, selfVars
<1>3. PICK a : Admits(h, p, a)
  BY AdmitWrites
<1>4. NewEntries(h, p, a) /\ \A q \in Players : q # h => list'[q] = list[q]
  BY <1>3, AdmitShows
<1>5. Blank'
  <2>1. \A q \in Players : Early(q) => q # h
    BY <1>1 DEF HostStages, Early
  <2> QED
    BY <1>1, <1>4, <2>1 DEF Origins, Blank, Early
<1>6. BeggedOut' /\ OneHandover' /\ TookFrom'
  BY <1>1, <1>2 DEF Origins, BeggedOut, OneHandover, TookFrom
<1>7. Proclaimed'
  <2>1. ASSUME NEW g \in Players, NEW q \in Players, Proclaims(g, q)' PROVE Proclaims(g, q)
    BY <1>4, <2>1 DEF NewEntries, Lengthens, Proclaims
  <2> QED
    BY <1>1, <2>1 DEF Origins, Proclaimed
<1> QED
  BY <1>5, <1>6, <1>7 DEF Origins

-----------------------------------------------------------------------------
(* The lists go from a host to the next *)

\* Host h is in its own list, and has the number of those in it.
OwnLine(h) ==
  /\ Has(list[h], me[h]) /\ list[h][me[h].slot].who = h /\ list[h][me[h].slot].host
  /\ me[h].slot \in Joined(list[h])
Counts(h) ==
  /\ count[h] = Cardinality(Joined(list[h])) /\ FreeLines(list[h]) /\ OwnLine(h)

\* A player is in list L, with its id.
Mem(L, p) == \E a \in Admissions(L) : a.who = p /\ IdOf(a) = me[p]
In(L, p) == \E a \in Admissions(L) : a.who = p

\* What a player knows, or is going to know, after the first k messages of host h, whose list
\* is L: a client what it has by now, one that is admitted its own line, one that is taken
\* over what the last host knew.  F has the list that each host handed over.
Served(h, p, L, v, k) ==
  /\ st[p] = "in" /\ ~host[p] /\ from[p] = h /\ p \notin skewed \cup dropped
  /\ Mem(L, p) /\ v = Seen(list[p], count[p]) /\ k = next[p]
Joiner(h, p, L, v, k) ==
  /\ st[p] = "joining" /\ asked[p] = h /\ k = 0
  /\ \E a \in Admissions(L), n \in Int : a.who = p /\ v = Seen(Own(a), n)
Heritage(F, h, p, L, v, k) ==
  /\ took[h] \in Players /\ asked[p] # h /\ k = 0
  /\ In(L, p) /\ \E n \in Int : v = Seen(F[took[h]], n)
Expects(F, h, p, L, v, k) ==
  Served(h, p, L, v, k) \/ Joiner(h, p, L, v, k) \/ Heritage(F, h, p, L, v, k)

\* The messages of h to p make what h knows of view v, but for what it still has to tell.
Along(h, p, v, k) ==
  \E w : Leads(v, log[h][p], k, w) /\ Tells(list[h], count[h], Untold(h), w)

Clean(p) == p \notin skewed

\* What is handed over by m: a list with the new host and without the old, and its number.
Will(F, m) == Seen(F[m.from], m.count)
Hands(F, m) ==
  /\ m.count = Cardinality(Joined(F[m.from]))
  /\ m.id \in Ids(F[m.from]) /\ F[m.from][m.id.slot].who = m.to
  /\ F[m.from][m.old.slot] = Free /\ m.old \in Id

\* What q has made of it between the halves of its take-over.
Halfway(F, q, m) ==
  /\ list[q] = Flags(F[m.from], me[q]) /\ Hands(F, m) /\ m.id = me[q]
  /\ \A t \in Threads : pend[q][t] = None
  /\ \A p \in Players : Quiet(q, p)

\* The list of a host that leads the session, or has handed it over.
Standing(F, h, L) ==
  /\ Clean(h)
  /\ \/ Live(h) /\ L = list[h]
     \/ (\E m \in Handovers : m.from = h) /\ L = F[h]

\* Whom a host has not admitted was in the list it took over, and its NewHost is the first
\* that the host has sent it.
Inherits(F, h, L) ==
  took[h] \in Players => \A p \in Players : asked[p] # h =>
    /\ \A i \in DOMAIN log[h][p] : log[h][p][i].ty = "NewHost" => i = 1
    /\ \A a \in Admissions(L) : a.who = p => a \in Admissions(F[took[h]])

AllCount == \A h \in Players : Live(h) /\ Clean(h) => Counts(h)
AllHalfway(F) ==
  \A q \in Players : \A m \in half[q] : st[q] = "in" /\ Clean(q) => Halfway(F, q, m)
Handing(F, m, p) ==
  \A v, k : Expects(F, m.from, p, F[m.from], v, k) => Leads(v, log[m.from][p], k, Will(F, m))
AllHand(F) ==
  \A m \in Handovers : Clean(m.from) /\ Clean(m.to) =>
    Hands(F, m) /\ \A p \in Players \ {m.from} : Handing(F, m, p)
Leading(F, h, p) ==
  \A v, k : Expects(F, h, p, list[h], v, k) => Along(h, p, v, k)
AllFollow(F) ==
  \A h \in Players : Live(h) /\ Clean(h) => \A p \in Players \ {h} : Leading(F, h, p)
AllInherit(F) == \A h \in Players : \A L : Standing(F, h, L) => Inherits(F, h, L)

Listing(F) ==
  /\ F \in [Players -> [Slots -> Line]]
  /\ \A h \in Players : Admissions(F[h]) \subseteq given /\ FreeLines(F[h])
Lineage(F) ==
  Listing(F) /\ AllCount /\ AllHalfway(F) /\ AllHand(F) /\ AllFollow(F) /\ AllInherit(F)
SameWills(F, G) == \A m \in Handovers : G[m.from] = F[m.from]

\* A player that was not at a new stage expects what it expected before.
LEMMA ExpectsKept ==
  ASSUME TookFrom, IdleOut, NEW F, NEW G, SameWills(F, G),
         NEW h \in Players, NEW p \in Players, ClientKept(p), took'[h] = took[h],
         skewed \subseteq skewed', dropped \subseteq dropped',
         NEW L, Admissions(L) \subseteq given, NEW v, NEW k, Expects(G, h, p, L, v, k)'
  PROVE  Expects(F, h, p, L, v, k)
<1>1. st[p] = "idle" => ~In(L, p)
  BY DEF IdleOut, Out, In
<1>2. CASE Served(h, p, L, v, k)'
  <2>1. st'[p] = "in" /\ ~host'[p]
    BY <1>2 DEF Served
  <2> QED
    BY <1>2, <2>1 DEF ClientKept, Served, Mem, Expects
<1>3. CASE Joiner(h, p, L, v, k)'
  <2>1. st'[p] = "joining" /\ In(L, p)
    BY <1>3 DEF Joiner, In
  <2>2. st[p] = "joining" /\ asked'[p] = asked[p]
    BY <1>1, <2>1 DEF ClientKept
  <2> QED
    BY <1>3, <2>2 DEF Joiner, Expects
<1>4. CASE Heritage(G, h, p, L, v, k)'
  <2>1. asked'[p] = asked[p]
    BY <1>1, <1>4 DEF Heritage, ClientKept, In
  <2>2. took[h] \in Players => G[took[h]] = F[took[h]]
    BY DEF TookFrom, SameWills
  <2> QED
    BY <1>4, <2>1, <2>2 DEF Heritage, Expects, In
<1> QED
  BY <1>2, <1>3, <1>4 DEF Expects

\* What is expected of a list is expected of a longer one.
LEMMA ExpectsMore ==
  ASSUME NEW F, NEW h, NEW p, NEW L, NEW K, Admissions(L) \subseteq Admissions(K), NEW v, NEW k,
         Expects(F, h, p, L, v, k)
  PROVE  Expects(F, h, p, K, v, k)
BY DEF Expects, Served, Joiner, Heritage, Mem, In

\* Whoever expects something is in the list.
LEMMA ExpectsIn ==
  ASSUME NEW F, NEW h, NEW p, NEW L, NEW v, NEW k, Expects(F, h, p, L, v, k)
  PROVE  In(L, p)
BY DEF Expects, Served, Joiner, Heritage, Mem, In

\* Whose host and whose client are as they were follow as they did.
LEMMA LeadingKept ==
  ASSUME Typed, HostStages, Known, IdleOut, TookFrom, NEW F, NEW G, SameWills(F, G),
         NEW a \in Players, Step(a) \/ UNCHANGED vars,
         NEW h \in Players, NEW p \in Players, HostKept(h), ClientKept(p),
         Live(h)', Leading(F, h, p)
  PROVE  Leading(G, h, p)'
<1>1. Live(h) /\ list'[h] = list[h] /\ count'[h] = count[h] /\ pend'[h] = pend[h] /\ log'[h] = log[h]
  BY DEF HostKept
<1>2. took'[h] = took[h]
  <2>1. ASSUME NEW m \in net, TakeOver(a, m), h = a PROVE FALSE
    BY <1>1, <2>1, TakeOverStep DEF Live
  <2>2. CASE took' = took
    BY <2>2
  <2>3. ASSUME NEW m \in net, TakeOver(a, m), took' = [took EXCEPT ![a] = m.from] PROVE took'[h] = took[h]
    BY <2>1, <2>3 DEF TookFrom
  <2> QED
    BY <2>2, <2>3, Grows
<1>3. skewed \subseteq skewed' /\ dropped \subseteq dropped'
  BY Grows
<1>4. SUFFICES ASSUME NEW v, NEW k, Expects(G, h, p, list[h], v, k)' PROVE Along(h, p, v, k)'
  BY DEF Leading
<1>5. PICK L : L = list[h]
  OBVIOUS
<1>6. Expects(G, h, p, L, v, k)'
  BY <1>1, <1>4, <1>5 DEF Expects, Served, Joiner, Heritage, Mem, In
<1>7. Admissions(L) \subseteq given
  BY <1>5 DEF Known, KnownList
<1>8. Expects(F, h, p, L, v, k)
  BY <1>2, <1>3, <1>6, <1>7, ExpectsKept
<1>9. Along(h, p, v, k)
  BY <1>5, <1>8 DEF Leading
<1> QED
  BY <1>1, <1>9 DEF Along, Untold

\* Thread t of host h takes the player in slot s, not itself, off its list.
Drops(h, t, s) ==
  /\ s \in Joined(list[h]) /\ s # me[h].slot /\ pend[h][t] = None
  /\ list'[h] = [list[h] EXCEPT ![s] = Free]
  /\ count'[h] = count[h] - 1
  /\ pend'[h] = [pend[h] EXCEPT ![t] = IdAt(list[h], s)]
  /\ log'[h] = log[h]

\* What a Destroy or a Kick writes of a host that is in its own list.
LEMMA HostDrops ==
  ASSUME Typed, Kept, Known, BeggedOut, NEW h \in Players, NEW a \in Players,
         Destroy(h, a) \/ \E s \in Slots : Kick(h, s),
         Live(h)', OwnLine(h)
  PROVE  Live(h) /\ (HostKept(h) \/ \E t \in Threads, s \in Slots : Drops(h, t, s))
<1> USE StateTypes
<1>1. UNCHANGED <<st, host, half, closed, me, log>>
  BY DEF Destroy, Kick, selfVars
<1>2. Live(h)
  BY <1>1 DEF Live
<1>3. ASSUME NEW t \in Threads, NEW s \in Joined(list[h]), s # me[h].slot, Remove(h, t, s),
             pend[h][t] = None
      PROVE  Drops(h, t, s) /\ s \in Slots
  BY <1>1, <1>3 DEF Drops, Remove, Joined
<1>4. CASE \E s \in Slots : Kick(h, s)
  <2>1. PICK s \in Slots : Kick(h, s)
    BY <1>4
  <2>2. s \in Joined(list[h]) /\ IdAt(list[h], s) # me[h] /\ Remove(h, "game", s) /\ pend[h]["game"] = None
    BY <2>1 DEF Kick
  <2>3. s # me[h].slot
    <3>1. ASSUME s = me[h].slot PROVE IdAt(list[h], s) = me[h]
      BY <3>1 DEF OwnLine, Has, IdAt, AnyId, Id, None
    <3> QED
      BY <2>2, <3>1
  <2> QED
    BY <1>2, <1>3, <2>2, <2>3 DEF Threads
<1>5. CASE Destroy(h, a)
  <2>1. CASE UNCHANGED <<list, count, pend>>
    BY <1>1, <1>2, <2>1 DEF HostKept
  <2>2. CASE ~UNCHANGED <<list, count, pend>>
    <3>1. /\ Has(list[h], me[a]) /\ list[h][me[a].slot].who = a
          /\ Remove(h, "read", me[a].slot) /\ pend[h]["read"] = None /\ begged[a] = h
      BY <1>5, <2>2 DEF Destroy
    <3>2. a # h
      <4>1. begged[h] = NoPlayer
        BY <1>2 DEF BeggedOut, Live
      <4> QED
        BY <3>1, <4>1, PlayersAssumption
    <3>3. me[a].slot # me[h].slot
      BY <3>1, <3>2 DEF OwnLine
    <3>4. me[a] \in Id
      BY <3>1, GivenTypes DEF Known, KnownPlayer
    <3>5. me[a].slot \in Joined(list[h])
      BY <3>1, <3>4, NumbersAssumption DEF Has, Joined, Id
    <3> QED
      BY <1>2, <1>3, <3>1, <3>3, <3>5 DEF Threads
  <2> QED
    BY <2>1, <2>2
<1> QED
  BY <1>4, <1>5

\* The host has removed a player.
LEMMA LeadingDrop ==
  ASSUME Typed, HostStages, Known, IdleOut, TookFrom, NEW F, NEW G, SameWills(F, G),
         NEW h \in Players, NEW p \in Players, ClientKept(p), NEW t \in Threads, NEW s \in Slots,
         Drops(h, t, s), skewed \subseteq skewed', dropped \subseteq dropped',
         took'[h] = took[h], Leading(F, h, p)
  PROVE  Leading(G, h, p)'
<1> USE StateTypes
<1>1. SUFFICES ASSUME NEW v, NEW k, Expects(G, h, p, list[h], v, k)' PROVE Along(h, p, v, k)'
  BY DEF Leading
<1>2. PICK L : L = list[h]
  OBVIOUS
<1>3. PICK K : K = [L EXCEPT ![s] = Free]
  OBVIOUS
<1>4. list'[h] = K /\ s \in Joined(L) /\ L \in [Slots -> Line]
  BY <1>2, <1>3 DEF Drops
<1>5. Expects(G, h, p, K, v, k)'
  BY <1>1, <1>4 DEF Expects, Served, Joiner, Heritage, Mem, In
<1>6. Admissions(L) \subseteq given /\ Admissions(K) \subseteq Admissions(L)
  <2>1. Admissions(L) \subseteq given
    BY <1>2 DEF Known, KnownList
  <2> QED
    BY <1>3, <1>4, <2>1, FreeLine
<1>7. Expects(F, h, p, K, v, k)
  BY <1>5, <1>6, ExpectsKept
<1>8. Expects(F, h, p, L, v, k)
  BY <1>6, <1>7, ExpectsMore
<1>9. PICK w : Leads(v, log[h][p], k, w) /\ Tells(L, count[h], Untold(h), w)
  BY <1>2, <1>8 DEF Leading, Along
<1>10. Untold(h)' = Untold(h) \cup {IdAt(L, s)}
  <2>1. IdAt(L, s) # None
    <3>1. IdAt(L, s) \in Id
      BY <1>4, LineType
    <3> QED
      BY <3>1, GivenTypes, NumbersAssumption DEF Id, None
  <2>2. pend'[h] = [pend[h] EXCEPT ![t] = IdAt(L, s)] /\ pend[h][t] = None
    BY <1>2 DEF Drops
  <2>3. PICK i : i = IdAt(L, s)
    OBVIOUS
  <2>4. PICK f : f = pend[h]
    OBVIOUS
  <2>5. PICK g : g = pend'[h]
    OBVIOUS
  <2>6. g[t] = i /\ f[t] = None /\ \A u \in Threads \ {t} : g[u] = f[u]
    BY <2>2, <2>3, <2>4, <2>5
  <2>7. {g[u] : u \in Threads} \ {None} = ({f[u] : u \in Threads} \ {None}) \cup {i}
    BY <2>1, <2>3, <2>6
  <2>8. Untold(h)' = {g[u] : u \in Threads} \ {None} /\ Untold(h) = {f[u] : u \in Threads} \ {None}
    BY <2>4, <2>5 DEF Untold
  <2> QED
    BY <2>3, <2>7, <2>8
<1>11. Tells(K, count[h] - 1, Untold(h) \cup {IdAt(L, s)}, w)
  <2>1. PICK c, I : c = count[h] /\ I = Untold(h)
    OBVIOUS
  <2>2. c \in Int /\ Tells(L, c, I, w)
    BY <1>9, <2>1
  <2>3. Tells([L EXCEPT ![s] = Free], c - 1, I \cup {IdAt(L, s)}, w)
    BY <1>4, <2>2, TellsRemoved
  <2> QED
    BY <1>3, <2>1, <2>3
<1>12. list'[h] = K /\ count'[h] = count[h] - 1 /\ log'[h] = log[h]
  BY <1>4 DEF Drops
<1>13. PICK I : I = Untold(h) \cup {IdAt(L, s)}
  OBVIOUS
<1>14. Tells(K, count[h] - 1, I, w) /\ Untold(h)' = I
  BY <1>10, <1>11, <1>13
<1> QED
  BY <1>9, <1>12, <1>14 DEF Along, Tells

\* Player p is sent what host h, with list L, schedules.
SentTo(h, L, p) == \A x : Scheduled(h, L, x)[p] = Append(log[h][p], x)

\* Whoever else is in the list of a host is sent what it schedules.
LEMMA ScheduledFor ==
  ASSUME NEW h \in Players, NEW p \in Players \ {h}, OwnLine(h), In(list[h], p)
  PROVE  SentTo(h, list[h], p)
<1>0. PICK L : L = list[h]
  OBVIOUS
<1>1. PICK s \in Joined(L) : L[s].who = p
  BY <1>0 DEF In, Admissions, Admission
<1>2. IdAt(L, s) # me[h]
  <2>1. ASSUME IdAt(L, s) = me[h] PROVE FALSE
    <3>1. me[h].slot = s
      BY <2>1 DEF IdAt
    <3> QED
      BY <1>0, <1>1, <3>1 DEF OwnLine
  <2> QED
    BY <2>1
<1> QED
  BY <1>0, <1>1, <1>2 DEF Scheduled, SentTo

\* The host has told of a player that it removed.
LEMMA LeadingBye ==
  ASSUME Typed, HostStages, Known, IdleOut, TookFrom, PendGone, NEW F, NEW G, SameWills(F, G),
         NEW h \in Players, NEW t \in Threads, Schedule(h, t), NEW p \in Players \ {h},
         OwnLine(h), Leading(F, h, p)
  PROVE  Leading(G, h, p)'
<1> USE StateTypes
<1>1. SUFFICES ASSUME NEW v, NEW k, Expects(G, h, p, list[h], v, k)' PROVE Along(h, p, v, k)'
  BY DEF Leading
<1>2. PICK L, c, id : L = list[h] /\ c = count[h] /\ id = pend[h][t]
  OBVIOUS
<1>3. L \in [Slots -> Line] /\ c \in Int /\ id \in Id
  BY <1>2 DEF Schedule, AnyId
<1>4. PICK x : x = [ty |-> "Leave", id |-> id, count |-> c]
  OBVIOUS
<1>5. x \in Message /\ x.ty = "Leave" /\ x.id = id /\ x.count = c
  BY <1>3, <1>4 DEF Message, AnyId
<1>6. UNCHANGED <<list, count, took, dropped>> /\ skewed \subseteq skewed'
      /\ log' = [log EXCEPT ![h] = Scheduled(h, L, x)] /\ pend' = [pend EXCEPT ![h][t] = None]
  BY <1>2, <1>4 DEF Schedule
<1>7. Expects(F, h, p, L, v, k)
  <2>1. ClientKept(p)
    BY ClientKeptHost
  <2>2. Expects(G, h, p, L, v, k)'
    BY <1>1, <1>2, <1>6 DEF Expects, Served, Joiner, Heritage, Mem, In
  <2>3. Admissions(L) \subseteq given
    BY <1>2 DEF Known, KnownList
  <2>4. took'[h] = took[h] /\ dropped \subseteq dropped'
    BY <1>6
  <2> QED
    BY <1>6, <2>1, <2>2, <2>3, <2>4, ExpectsKept
<1>8. PICK I, J : I = Untold(h) /\ J = Untold(h)'
  OBVIOUS
<1>9. PICK w : Leads(v, log[h][p], k, w) /\ Tells(L, c, I, w)
  BY <1>2, <1>7, <1>8 DEF Leading, Along
<1>10. id \in I /\ J = I \ {id}
  <2>1. PICK f, g : f = pend[h] /\ g = pend'[h]
    OBVIOUS
  <2>2. f[t] = id /\ id # None /\ g[t] = None /\ \A u \in Threads \ {t} : g[u] = f[u]
    BY <1>2, <1>3, <1>6, <2>1, GivenTypes, NumbersAssumption DEF Id, None
  <2>3. \A u \in Threads \ {t} : f[u] # id
    BY <1>2, <2>1, <2>2 DEF PendGone
  <2>4. {g[u] : u \in Threads} \ {None} = ({f[u] : u \in Threads} \ {None}) \ {id}
    <3>1. ASSUME NEW u \in Threads, g[u] # None PROVE u # t /\ g[u] = f[u] /\ f[u] # id
      BY <2>2, <2>3, <3>1
    <3>2. ASSUME NEW u \in Threads, f[u] # id PROVE u # t /\ g[u] = f[u]
      BY <2>2, <3>2
    <3> QED
      BY ZenonT(60), <3>1, <3>2
  <2>5. I = {f[u] : u \in Threads} \ {None} /\ J = {g[u] : u \in Threads} \ {None}
    BY <1>8, <2>1 DEF Untold
  <2> QED
    BY <2>2, <2>4, <2>5
<1>11. log'[h][p] = Append(log[h][p], x)
  <2>1. SentTo(h, L, p)
    BY <1>2, <1>7, ExpectsIn, ScheduledFor
  <2>2. Scheduled(h, L, x)[p] = Append(log[h][p], x)
    BY <2>1 DEF SentTo
  <2> QED
    BY <1>6, <2>2
<1>12. Leads(v, log'[h][p], k, Apply(w, x))
  BY <1>5, <1>9, <1>11, LeadsOn
<1>13. Tells(L, c, J, Apply(w, x))
  <2>1. id \notin Ids(L)
    BY <1>2, <1>3, NumbersAssumption DEF PendGone, Id, None
  <2> QED
    BY <1>3, <1>5, <1>9, <1>10, <2>1, TellsBye
<1>14. list'[h] = L /\ count'[h] = c
  BY <1>2, <1>6
<1> QED
  BY <1>8, <1>12, <1>13, <1>14 DEF Along, Tells

\* What is not yet told of is in pend.
LEMMA UntoldKept == ASSUME NEW h \in Players, pend'[h] = pend[h] PROVE Untold(h)' = Untold(h)
<1>1. PICK f : f = pend[h]
  OBVIOUS
<1>2. Untold(h) = {f[t] : t \in Threads} \ {None} /\ Untold(h)' = {f[t] : t \in Threads} \ {None}
  BY <1>1 DEF Untold
<1> QED
  BY <1>2

\* The host flags change nothing of who is in a list.
LEMMA SameFlags ==
  ASSUME NEW l \in [Slots -> Line], NEW id \in Id, NEW k, k = Flags(l, id)
  PROVE  /\ k \in [Slots -> Line] /\ Joined(k) = Joined(l) /\ Admissions(k) = Admissions(l)
         /\ \A s \in Slots : k[s].n = l[s].n /\ k[s].who = l[s].who
         /\ \A s \in Slots : (IdAt(l, s) = id => k[s].host) /\ (IdAt(l, s) # id => k[s].host = FALSE)
         /\ FreeLines(l) => FreeLines(k)
<1>1. k \in [Slots -> Line]
  BY HostFlagType DEF Flags
<1>2. \A s \in Slots : k[s].n = l[s].n /\ k[s].who = l[s].who /\ k[s].host = (IdAt(l, s) = id)
  BY DEF Flags, Line
<1>3. Joined(k) = Joined(l)
  BY <1>2 DEF Joined
<1>4. Admissions(k) = Admissions(l)
  <2>1. \A s \in Joined(l) : Admission(k, s) = Admission(l, s)
    BY <1>2 DEF Joined, Admission
  <2> QED
    BY <1>3, <2>1 DEF Admissions
<1>5. ASSUME FreeLines(l), NEW s \in Slots, s \notin Joined(k) PROVE k[s] = Free
  <2>1. l[s] = Free /\ l[s].n = -1
    BY <1>3, <1>5 DEF FreeLines, Free
  <2>2. IdAt(l, s) # id
    BY <2>1, NumbersAssumption DEF IdAt, Id
  <2>3. k[s] \in Line /\ k[s].n = -1 /\ k[s].who = NoPlayer
    BY <1>1, <1>2, <2>1 DEF Free
  <2>4. k[s].host = FALSE
    BY <1>2, <2>2
  <2> QED
    BY <2>3, <2>4 DEF Line, Free
<1> QED
  BY <1>1, <1>2, <1>3, <1>4, <1>5 DEF FreeLines

\* What a host between the halves of a clean take-over has.
LEMMA HalfwayLine ==
  ASSUME Typed, HostStages, Known, TookFrom, NEW F, Listing(F), NEW q \in Players, NEW m \in half[q],
         Halfway(F, q, m), st[q] = "in"
  PROVE  /\ m.from \in Players /\ F[m.from] \in [Slots -> Line] /\ FreeLines(F[m.from])
         /\ me[q] \in Id /\ m.count \in Int /\ took[q] = m.from /\ m \in Handovers
         /\ Has(F[m.from], me[q]) /\ m.count = Cardinality(Joined(list[q]))
         /\ OwnLine(q) /\ FreeLines(list[q]) /\ Untold(q) = {}
<1> USE ControlTypes, StateTypes
<1>1. m \in Handovers /\ m.to = q /\ took[q] = m.from
  BY DEF TookFrom
<1>2. m.from \in Players /\ m.count \in Int
  BY <1>1 DEF Handovers, Typed, SentOK, Datagram, Migrates
<1>3. PICK l : l = F[m.from]
  OBVIOUS
<1>4. l \in [Slots -> Line] /\ FreeLines(l)
  BY <1>2, <1>3 DEF Listing
<1>5. me[q] \in Id
  BY GivenTypes DEF Known, KnownPlayer
<1>6. list[q] = Flags(l, me[q]) /\ m.count = Cardinality(Joined(l)) /\ me[q] \in Ids(l)
      /\ l[me[q].slot].who = q
  BY <1>1, <1>3 DEF Halfway, Hands
<1>7. Has(l, me[q])
  BY <1>4, <1>5, <1>6, HasId
<1>8. me[q].slot \in Slots /\ me[q].n # -1 /\ IdAt(l, me[q].slot) = me[q]
  BY <1>5, <1>7, NumbersAssumption DEF Id, IdAt, Has
<1>9. OwnLine(q) /\ FreeLines(list[q]) /\ Joined(list[q]) = Joined(l)
  <2>1. PICK k : k = list[q]
    OBVIOUS
  <2>2. /\ FreeLines(k) /\ Joined(k) = Joined(l)
        /\ \A s \in Slots : k[s].n = l[s].n /\ k[s].who = l[s].who
        /\ \A s \in Slots : IdAt(l, s) = me[q] => k[s].host
    <3>1. PICK i \in Id : i = me[q]
      BY <1>5
    <3>2. k = Flags(l, i)
      BY <1>6, <2>1, <3>1
    <3>3. /\ Joined(k) = Joined(l)
          /\ FreeLines(l) => FreeLines(k)
          /\ \A s \in Slots : k[s].n = l[s].n /\ k[s].who = l[s].who
          /\ \A s \in Slots : IdAt(l, s) = i => k[s].host
      <4>1. Joined(k) = Joined(l)
        BY <1>4, <3>1, <3>2, SameFlags
      <4>2. FreeLines(l) => FreeLines(k)
        BY <1>4, <3>1, <3>2, SameFlags
      <4>3. ASSUME NEW s \in Slots PROVE k[s].n = l[s].n /\ k[s].who = l[s].who
        BY <1>4, <3>2 DEF Flags, Line
      <4>4. \A s \in Slots : IdAt(l, s) = i => k[s].host
        BY <1>4, <3>1, <3>2, SameFlags
      <4> QED
        BY <4>1, <4>2, <4>3, <4>4
    <3> QED
      BY <1>4, <3>1, <3>3
  <2>3. Has(k, me[q]) /\ k[me[q].slot].who = q /\ k[me[q].slot].host
    BY <1>6, <1>7, <1>8, <2>2 DEF Has
  <2>4. me[q].slot \in Joined(k)
    BY <1>8, <2>3 DEF Joined, Has
  <2> QED
    BY <2>1, <2>2, <2>3, <2>4 DEF OwnLine
<1>10. Untold(q) = {}
  BY DEF Halfway, Untold
<1> QED
  BY <1>1, <1>2, <1>3, <1>4, <1>5, <1>6, <1>7, <1>9, <1>10

\* The host has told that it took the session over.
LEMMA LeadingProclaim ==
  ASSUME Typed, HostStages, Known, Following, TookFrom, Proclaimed, NEW F, NEW G, SameWills(F, G),
         Listing(F), NEW q \in Players, Proclaim(q), st[q] = "in",
         \A m \in half[q] : Halfway(F, q, m), NEW p \in Players \ {q}
  PROVE  Leading(G, q, p)'
<1> USE ControlTypes, StateTypes
<1>1. SUFFICES ASSUME NEW v, NEW k, Expects(G, q, p, list[q], v, k)' PROVE Along(q, p, v, k)'
  BY DEF Leading
<1>2. PICK m \in half[q] :
        LET e == [ty |-> "NewHost", id |-> me[q], who |-> q, count |-> m.count]
        IN /\ count' = [count EXCEPT ![q] = m.count] /\ log' = [log EXCEPT ![q] = Scheduled(q, list[q], e)]
           /\ UNCHANGED <<st, list, pend, selfVars, readVars, net, history>>
  BY DEF Proclaim
<1>3. PICK L, c, e : L = list[q] /\ c = m.count
                     /\ e = [ty |-> "NewHost", id |-> me[q], who |-> q, count |-> c]
  OBVIOUS
<1>4. PICK l : l = F[m.from]
  OBVIOUS
<1>5. /\ l \in [Slots -> Line] /\ me[q] \in Id /\ c \in Int /\ took[q] = m.from /\ m \in Handovers
      /\ m.from \in Players /\ Has(l, me[q]) /\ OwnLine(q) /\ Untold(q) = {}
  BY <1>2, <1>3, <1>4, HalfwayLine
<1>6. L = Flags(l, me[q]) /\ Quiet(q, p)
  BY <1>2, <1>3, <1>4 DEF Halfway
<1>7. half[q] # {} /\ Admissions(L) \subseteq given
  BY <1>2, <1>3 DEF Known, KnownList
<1>8. list'[q] = L /\ count'[q] = c /\ pend'[q] = pend[q] /\ UNCHANGED <<st, host, asked, from, me, took>>
  BY <1>2, <1>3 DEF selfVars, readVars, history
<1>9. In(L, p) /\ (asked[p] # q) /\ Expects(G, q, p, L, v, k)'
  <2>1. Expects(G, q, p, L, v, k)'
    BY <1>1, <1>8 DEF Expects, Served, Joiner, Heritage, Mem, In
  <2>2. In(L, p)
    BY <2>1 DEF Expects, Served, Joiner, Heritage, Mem, In
  <2>3. asked[p] = q => Out(p)
    BY <1>7 DEF Following, AskedHost
  <2> QED
    BY <1>7, <2>1, <2>2, <2>3 DEF Out, In
<1>10. ~Served(q, p, L, v, k)'
  <2>1. SUFFICES ASSUME st[p] = "in", ~host[p], from[p] = q PROVE FALSE
    BY <1>8 DEF Served
  <2>2. taken[p][q] > 0
    BY <1>9, <2>1 DEF Following, FollowsAsked, Reading
  <2> QED
    BY <1>7, <2>2 DEF Proclaimed
<1>11. ~Joiner(q, p, L, v, k)'
  BY <1>8, <1>9 DEF Joiner
<1>12. k = 0 /\ \E n \in Int : v = Seen(l, n)
  <2>1. Heritage(G, q, p, L, v, k)'
    BY <1>9, <1>10, <1>11 DEF Expects
  <2>2. G[took'[q]] = l
    BY <1>4, <1>5, <1>8 DEF SameWills
  <2> QED
    BY <2>1, <2>2 DEF Heritage
<1>13. e \in Message
  BY <1>3, <1>5 DEF Message, AnyId
<1>14. log'[q][p] = Append(log[q][p], e)
  <2>0. L = list[q] /\ In(L, p) /\ OwnLine(q) /\ q \in Players /\ p \in Players \ {q}
    BY <1>3, <1>5, <1>9
  <2>1. SentTo(q, L, p)
    BY <2>0, ScheduledFor
  <2>2. Scheduled(q, L, e)[p] = Append(log[q][p], e)
    BY <2>1 DEF SentTo
  <2> QED
    BY <1>2, <1>3, <2>2
<1>15. Leads(v, log[q][p], k, v)
  <2>0. log[q][p] \in Seq(Message)
    BY LogType
  <2>1. PICK K \in Seq(Message) : K = log[q][p]
    BY <2>0
  <2>2. PICK n \in Nat : n = Len(K) /\ DOMAIN K = 1..n
    BY LenProperties, <2>1
  <2>3. DOMAIN K = {}
    BY <1>6, <2>1 DEF Quiet
  <2>4. n # 0 => 1 \in DOMAIN K
    BY <2>2
  <2>5. k = Len(K)
    BY <1>12, <2>2, <2>3, <2>4
  <2>6. Leads(v, K, k, v)
    BY <2>1, <2>5, LeadsEnd
  <2> QED
    BY <2>1, <2>6
<1>16. Leads(v, log'[q][p], k, Apply(v, e))
  BY <1>13, <1>14, <1>15, LeadsOn
<1>17. Apply(v, e) = Seen(L, c)
  BY <1>3, <1>5, <1>6, <1>12 DEF Apply, Seen
<1>18. Tells(L, c, {}, Seen(L, c))
  BY <1>3, <1>5, TellsSame
<1>19. Untold(q)' = {}
  BY <1>5, <1>8, UntoldKept
<1> QED
  BY <1>8, <1>16, <1>17, <1>18, <1>19 DEF Along, Tells

\* List k is l without the line of slot s.
Less(l, s, k) ==
  /\ k \in [Slots -> Line] /\ k[s] = Free /\ \A t \in Slots \ {s} : k[t] = l[t]
  /\ Joined(k) = Joined(l) \ {s} /\ Cardinality(Joined(k)) = Cardinality(Joined(l)) - 1
  /\ FreeLines(l) => FreeLines(k)

\* A line that is freed is one less.
LEMMA OneLess ==
  ASSUME NEW l \in [Slots -> Line], NEW s \in Joined(l)
  PROVE  Less(l, s, [l EXCEPT ![s] = Free])
<1>0. PICK k : k = [l EXCEPT ![s] = Free]
  OBVIOUS
<1>1. s \in Slots /\ k[s] = Free /\ k \in [Slots -> Line] /\ \A t \in Slots \ {s} : k[t] = l[t]
  BY <1>0, ListType DEF Joined
<1>2. Joined(k) = Joined(l) \ {s}
  BY <1>1 DEF Joined, Free
<1>3. Cardinality(Joined(k)) = Cardinality(Joined(l)) - 1
  <2>1. IsFiniteSet(Joined(l))
    BY JoinedSlots
  <2> QED
    BY <1>2, <2>1, FS_RemoveElement
<1>4. FreeLines(l) => FreeLines(k)
  BY <1>1, <1>2 DEF FreeLines
<1>5. Less(l, s, k)
  BY <1>1, <1>2, <1>3, <1>4 DEF Less
<1> QED
  BY <1>0, <1>5

\* Host h gives player p the slot s, by admission a, and tells the others so by x; l is its
\* list from then on.
Seats(h, p, s, a, l, x) ==
  /\ s \in Slots \ Joined(list[h])
  /\ a = [slot |-> s, n |-> last[h] + 1, who |-> p] /\ a.n \in 0..MaxId
  /\ l = [list[h] EXCEPT ![s] = [n |-> a.n, who |-> p, host |-> FALSE]]
  /\ x = [ty |-> "Create", id |-> IdOf(a), who |-> p, count |-> count[h] + 1]
  /\ list' = [list EXCEPT ![h] = l] /\ count' = [count EXCEPT ![h] = count[h] + 1]
  /\ given' = given \cup {a}
  /\ log' = [log EXCEPT ![h] = [Scheduled(h, list[h], x) EXCEPT ![p] = ListPackets(l, count[h] + 1)]]

\* An admission seats the player.
LEMMA AdmitSeats ==
  ASSUME Typed, NEW h \in Players, NEW p \in Players, Admit(h, p)
  PROVE  \E s, a, l, x : Seats(h, p, s, a, l, x)
<1> USE ControlTypes, StateTypes
<1>1. PICK s \in Slots \ Joined(list[h]) :
        LET n == NextNumber(h)
            l == [list[h] EXCEPT ![s] = [n |-> n, who |-> p, host |-> FALSE]]
            c == count[h] + 1
            create == [ty |-> "Create", id |-> IdAt(l, s), who |-> p, count |-> c]
        IN /\ list' = [list EXCEPT ![h] = l] /\ count' = [count EXCEPT ![h] = c]
           /\ log' = [log EXCEPT ![h] =
                [Scheduled(h, list[h], create) EXCEPT ![p] = ListPackets(l, c)]]
           /\ given' = given \cup {[slot |-> s, n |-> n, who |-> p]}
  BY DEF Admit
<1>2. PICK n, l, a : /\ n = last[h] + 1 /\ a = [slot |-> s, n |-> n, who |-> p]
                     /\ l = [list[h] EXCEPT ![s] = [n |-> n, who |-> p, host |-> FALSE]]
  OBVIOUS
<1>3. PICK x : x = [ty |-> "Create", id |-> IdAt(l, s), who |-> p, count |-> count[h] + 1]
  OBVIOUS
<1>4. n \in 0..MaxId
  <2>1. last[h] \in 0..MaxId /\ last[h] < MaxId
    BY DEF Admit
  <2> QED
    BY <1>2, <2>1, NumbersAssumption
<1>5. IdAt(l, s) = IdOf(a)
  <2>1. l[s].n = n
    BY <1>1, <1>2
  <2> QED
    BY <1>2, <2>1 DEF IdAt, IdOf
<1>6. /\ list' = [list EXCEPT ![h] = l] /\ count' = [count EXCEPT ![h] = count[h] + 1]
      /\ log' = [log EXCEPT ![h] =
           [Scheduled(h, list[h], x) EXCEPT ![p] = ListPackets(l, count[h] + 1)]]
      /\ given' = given \cup {a}
  BY <1>1, <1>2, <1>3 DEF NextNumber
<1>7. Seats(h, p, s, a, l, x)
  BY <1>1, <1>2, <1>3, <1>4, <1>5, <1>6 DEF Seats
<1> QED
  BY <1>7

\* What that makes of list k.
Seated(k, p, s, a, l, x) ==
  /\ IdOf(a) \in Id \ GivenIds /\ a.slot = s /\ a.who = p /\ x \in Message
  /\ l \in [Slots -> Line] /\ Admissions(l) = Admissions(k) \cup {a}
  /\ Joined(l) = Joined(k) \cup {s} /\ l[s].host = FALSE
  /\ \A t \in Slots \ {s} : l[t] = k[t]
  /\ Cardinality(Joined(l)) = Cardinality(Joined(k)) + 1
  /\ FreeLines(k) => FreeLines(l)

\* A player that is seated is one more, with an id that is new.
LEMMA SeatsParts ==
  ASSUME Typed, KnowsLast, Known, NEW h \in Players, NEW p \in Players, Admit(h, p),
         NEW s, NEW a, NEW l, NEW x, Seats(h, p, s, a, l, x)
  PROVE  Seated(list[h], p, s, a, l, x)
<1> USE ControlTypes, StateTypes
<1>1. PICK k \in [Slots -> Line] : k = list[h]
  OBVIOUS
<1>2. s \in Slots /\ s \notin Joined(k) /\ l = [k EXCEPT ![s] = [n |-> a.n, who |-> p, host |-> FALSE]]
      /\ a = [slot |-> s, n |-> a.n, who |-> p] /\ a.n \in 0..MaxId
  BY <1>1 DEF Seats
<1>3. Admissions(l) = Admissions(k) \cup {a}
  <2>1. PICK n \in 0..MaxId : n = a.n
    BY <1>2
  <2>2. l = [k EXCEPT ![s] = [n |-> n, who |-> p, host |-> FALSE]] /\ a = [slot |-> s, n |-> n, who |-> p]
    BY <1>2, <2>1
  <2> HIDE ControlTypes, StateTypes
  <2> QED
    <3>1. k \in [Slots -> Line] /\ s \in Slots /\ n \in 0..MaxId /\ s \notin Joined(k)
      BY <1>1, <1>2, <2>1
    <3> QED
      BY <2>2, <3>1, NewLine
<1>4. l \in [Slots -> Line]
  <2>1. a.n \in -1..MaxId
    BY <1>2, NumbersAssumption
  <2> QED
    BY <1>2, <2>1, ListType
<1>5. l[s].host = FALSE /\ l[s].n # -1 /\ \A t \in Slots \ {s} : l[t] = k[t]
  BY <1>2, NumbersAssumption
<1>6. Joined(l) = Joined(k) \cup {s}
  BY <1>2, <1>5 DEF Joined
<1>7. Cardinality(Joined(l)) = Cardinality(Joined(k)) + 1
  <2>1. IsFiniteSet(Joined(k))
    BY JoinedSlots
  <2> QED
    BY <1>2, <1>6, <2>1, FS_AddElement
<1>8. FreeLines(k) => FreeLines(l)
  BY <1>5, <1>6 DEF FreeLines
<1>9. IdOf(a) \in Id
  BY <1>2 DEF IdOf, Id
<1>10. IdOf(a) \notin GivenIds
  <2>1. UpTo(last[h]) /\ last[h] \in 0..MaxId /\ a.n = last[h] + 1
    <3>1. Acts(h) /\ half[h] = {}
      BY AdmitStep DEF Acts, Present, Connected
    <3>2. a.n = last[h] + 1
      BY DEF Seats
    <3> QED
      BY <3>1, <3>2 DEF KnowsLast
  <2>2. SUFFICES ASSUME NEW b \in given, IdOf(a) = IdOf(b) PROVE FALSE
    BY DEF GivenIds
  <2>3. a.n = b.n
    BY <2>2 DEF IdOf
  <2>4. b.n <= last[h]
    BY <2>1 DEF UpTo
  <2> QED
    BY <2>1, <2>3, <2>4, NumbersAssumption
<1>11. x \in Message
  BY <1>9 DEF Seats, Message, AnyId
<1>12. a.slot = s /\ a.who = p
  BY <1>2
<1> QED
  BY <1>1, <1>3, <1>4, <1>5, <1>6, <1>7, <1>8, <1>9, <1>10, <1>11, <1>12 DEF Seated

\* The host has admitted a player: the others are told of it, it is told all of them.
LEMMA LeadingAdmit ==
  ASSUME RoomForAll, Typed, HostStages, Kept, Known, IdleOut, TookFrom, KnowsLast,
         NEW F, NEW h \in Players, NEW p \in Players, Admit(h, p), Counts(h),
         NEW q \in Players \ {h}, Leading(F, h, q)
  PROVE  Leading(F, h, q)'
<1>1. SUFFICES ASSUME NEW v, NEW k, Expects(F, h, q, list[h], v, k)' PROVE Along(h, q, v, k)'
  BY DEF Leading
<1>2. PICK s, a, l, x : Seats(h, p, s, a, l, x)
  BY AdmitSeats
<1>3. PICK L, c, I : L = list[h] /\ c = count[h] /\ I = Untold(h)
  OBVIOUS
<1>t. log[h][q] \in Seq(Message) /\ L \in [Slots -> Line] /\ c \in Int
  BY <1>3, StateTypes
<1>4. /\ UNCHANGED <<st, me, host, pend, asked, from, next, took, skewed, dropped>>
      /\ asked[p] = h /\ Listed(h, p) = {}
  BY Admitting DEF Admit, selfVars, readVars
<1>5. list'[h] = l /\ count'[h] = c + 1 /\ Untold(h)' = I
  BY <1>2, <1>3, <1>4, StateTypes, UntoldKept DEF Seats
<1>6. /\ IdOf(a) \in Id \ GivenIds /\ a.slot = s /\ a.who = p /\ x \in Message
      /\ l \in [Slots -> Line] /\ Admissions(l) = Admissions(L) \cup {a}
      /\ l[s].host = FALSE /\ (FreeLines(L) => FreeLines(l))
      /\ Cardinality(Joined(l)) = Cardinality(Joined(L)) + 1
  <2>1. Seated(L, p, s, a, l, x)
    BY <1>2, <1>3, SeatsParts
  <2> QED
    BY <2>1 DEF Seated
<1>7. FreeLines(l) /\ c + 1 = Cardinality(Joined(l)) /\ c + 1 \in Int
  BY <1>3, <1>t, <1>6 DEF Counts
<1>8. Expects(F, h, q, l, v, k)'
  BY <1>1, <1>5 DEF Expects, Served, Joiner, Heritage, Mem, In
<1>9. list'[q] = list[q] /\ count'[q] = count[q]
  BY <1>2, StateTypes DEF Seats
<1>10. Expects(F, h, q, l, v, k)
  BY <1>4, <1>8, <1>9 DEF Expects, Served, Joiner, Heritage, Mem, In
<1>11. CASE q # p
  <2>1. Expects(F, h, q, L, v, k)
    <3>1. \A b \in Admissions(l) : b.who = q => b \in Admissions(L)
      BY <1>6, <1>11
    <3> QED
      BY <1>10, <3>1 DEF Expects, Served, Joiner, Heritage, Mem, In
  <2>2. PICK w : Leads(v, log[h][q], k, w) /\ Tells(L, c, I, w)
    BY <1>3, <2>1 DEF Leading, Along
  <2>3. log'[h][q] = Append(log[h][q], x)
    <3>1. SentTo(h, L, q)
      <4>1. In(list[h], q) /\ OwnLine(h) /\ h \in Players /\ q \in Players \ {h}
        BY <1>3, <2>1, ExpectsIn DEF Counts
      <4> QED
        BY <1>3, <4>1, ScheduledFor
    <3>2. Scheduled(h, L, x)[q] = Append(log[h][q], x)
      BY <3>1 DEF SentTo
    <3>3. log'[h][q] = Scheduled(h, L, x)[q]
      BY <1>2, <1>3, <1>11, StateTypes DEF Seats, Scheduled
    <3> QED
      BY <3>2, <3>3
  <2>4. Leads(v, log'[h][q], k, Apply(w, x))
    BY <1>t, <1>6, <2>2, <2>3, LeadsOn
  <2>5. Tells(l, c + 1, I, Apply(w, x))
    <3>1. x.ty = "Create" /\ x.id = IdOf(a) /\ x.who = p /\ x.count = c + 1 /\ IdOf(a).slot = s
          /\ IdOf(a).n = a.n
      BY <1>2, <1>3, <1>6 DEF Seats, IdOf
    <3>2. l = [L EXCEPT ![x.id.slot] = [n |-> x.id.n, who |-> x.who, host |-> FALSE]]
      BY <1>2, <1>3, <3>1 DEF Seats
    <3>3. L \in [Slots -> Line] /\ x.id \in Id
      BY <1>t, <1>6, <3>1
    <3>4. Tells(l, x.count, I, Apply(w, x))
      BY <1>6, <2>2, <3>1, <3>2, <3>3, TellsCreate
    <3> QED
      BY <3>1, <3>4
  <2> QED
    BY <1>5, <2>4, <2>5 DEF Along, Tells
<1>12. CASE q = p
  <2>1. \A b \in Admissions(l) : b.who = p => b = a
    <3>1. ASSUME NEW b \in Admissions(L), b.who = p PROVE FALSE
      <4>0. PICK t \in Joined(L) : b = Admission(L, t)
        BY DEF Admissions
      <4>1. t \in Joined(L) /\ L[t].who = p
        BY <3>1, <4>0 DEF Admission
      <4>2. IdAt(L, t) = me[h]
        BY <1>3, <1>4, <4>1 DEF Listed
      <4>3. me[h].slot = t
        BY <4>2 DEF IdAt
      <4> QED
        BY <1>3, <1>12, <4>1, <4>3 DEF Counts, OwnLine
    <3> QED
      BY <1>6, <3>1
  <2>2. ~Served(h, p, l, v, k)
    <3>1. SUFFICES ASSUME st[p] = "in", me[p] = IdOf(a) PROVE FALSE
      BY <2>1 DEF Served, Mem
    <3>2. me[p] \in GivenIds
      BY <3>1 DEF Known, KnownPlayer
    <3> QED
      BY <1>6, <3>1, <3>2
  <2>3. ~Heritage(F, h, p, l, v, k)
    BY <1>4 DEF Heritage
  <2>4. Joiner(h, p, l, v, k)
    BY <1>10, <1>12, <2>2, <2>3 DEF Expects
  <2>5. PICK n \in Int : k = 0 /\ v = Seen(Own(a), n)
    BY <2>1, <2>4 DEF Joiner
  <2>6. a \in Admissions(l) /\ l[a.slot].host = FALSE
    BY <1>6
  <2>7. Leads(v, ListPackets(l, c + 1), 0, Seen(l, c + 1))
    BY <1>6, <1>7, <2>5, <2>6, PacketsLead
  <2>8. log'[h][p] = ListPackets(l, c + 1)
    BY <1>2, <1>3, StateTypes DEF Seats, Scheduled
  <2>9. Tells(l, c + 1, I, Seen(l, c + 1))
    BY <1>6, <1>7, TellsSame
  <2> QED
    BY <1>5, <1>12, <2>5, <2>7, <2>8, <2>9 DEF Along, Tells
<1> QED
  BY <1>11, <1>12

-----------------------------------------------------------------------------
(* A client goes on *)

\* What p expects of host h follows from what it expected before.
Backs(F, h, p, L, v, k) ==
  \E v0, k0 : /\ Expects(F, h, p, L, v0, k0)
              /\ \A w : Leads(v0, log[h][p], k0, w) => Leads(v, log[h][p], k, w)

\* What a client makes of the next message is what Apply says.
LEMMA HandleApplies ==
  ASSUME Typed, NEW p \in Players, Handle(p)
  PROVE  Seen(list'[p], count'[p]) = Apply(Seen(list[p], count[p]), Now(p))
<1> USE StateTypes
<1>1. PICK x \in Message : x = Now(p)
  BY NowType
<1>2. HandleCreate(p, x) \/ HandleList(p, x) \/ HandleLeave(p, x) \/ HandleNewHost(p, x)
  BY <1>1 DEF Handle, Now
<1>3. PICK l, c : l = list[p] /\ c = count[p]
  OBVIOUS
<1>4. ASSUME HandleCreate(p, x) PROVE Seen(list'[p], count'[p]) = Apply(Seen(l, c), x)
  <2>1. x.ty = "Create"
    BY <1>4 DEF HandleCreate, Takes
  <2>2. list'[p] = [l EXCEPT ![x.id.slot] = [n |-> x.id.n, who |-> x.who, host |-> FALSE]]
        /\ count'[p] = x.count
    BY <1>3, <1>4 DEF HandleCreate
  <2> QED
    BY <2>1, <2>2 DEF Apply, Seen
<1>5. ASSUME HandleList(p, x) PROVE Seen(list'[p], count'[p]) = Apply(Seen(l, c), x)
  <2>1. x.ty = "List"
    BY <1>5 DEF HandleList, Takes
  <2>2. list'[p] = [s \in Slots |-> IF s \in DOMAIN x.part THEN x.part[s] ELSE l[s]]
        /\ count'[p] = x.count
    BY <1>3, <1>5 DEF HandleList
  <2> QED
    BY <2>1, <2>2 DEF Apply, Seen
<1>6. ASSUME HandleLeave(p, x) PROVE Seen(list'[p], count'[p]) = Apply(Seen(l, c), x)
  <2>1. x.ty = "Leave"
    BY <1>6 DEF HandleLeave, Takes
  <2>2. Has(l, x.id) => list'[p] = Without(l, x.id) /\ count'[p] = x.count
    BY <1>3, <1>6 DEF HandleLeave
  <2>3. ~Has(l, x.id) => list'[p] = l /\ count'[p] = c
    BY <1>3, <1>6 DEF HandleLeave
  <2> QED
    BY <2>1, <2>2, <2>3 DEF Apply, Seen
<1>7. ASSUME HandleNewHost(p, x) PROVE Seen(list'[p], count'[p]) = Apply(Seen(l, c), x)
  <2>1. x.ty = "NewHost"
    BY <1>7 DEF HandleNewHost, Takes
  <2>2. list'[p] = Flags(l, x.id)
    BY <1>3, <1>7 DEF HandleNewHost, Flags
  <2>3. count'[p] = IF Has(l, x.id) THEN x.count ELSE c
    BY <1>3, <1>7 DEF HandleNewHost
  <2> QED
    BY <2>1, <2>2, <2>3 DEF Apply, Seen
<1> QED
  BY <1>1, <1>2, <1>3, <1>4, <1>5, <1>6, <1>7

\* A client that handles a message expects what follows from what it did.
LEMMA HandleBacks ==
  ASSUME Typed, Known, NEW p \in Players, Handle(p), NEW F, NEW h \in Players, NEW L, NEW v, NEW k,
         Expects(F, h, p, L, v, k)'
  PROVE  Backs(F, h, p, L, v, k)
<1> USE StateTypes
<1>1. Reading(p) /\ from[p] \in Players /\ next[p] + 1 \in DOMAIN log[from[p]][p]
      /\ next[p] < Len(log[from[p]][p])
  BY NowType DEF Handle
<1>2. KnownMessage(Now(p))
  BY <1>1 DEF Known, KnownLogs, Now
<1>3. /\ next'[p] = next[p] + 1 /\ next[p] \in Nat
      /\ UNCHANGED <<st, host, me, from, asked, took, skewed, dropped>>
  BY <1>2, HandleWrites DEF history
<1>4. CASE Served(h, p, L, v, k)'
  <2>1. Served(h, p, L, Seen(list[p], count[p]), next[p])
    BY <1>3, <1>4 DEF Served, Mem
  <2>2. from[p] = h /\ k = next[p] + 1 /\ v = Seen(list'[p], count'[p])
    BY <1>3, <1>4 DEF Served
  <2>3. v = Apply(Seen(list[p], count[p]), log[h][p][next[p] + 1])
    BY <2>2, HandleApplies DEF Now
  <2>4. PICK u, n, K : u = Seen(list[p], count[p]) /\ n = next[p] /\ K = log[h][p]
    OBVIOUS
  <2>5. K \in Seq(Message) /\ n < Len(K)
    BY <1>1, <2>2, <2>4, LogType
  <2>6. \A w : Leads(u, K, n, w) => Leads(Apply(u, K[n + 1]), K, n + 1, w)
    BY <2>5, LeadsNext
  <2>7. \A w : Leads(u, log[h][p], n, w) => Leads(v, log[h][p], k, w)
    BY <2>2, <2>3, <2>4, <2>6
  <2>8. Expects(F, h, p, L, u, n)
    BY <2>1, <2>4 DEF Expects
  <2> QED
    BY <2>7, <2>8 DEF Backs
<1>5. CASE Joiner(h, p, L, v, k)'
  BY <1>1, <1>3, <1>5 DEF Joiner, Reading
<1>6. CASE Heritage(F, h, p, L, v, k)'
  <2>1. Heritage(F, h, p, L, v, k)
    BY <1>3, <1>6 DEF Heritage, In
  <2> QED
    BY <2>1 DEF Expects, Backs
<1> QED
  BY <1>4, <1>5, <1>6 DEF Expects

\* A player that connects expects what it did as one that is joining.
LEMMA ConnectBacks ==
  ASSUME Typed, Known, Blank, NEW p \in Players, NEW m \in net, Connect(p, m), NEW F,
         NEW h \in Players, NEW L, NEW v, NEW k, Expects(F, h, p, L, v, k)'
  PROVE  Backs(F, h, p, L, v, k)
<1> USE StateTypes, ControlTypes
<1>1. st[p] = "joining" /\ st'[p] = "in" /\ m.ty = "Added" /\ m.to = p
      /\ UNCHANGED <<host, asked, took, skewed, dropped>>
  BY DEF Connect, history
<1>2. list[p] = Empty /\ next[p] = 0
  BY <1>1 DEF Blank, Early
<1>3. m.id \in Id /\ m.count \in Int
  BY <1>1 DEF Typed, SentOK, Datagram, Migrates
<1>4. /\ from'[p] = m.from /\ me'[p] = m.id /\ count'[p] = m.count /\ next'[p] = 0
      /\ list'[p] = [Empty EXCEPT ![m.id.slot] = [n |-> m.id.n, who |-> p, host |-> FALSE]]
  BY <1>2 DEF Connect
<1>5. CASE Served(h, p, L, v, k)'
  <2>1. m.from = h /\ k = 0 /\ v = Seen(list'[p], count'[p]) /\ Mem(L, p)'
    BY <1>4, <1>5 DEF Served
  <2>2. PICK a \in Admissions(L) : a.who = p /\ IdOf(a) = m.id
    BY <1>4, <2>1 DEF Mem
  <2>3. m.id.slot = a.slot /\ m.id.n = a.n
    BY <2>2 DEF IdOf
  <2>4. list'[p] = Own(a)
    BY <1>4, <2>2, <2>3 DEF Own
  <2>5. asked[p] = h
    BY <1>1, <2>1 DEF Known, KnownDatagram
  <2>6. Joiner(h, p, L, v, k)
    BY <1>1, <1>3, <1>4, <2>1, <2>2, <2>4, <2>5 DEF Joiner
  <2> QED
    BY <2>6 DEF Expects, Backs
<1>6. CASE Joiner(h, p, L, v, k)'
  BY <1>1, <1>6 DEF Joiner
<1>7. CASE Heritage(F, h, p, L, v, k)'
  <2>1. Heritage(F, h, p, L, v, k)
    BY <1>1, <1>7 DEF Heritage, In
  <2> QED
    BY <2>1 DEF Expects, Backs
<1> QED
  BY <1>5, <1>6, <1>7 DEF Expects

\* Who takes the NewHost of the next host, and has handled all of the last, knows what was
\* handed over.
LEMMA HearBacks ==
  ASSUME Typed, Kept, HostStages, Known, Following, OneHandover, TookFrom, NEW p \in Players,
         NEW g \in Players, HearNewHost(p, g), NEW F, AllHand(F), NEW h \in Players, NEW L,
         Clean(h), Inherits(F, h, L), NEW v, NEW k, Expects(F, h, p, L, v, k)'
  PROVE  Backs(F, h, p, L, v, k)
<1> USE StateTypes
<1>1. UNCHANGED <<st, host, me, list, count, log, asked, took>> /\ skewed \subseteq skewed'
      /\ dropped \subseteq dropped'
  BY DEF HearNewHost, hostVars, selfVars
<1>2. CASE Joiner(h, p, L, v, k)' \/ Heritage(F, h, p, L, v, k)'
  <2>1. Expects(F, h, p, L, v, k)
    BY <1>1, <1>2 DEF Joiner, Heritage, In, Expects
  <2> QED
    BY <2>1 DEF Backs
<1>3. CASE Served(h, p, L, v, k)'
  <2>1. PICK i \in DOMAIN log[g][p] :
          /\ Reading(p) /\ log[g][p][i].ty = "NewHost"
          /\ from' = [from EXCEPT ![p] = g] /\ next' = [next EXCEPT ![p] = i - 1]
          /\ dropped' = IF taken[p][g] > 0 \/ next[p] < Len(log[from[p]][p])
                        THEN dropped \cup {p} ELSE dropped
          /\ skewed' = IF took[g] # from[p] \/ from[p] \in skewed
                       THEN skewed \cup {p} ELSE skewed
    BY DEF HearNewHost, Hears
  <2>2. h = g /\ st[p] = "in" /\ ~host[p] /\ p \notin skewed' \cup dropped' /\ Mem(L, p)
        /\ v = Seen(list[p], count[p]) /\ k = i - 1
    BY <1>1, <1>3, <2>1 DEF Served, Mem
  <2>3. PICK f : f = from[p]
    OBVIOUS
  <2>4. f \in Players /\ took[h] = f /\ Clean(f) /\ ~(next[p] < Len(log[f][p]))
    BY <2>1, <2>2, <2>3 DEF Typed, SentOK, Clean
  <2>5. asked[p] # h
    BY <2>1, <2>2 DEF Following, AskedHost
  <2>6. i = 1 /\ \A a \in Admissions(L) : a.who = p => a \in Admissions(F[f])
    BY <2>1, <2>2, <2>4, <2>5 DEF Inherits
  <2>7. PICK m \in Handovers : m.from = f /\ m.to = h
    BY <2>4 DEF TookFrom
  <2>8. p # f
    BY <2>2, <2>7 DEF OneHandover
  <2>9. Expects(F, f, p, F[f], v, next[p])
    <3>1. Mem(F[f], p)
      BY <2>2, <2>6 DEF Mem
    <3>2. Served(f, p, F[f], v, next[p])
      BY <1>1, <2>2, <2>3, <3>1 DEF Served
    <3> QED
      BY <3>2 DEF Expects
  <2>10. Leads(v, log[f][p], next[p], Will(F, m))
    <3>1. Handing(F, m, p)
      BY <2>4, <2>7, <2>8 DEF AllHand
    <3> QED
      BY <2>7, <2>9, <3>1 DEF Handing
  <2>11. Will(F, m) = v
    <3>1. log[f][p] \in Seq(Message) /\ Len(log[f][p]) \in Nat /\ next[p] \in Nat
      BY <2>4, LogType
    <3>2. next[p] >= Len(log[f][p])
      BY <2>4, <3>1
    <3> QED
      BY <2>10, <3>1, <3>2, LeadsEnd
  <2>12. v = Seen(F[took[h]], m.count) /\ m.count \in Int
    BY <2>4, <2>7, <2>11 DEF Will, Handovers, Typed, SentOK, Datagram, Migrates
  <2>13. Heritage(F, h, p, L, v, k)
    <3>1. In(L, p)
      BY <2>2 DEF Mem, In
    <3>2. k = 0
      BY <2>2, <2>6
    <3>3. \E n \in Int : v = Seen(F[took[h]], n)
      BY <2>12
    <3> QED
      BY <2>4, <2>5, <3>1, <3>2, <3>3 DEF Heritage
  <2> QED
    BY <2>13 DEF Expects, Backs
<1> QED
  BY <1>2, <1>3 DEF Expects

\* A step with which a client goes on.
ClientStep(p) ==
  Handle(p) \/ (\E g \in Players : HearNewHost(p, g)) \/ \E m \in net : Connect(p, m)

\* Whatever a client does, what it expects follows from what it expected before.
LEMMA ClientBacks ==
  ASSUME Typed, Kept, HostStages, Known, Following, Origins, NEW p \in Players, ClientStep(p),
         NEW F, AllHand(F), NEW h \in Players, NEW L, Clean(h), Inherits(F, h, L), NEW v, NEW k,
         Expects(F, h, p, L, v, k)'
  PROVE  Backs(F, h, p, L, v, k)
BY HandleBacks, ConnectBacks, HearBacks DEF ClientStep, Origins

\* The host of a client that goes on is as it was: the client follows as it did.
LEMMA LeadingClient ==
  ASSUME Typed, Kept, HostStages, Known, Following, Origins, NEW p \in Players, ClientStep(p),
         NEW F, AllHand(F), AllInherit(F), NEW h \in Players, HostKept(h), Live(h)', Clean(h),
         Leading(F, h, p)
  PROVE  Leading(F, h, p)'
<1>1. Live(h) /\ list'[h] = list[h] /\ count'[h] = count[h] /\ pend'[h] = pend[h] /\ log'[h] = log[h]
  BY DEF HostKept
<1>2. SUFFICES ASSUME NEW v, NEW k, Expects(F, h, p, list[h], v, k)' PROVE Along(h, p, v, k)'
  BY DEF Leading
<1>3. PICK L : L = list[h]
  OBVIOUS
<1>4. Expects(F, h, p, L, v, k)'
  BY <1>1, <1>2, <1>3 DEF Expects, Served, Joiner, Heritage, Mem, In
<1>5. Inherits(F, h, L)
  <2>1. Standing(F, h, L)
    BY <1>1, <1>3 DEF Standing
  <2> QED
    BY <2>1 DEF AllInherit
<1>6. Backs(F, h, p, L, v, k)
  BY <1>4, <1>5, ClientBacks
<1>7. Along(h, p, v, k)
  BY <1>3, <1>6 DEF Backs, Leading, Along
<1> QED
  BY <1>1, <1>7 DEF Along, Untold

-----------------------------------------------------------------------------
(* Whoever leads the session is followed, and counts *)

\* A host that removes or tells does not move.
LEMMA HandsOn ==
  ASSUME Typed, NEW h \in Players, NEW a \in Players,
         \/ Destroy(h, a) \/ (\E s \in Slots : Kick(h, s)) \/ \E t \in Threads : Schedule(h, t)
  PROVE  /\ UNCHANGED <<st, host, half, me, asked, took>> /\ (Live(h)' => Live(h))
         /\ skewed \subseteq skewed' /\ dropped \subseteq dropped'
<1>1. UNCHANGED <<st, host, half, closed, me, asked, took, dropped>>
  BY ZenonT(60) DEF Destroy, Kick, Schedule, selfVars, history
<1>2. skewed \subseteq skewed'
  BY DEF Destroy, Kick, Schedule, history
<1> QED
  BY <1>1, <1>2 DEF Live

\* G goes on from F in a step, and is the same when a client goes on.
GoesOn(F, G, a) == SameWills(F, G) /\ (ClientStep(a) => G = F)

\* A host that is kept leads whom it led.
LEMMA LeadingKeptStep ==
  ASSUME Typed, Kept, HostStages, ClosedStages, Known, Following, Origins, NEW F, Lineage(F), NEW G,
         NEW a \in Players, Step(a) \/ UNCHANGED vars, GoesOn(F, G, a),
         NEW h \in Players, NEW p \in Players \ {h}, HostKept(h), Live(h)', Clean(h)
  PROVE  Leading(G, h, p)'
<1>1. Leading(F, h, p)
  BY DEF HostKept, Lineage, AllFollow
<1>2. IdleOut /\ TookFrom /\ AllHand(F) /\ AllInherit(F) /\ SameWills(F, G)
  BY DEF Following, Origins, Lineage, GoesOn
<1>3. CASE ClientKept(p)
  BY <1>1, <1>2, <1>3, LeadingKept
<1>4. CASE p = a /\ ClientStep(a)
  <2>1. Leading(F, h, p)'
    BY <1>1, <1>2, <1>4, LeadingClient
  <2> QED
    BY <1>4, <2>1 DEF GoesOn
<1> QED
  BY <1>3, <1>4, ClientKeptSteps DEF ClientStep

\* Whoever leads the session is followed after every step but an admission.
LEMMA LeadingStep ==
  ASSUME Typed, Kept, HostStages, ClosedStages, Known, Following, PendGone, Origins,
         NEW F, Lineage(F), NEW G, NEW a \in Players, Step(a) \/ UNCHANGED vars, GoesOn(F, G, a),
         NEW h \in Players, NEW p \in Players \ {h}, Live(h)', Clean(h)'
  PROVE  Leading(G, h, p)'
<1>1. Clean(h) /\ SameWills(F, G) /\ IdleOut /\ TookFrom /\ BeggedOut /\ Proclaimed
  BY Grows DEF Clean, GoesOn, Following, Origins
<1>2. CASE HostKept(h)
  BY <1>1, <1>2, LeadingKeptStep
<1>3. CASE Destroy(h, a) \/ \E s \in Slots : Kick(h, s)
  <2>1. Live(h) /\ took'[h] = took[h] /\ skewed \subseteq skewed' /\ dropped \subseteq dropped'
    BY <1>3, HandsOn
  <2>2. OwnLine(h) /\ Leading(F, h, p)
    BY <1>1, <2>1 DEF Lineage, AllCount, AllFollow, Counts
  <2>3. ClientKept(p)
    BY <1>3, ClientKeptHost
  <2>4. ASSUME NEW t \in Threads, NEW s \in Slots, Drops(h, t, s) PROVE Leading(G, h, p)'
    BY <1>1, <2>1, <2>2, <2>3, <2>4, LeadingDrop
  <2> QED
    BY <1>1, <1>2, <1>3, <2>2, <2>4, HostDrops
<1>4. ASSUME NEW t \in Threads, Schedule(h, t) PROVE Leading(G, h, p)'
  <2>1. Live(h)
    BY <1>4, HandsOn
  <2>2. OwnLine(h) /\ Leading(F, h, p)
    BY <1>1, <2>1 DEF Lineage, AllCount, AllFollow, Counts
  <2> QED
    BY <1>1, <1>4, <2>2, LeadingBye
<1>5. CASE Proclaim(h)
  <2>1. half[h] # {} /\ st' = st
    BY <1>5, ProclaimStep
  <2>2. st[h] = "in"
    BY <2>1 DEF Live, ClosedStages
  <2>3. Listing(F) /\ \A m \in half[h] : Halfway(F, h, m)
    BY <1>1, <2>2 DEF Lineage, AllHalfway
  <2> QED
    BY <1>1, <1>5, <2>2, <2>3, LeadingProclaim
<1> QED
  BY <1>2, <1>3, <1>4, <1>5, HostKeptSteps

\* Only who connects gets an id.
LEMMA MeKept ==
  ASSUME HostStages, NEW a \in Players, Step(a) \/ UNCHANGED vars, NEW h \in Players, host[h]
  PROVE  me'[h] = me[h]
<1>1. ASSUME \/ \E g \in Players : AskToJoin(a, g) \/ AnswerAgain(g, a) \/ Destroy(g, a)
                                   \/ HearNewHost(a, g)
             \/ \E m \in net : ReadBye(a, m) \/ TakeOver(a, m)
             \/ GiveUp(a) \/ EndSession(a) \/ StartLeaving(a) \/ TestAgain(a) \/ AskToLeave(a)
             \/ (\E s \in Slots : Kick(a, s)) \/ (\E t \in Threads : Schedule(a, t))
             \/ CloseSession(a) \/ ReadCount(a) \/ HandOver(a) \/ Proclaim(a)
             \/ HearLeave(a) \/ UNCHANGED vars
      PROVE  me' = me
  BY ZenonT(60), <1>1 DEF AskToJoin, AnswerAgain, Destroy, HearNewHost, ReadBye, TakeOver, GiveUp,
       EndSession, StartLeaving, TestAgain, AskToLeave, Kick, Schedule, CloseSession, ReadCount,
       HandOver, Proclaim, HearLeave,
       vars, selfVars
<1>2. ASSUME Handle(a) PROVE me' = me
  BY ZenonT(60), <1>2 DEF Handle, HandleCreate, HandleList, HandleLeave, HandleNewHost, selfVars
<1>3. ASSUME NEW m \in net, Connect(a, m) PROVE me'[h] = me[h]
  <2>1. a # h
    BY <1>3 DEF Connect, HostStages
  <2> QED
    BY <1>3, <2>1 DEF Connect
<1> QED
  BY <1>1, <1>2, <1>3 DEF Step

\* Whoever leads the session counts its players, after every step but an admission.
LEMMA CountsStep ==
  ASSUME Typed, Kept, HostStages, ClosedStages, Known, Following, Origins,
         NEW F, Lineage(F), NEW a \in Players, Step(a) \/ UNCHANGED vars,
         NEW h \in Players, Live(h)', Clean(h)'
  PROVE  Counts(h)'
<1> USE StateTypes
<1>1. Clean(h) /\ TookFrom /\ BeggedOut
  BY Grows DEF Clean, Origins
<1>2. ASSUME Live(h), list'[h] = list[h], count'[h] = count[h] PROVE Counts(h)'
  <2>1. Counts(h) /\ me'[h] = me[h]
    BY <1>1, <1>2, MeKept DEF Live, Lineage, AllCount
  <2> QED
    BY <1>2, <2>1 DEF Counts, OwnLine
<1>3. CASE HostKept(h)
  BY <1>2, <1>3 DEF HostKept
<1>4. CASE Destroy(h, a) \/ \E s \in Slots : Kick(h, s)
  <2>1. Live(h) /\ me'[h] = me[h]
    BY <1>4, HandsOn
  <2>2. Counts(h) /\ OwnLine(h)
    BY <1>1, <2>1 DEF Lineage, AllCount, Counts
  <2>3. ASSUME NEW t \in Threads, NEW s \in Slots, Drops(h, t, s) PROVE Counts(h)'
    <3>1. PICK l, k : l = list[h] /\ k = [l EXCEPT ![s] = Free]
      OBVIOUS
    <3>2. s \in Joined(l) /\ s # me[h].slot /\ list'[h] = k /\ count'[h] = count[h] - 1
      BY <2>3, <3>1 DEF Drops
    <3>3. l \in [Slots -> Line] /\ count[h] = Cardinality(Joined(l)) /\ FreeLines(l)
      BY <2>2, <3>1 DEF Counts
    <3>4. Less(l, s, k)
      <4>1. Less(l, s, [l EXCEPT ![s] = Free])
        BY <3>2, <3>3, OneLess
      <4> QED
        BY <3>1, <4>1
    <3>5. me[h].slot \in Joined(k) /\ k[me[h].slot] = l[me[h].slot]
      <4>1. PICK i : i = me[h].slot
        OBVIOUS
      <4>2. i \in Joined(l) /\ i # s
        BY <2>2, <3>1, <3>2, <4>1 DEF OwnLine
      <4>3. i \in Slots
        BY <4>2 DEF Joined
      <4> QED
        BY <3>4, <4>1, <4>2, <4>3 DEF Less
    <3>6. OwnLine(h)'
      BY <2>1, <2>2, <3>1, <3>2, <3>5 DEF OwnLine, Has
    <3> QED
      BY <3>2, <3>3, <3>4, <3>6 DEF Counts, Less
  <2> QED
    BY <1>1, <1>3, <1>4, <2>2, <2>3, HostDrops
<1>5. ASSUME NEW t \in Threads, Schedule(h, t) PROVE Counts(h)'
  <2>1. Live(h) /\ UNCHANGED <<list, count>>
    BY <1>5, HandsOn DEF Schedule
  <2> QED
    BY <1>2, <2>1
<1>6. CASE Proclaim(h)
  <2>1. half[h] # {} /\ st' = st
    BY <1>6, ProclaimStep
  <2>2. st[h] = "in"
    BY <2>1 DEF Live, ClosedStages
  <2>3. Listing(F) /\ \A m \in half[h] : Halfway(F, h, m)
    BY <1>1, <2>2 DEF Lineage, AllHalfway
  <2>4. PICK m \in half[h] : count' = [count EXCEPT ![h] = m.count] /\ UNCHANGED <<list, me>>
    BY <1>6 DEF Proclaim, selfVars
  <2>5. m.count = Cardinality(Joined(list[h])) /\ OwnLine(h) /\ FreeLines(list[h])
    BY <1>1, <2>2, <2>3, HalfwayLine
  <2>6. count'[h] = m.count
    BY <2>4
  <2> QED
    BY <2>4, <2>5, <2>6 DEF Counts, OwnLine
<1> QED
  BY <1>3, <1>4, <1>5, <1>6, HostKeptSteps

-----------------------------------------------------------------------------
(* Between the halves of a take-over *)

\* The half of a take-over comes by TakeOver, and goes by Proclaim.
LEMMA HalfWrites ==
  ASSUME Typed, NEW a \in Players, Step(a) \/ UNCHANGED vars, NEW q \in Players
  PROVE  \/ half'[q] = half[q] \/ half'[q] = {}
         \/ q = a /\ \E m \in net : TakeOver(a, m)
<1> USE ControlTypes
<1>1. ASSUME \/ \E h \in Players : AskToJoin(a, h) \/ AnswerAgain(h, a) \/ Destroy(h, a)
                                     \/ HearNewHost(a, h)
             \/ \E m \in net : Connect(a, m) \/ ReadBye(a, m)
             \/ GiveUp(a) \/ EndSession(a) \/ StartLeaving(a) \/ TestAgain(a) \/ AskToLeave(a)
             \/ (\E s \in Slots : Kick(a, s)) \/ (\E t \in Threads : Schedule(a, t))
             \/ CloseSession(a) \/ ReadCount(a) \/ HandOver(a)
             \/ HearLeave(a) \/ UNCHANGED vars
      PROVE  half' = half
  BY ZenonT(60), <1>1 DEF AskToJoin, AnswerAgain, Destroy, HearNewHost, Connect, ReadBye, GiveUp,
       EndSession, StartLeaving, TestAgain, AskToLeave, Kick, Schedule, CloseSession, ReadCount,
       HandOver, HearLeave, vars,
       hostVars
<1>2. ASSUME Handle(a) PROVE half' = half
  BY ZenonT(60), <1>2 DEF Handle, HandleCreate, HandleList, HandleLeave, HandleNewHost
<1>3. ASSUME Proclaim(a) PROVE half'[q] = half[q] \/ half'[q] = {}
  BY <1>3, ProclaimStep
<1>4. ASSUME NEW m \in net, TakeOver(a, m), q # a PROVE half'[q] = half[q]
  BY <1>4, TakeOverStep
<1> QED
  BY <1>1, <1>2, <1>3, <1>4 DEF Step

\* A host between the halves of a clean take-over does nothing else.
LEMMA HalfwayKept ==
  ASSUME Typed, HostStages, ClosedStages, NEW a \in Players, Step(a) \/ UNCHANGED vars,
         NEW q \in Players, half[q] # {}, half'[q] # {}, q \notin skewed',
         \A t \in Threads : pend[q][t] = None
  PROVE  list'[q] = list[q] /\ pend'[q] = pend[q] /\ log'[q] = log[q]
<1> USE StateTypes, ControlTypes
<1>1. host[q]
  BY DEF HostStages
<1>2. log'[q] = log[q]
  <2>1. ASSUME q = a, HandOver(a) PROVE FALSE
    BY <2>1, HandOverStep DEF ClosedStages
  <2>2. ASSUME q = a, Proclaim(a) PROVE FALSE
    BY <2>2, ProclaimStep
  <2>3. ASSUME q = a, NEW t \in Threads, Schedule(a, t) PROVE FALSE
    BY <2>3 DEF Schedule
  <2> QED
    BY <2>1, <2>2, <2>3, LogWrites
<1>3. ASSUME \/ \E g \in Players : AskToJoin(a, g) \/ AnswerAgain(g, a) \/ HearNewHost(a, g)
             \/ GiveUp(a) \/ StartLeaving(a) \/ TestAgain(a) \/ AskToLeave(a)
             \/ CloseSession(a) \/ ReadCount(a) \/ HandOver(a)
             \/ Proclaim(a) \/ HearLeave(a) \/ UNCHANGED vars
      PROVE  UNCHANGED <<list, pend>>
  BY ZenonT(60), <1>3 DEF AskToJoin, AnswerAgain, HearNewHost, GiveUp, StartLeaving, TestAgain,
        AskToLeave, CloseSession, ReadCount,
       HandOver, Proclaim, HearLeave, vars, hostVars
<1>4. ASSUME NEW g \in Players, Destroy(g, a) PROVE list'[q] = list[q] /\ pend'[q] = pend[q]
  BY <1>4 DEF Destroy, Remove
<1>5. ASSUME NEW s \in Slots, Kick(a, s) PROVE list'[q] = list[q] /\ pend'[q] = pend[q]
  BY <1>5 DEF Kick, Remove
<1>6. ASSUME NEW t \in Threads, Schedule(a, t) PROVE list'[q] = list[q] /\ pend'[q] = pend[q]
  BY <1>6 DEF Schedule
<1>7. ASSUME NEW m \in net, Connect(a, m) \/ ReadBye(a, m) \/ TakeOver(a, m)
      PROVE  list'[q] = list[q] /\ pend'[q] = pend[q]
  <2>1. ~host[a] /\ UNCHANGED pend
    BY <1>7 DEF Connect, ReadBye, Hears, Reading, TakeOver, HostStages
  <2> QED
    BY <1>1, <1>7, <2>1 DEF Connect, ReadBye, TakeOver
<1>8. ASSUME EndSession(a) PROVE list'[q] = list[q] /\ pend'[q] = pend[q]
  BY SMTT(40), <1>8 DEF EndSession
<1>9. ASSUME Handle(a) PROVE list'[q] = list[q] /\ pend'[q] = pend[q]
  <2>1. ~host[a] /\ UNCHANGED pend
    BY ZenonT(60), <1>9 DEF Handle, HandleCreate, HandleList, HandleLeave, HandleNewHost, Reading
  <2> QED
    BY ZenonT(60), <1>1, <1>9, <2>1 DEF Handle, HandleCreate, HandleList, HandleLeave, HandleNewHost
<1> QED
  BY <1>2, <1>3, <1>4, <1>5, <1>6, <1>7, <1>8, <1>9 DEF Step

\* What the heir makes of its list is what it was handed, but for the host flags.
LEMMA OustedFlags ==
  ASSUME NEW p \in Players, NEW m, NEW l, list[p] \in [Slots -> Line], l \in [Slots -> Line],
         me[p] \in Id, Has(l, me[p]), m.old \in Id, l[m.old.slot] = Free,
         l = list[p] \/ (Has(list[p], m.old) /\ l = Without(list[p], m.old))
  PROVE  Ousted(p, m) = Flags(l, me[p])
<1>1. PICK k, i, o : k = list[p] /\ i = me[p] /\ o = m.old
  OBVIOUS
<1>2. /\ i.slot \in Slots /\ i.n # -1 /\ i = [slot |-> i.slot, n |-> i.n]
      /\ o.slot \in Slots /\ o.n # -1 /\ k \in [Slots -> Line]
  BY <1>1, NumbersAssumption DEF Id
<1>3. \A s \in Slots : s = i.slot <=> IdAt(l, s) = i
  <2>1. l[i.slot].n = i.n
    BY <1>1 DEF Has
  <2> QED
    BY <1>2, <2>1 DEF IdAt
<1>4. ASSUME NEW s \in Slots
      PROVE  (IF Has(k, o) /\ s = o.slot THEN Free ELSE [k[s] EXCEPT !.host = s = i.slot])
               = [l[s] EXCEPT !.host = IdAt(l, s) = i]
  <2>1. CASE s = o.slot
    <3>1. l[s] = Free /\ l[s].n = -1 /\ l[s].host = FALSE
      BY <1>1, <2>1 DEF Free
    <3>2. IdAt(l, s) # i
      BY <1>2, <3>1 DEF IdAt
    <3>3. [l[s] EXCEPT !.host = IdAt(l, s) = i] = Free
      BY <3>1, <3>2 DEF Free
    <3>4. CASE Has(k, o)
      BY <2>1, <3>3, <3>4
    <3>5. CASE ~Has(k, o)
      <4>1. k = l
        BY <1>1, <3>5
      <4> QED
        BY <1>3, <3>5, <4>1
    <3> QED
      BY <3>4, <3>5
  <2>2. CASE s # o.slot
    <3>1. k[s] = l[s]
      BY <1>1, <1>2, <2>2 DEF Without
    <3> QED
      BY <1>3, <2>2, <3>1
  <2> QED
    BY <2>1, <2>2
<1> QED
  BY <1>1, <1>4 DEF Ousted, Flags

\* A clean take-over takes what was handed over.
LEMMA HalfwayBegins ==
  ASSUME Typed, HostStages, Known, Following, OneHandover, NEW F, Listing(F), AllHand(F),
         NEW q \in Players, NEW m \in net, TakeOver(q, m), st[q] = "in", q \notin skewed'
  PROVE  Halfway(F, q, m)'
<1> USE StateTypes
<1>1. /\ m \in Handovers /\ m.to = q /\ ~host[q] /\ m.id = me[q] /\ list'[q] = Ousted(q, m)
      /\ UNCHANGED <<me, pend, log>>
      /\ Clean(q) /\ Unhandled(q, m) = {} /\ m.from = from[q] /\ q \notin dropped /\ Clean(m.from)
  BY TakeOverStep DEF TakeOver, Clean
<1>2. m.from \in Players /\ m.count \in Int
  BY <1>1 DEF Handovers, Typed, SentOK, Datagram, Migrates
<1>3. PICK g, l : g = m.from /\ l = F[g]
  OBVIOUS
<1>4. l \in [Slots -> Line] /\ me[q] \in Id /\ q # g
  <2>1. me[q] \in GivenIds
    BY DEF Known, KnownPlayer
  <2> QED
    BY <1>1, <1>2, <1>3, <2>1, GivenTypes DEF Listing, OneHandover
<1>5. Hands(F, m) /\ Handing(F, m, q)
  BY <1>1, <1>3, <1>4 DEF AllHand
<1>6. m.id \in Ids(l) /\ l[m.id.slot].who = q /\ l[m.old.slot] = Free /\ m.old \in Id
  BY <1>1, <1>3, <1>5 DEF Hands
<1>7. Has(l, me[q])
  BY <1>1, <1>4, <1>6, HasId
<1>8. Mem(l, q)
  <2>1. PICK a \in Admissions(l) : IdOf(a) = me[q]
    BY <1>1, <1>6 DEF Ids
  <2>2. PICK s \in Joined(l) : a = Admission(l, s)
    BY DEF Admissions
  <2>3. me[q].slot = s
    BY <2>1, <2>2 DEF IdOf, Admission
  <2>4. a.who = q
    BY <1>1, <1>6, <2>2, <2>3 DEF Admission
  <2> QED
    BY <2>1, <2>4 DEF Mem
<1>9. PICK v, k : v = Seen(list[q], count[q]) /\ k = next[q]
  OBVIOUS
<1>10. Leads(v, log[g][q], k, Seen(l, m.count))
  <2>1. Served(g, q, l, v, k)
    BY <1>1, <1>3, <1>8, <1>9 DEF Served, Clean
  <2>2. Expects(F, g, q, l, v, k)
    BY <2>1 DEF Expects
  <2> QED
    BY <1>3, <1>5, <2>2 DEF Handing, Will
<1>11. l = list[q] \/ (Has(list[q], m.old) /\ l = Without(list[q], m.old))
  <2>1. v \in View /\ Seen(l, m.count) \in View /\ log[g][q] \in Seq(Message)
    BY <1>2, <1>3, <1>4, <1>9, LogType DEF View, Seen
  <2>2. \A i \in k+1..Len(log[g][q]) : \/ log[g][q][i].ty = "Migrate"
                                       \/ log[g][q][i].ty = "Leave" /\ log[g][q][i].id = m.old
    BY <1>1, <1>3, <1>9 DEF Unhandled
  <2>3. PICK K, w, o : K = log[g][q] /\ w = Seen(l, m.count) /\ o = m.old
    OBVIOUS
  <2>4. /\ K \in Seq(Message) /\ w \in View /\ o \in Id /\ Leads(v, K, k, w)
        /\ \A i \in k+1..Len(K) : K[i].ty = "Migrate" \/ (K[i].ty = "Leave" /\ K[i].id = o)
    BY <1>6, <1>10, <2>1, <2>2, <2>3
  <2>5. w.l = v.l \/ (Has(v.l, o) /\ w.l = Without(v.l, o))
    BY <2>1, <2>4, OnlyLeaves
  <2>6. w.l = l /\ v.l = list[q]
    BY <1>9, <2>3 DEF Seen
  <2> QED
    BY <2>3, <2>5, <2>6
<1>12. list'[q] = Flags(l, me[q])
  BY <1>1, <1>4, <1>6, <1>7, <1>11, OustedFlags
<1>13. (\A t \in Threads : pend[q][t] = None) /\ \A p \in Players : Quiet(q, p)
  BY <1>1 DEF Following, HostsTell
<1>14. Hands(F, m)'
  BY <1>5 DEF Hands
<1> QED
  BY <1>1, <1>3, <1>12, <1>13, <1>14 DEF Halfway, Quiet

\* Between the halves of a take-over the list is what was handed over.
LEMMA HalfwayStep ==
  ASSUME Typed, HostStages, ClosedStages, Known, Following, Origins,
         NEW F, Lineage(F), NEW G, SameWills(F, G), NEW a \in Players, Step(a) \/ UNCHANGED vars,
         NEW q \in Players, NEW m \in half'[q], st'[q] = "in", Clean(q)'
  PROVE  Halfway(G, q, m)'
<1>1. Clean(q) /\ q \notin skewed'
  BY Grows DEF Clean
<1>2. OneHandover /\ TookFrom /\ Listing(F) /\ AllHand(F)
  BY DEF Origins, Lineage
<1>3. SUFFICES m \in Handovers /\ Halfway(F, q, m)'
  BY <1>3 DEF Halfway, Hands, SameWills
<1>4. CASE half[q] # {}
  <2>1. m \in half[q]
    <3>1. ASSUME NEW k \in net, TakeOver(q, k) PROVE FALSE
      BY <1>4, <3>1, TakeOverStep DEF HostStages
    <3> QED
      BY <3>1, HalfWrites
  <2>2. host[q] /\ st[q] = "in"
    BY <1>4, StageSteps DEF HostStages, Goes
  <2>3. Halfway(F, q, m)
    BY <1>1, <2>1, <2>2 DEF Lineage, AllHalfway
  <2>4. list'[q] = list[q] /\ pend'[q] = pend[q] /\ log'[q] = log[q]
    BY <1>1, <1>4, <2>3, HalfwayKept DEF Halfway
  <2>5. me'[q] = me[q]
    BY <2>2, MeKept
  <2> QED
    BY <1>2, <2>1, <2>3, <2>4, <2>5 DEF TookFrom, Halfway, Quiet, Hands
<1>5. CASE half[q] = {}
  <2>1. PICK k \in net : TakeOver(q, k)
    BY <1>5, HalfWrites
  <2>2. m = k /\ k \in Handovers /\ st' = st
    <3>1. half' = [half EXCEPT ![q] = {k}]
      BY <2>1, TakeOverStep
    <3>2. half'[q] = {k}
      BY <3>1, ControlTypes
    <3> QED
      BY <2>1, <3>2, TakeOverStep
  <2>3. Halfway(F, q, k)'
    BY <1>1, <1>2, <2>1, <2>2, HalfwayBegins
  <2> QED
    BY <2>2, <2>3
<1> QED
  BY <1>4, <1>5

-----------------------------------------------------------------------------
(* What is handed over *)

\* G has the list that a hands over, its own line excepted.
Leaving(G, a) == HandOver(a) /\ Clean(a) => G[a] = Without(list[a], me[a])

\* A host that hands over leads, and counts itself out.
LEMMA HandOverLive ==
  ASSUME Typed, HostStages, ClosedStages, NEW F, Lineage(F), NEW a \in Players, HandOver(a), Clean(a)
  PROVE  /\ st[a] = "counting" /\ Live(a) /\ Counts(a) /\ OwnLine(a) /\ FreeLines(list[a])
         /\ count[a] = Cardinality(Joined(list[a]))
         /\ Less(list[a], me[a].slot, Without(list[a], me[a]))
         /\ Admissions(Without(list[a], me[a])) \subseteq Admissions(list[a])
<1>1. st[a] = "counting" /\ Live(a)
  BY HandOverStep DEF ClosedStages, Live
<1>2. Counts(a)
  BY <1>1 DEF Lineage, AllCount
<1>3. OwnLine(a) /\ FreeLines(list[a]) /\ count[a] = Cardinality(Joined(list[a]))
  BY <1>2 DEF Counts
<1>4. PICK l, s : l = list[a] /\ s = me[a].slot
  OBVIOUS
<1>5. l \in [Slots -> Line] /\ s \in Joined(l) /\ s \in Slots
  BY <1>3, <1>4, StateTypes DEF OwnLine, Joined
<1>6. Less(l, s, [l EXCEPT ![s] = Free])
  BY <1>5, OneLess
<1>7. Admissions([l EXCEPT ![s] = Free]) \subseteq Admissions(l)
  BY <1>5, FreeLine
<1>8. Without(list[a], me[a]) = [l EXCEPT ![s] = Free]
  BY <1>4 DEF Without
<1> QED
  BY <1>1, <1>2, <1>3, <1>4, <1>6, <1>7, <1>8

\* After a step there is a list for everyone that has handed over: the old ones, and a new one.
LEMMA NextWills ==
  ASSUME Typed, HostStages, ClosedStages, Known, OneHandover, NEW F, Lineage(F), NEW a \in Players,
         Step(a) \/ UNCHANGED vars
  PROVE  \E G : GoesOn(F, G, a) /\ Leaving(G, a) /\ Listing(G)'
<1>1. Listing(F) /\ Listing(F)'
  BY GivenKept DEF Lineage, Listing
<1>2. CASE HandOver(a) /\ Clean(a)
  <2>1. PICK k : k = Without(list[a], me[a])
    OBVIOUS
  <2>2. PICK G : G = [F EXCEPT ![a] = k]
    OBVIOUS
  <2>3. st[a] = "counting" /\ host[a]
    BY <1>2, HandOverLive DEF Live
  <2>4. G[a] = k /\ \A g \in Players \ {a} : G[g] = F[g]
    BY <1>1, <2>2 DEF Listing
  <2>5. SameWills(F, G)
    <3>1. \A m \in Handovers : m.from \in Players \ {a}
      BY <2>3 DEF OneHandover, Handovers, Typed, SentOK, Datagram, Migrates
    <3> QED
      BY <2>4, <3>1 DEF SameWills
  <2>6. ~ClientStep(a)
    BY <2>3 DEF ClientStep, Handle, HearNewHost, Hears, Connect, Reading
  <2>7. Listing(G)'
    <3>1. k \in [Slots -> Line] /\ FreeLines(k) /\ Admissions(k) \subseteq Admissions(list[a])
      BY <1>2, <2>1, HandOverLive DEF Less
    <3>2. Admissions(k) \subseteq given'
      BY <3>1, GivenKept DEF Known, KnownList
    <3>3. G \in [Players -> [Slots -> Line]]
      BY <1>1, <2>2, <3>1 DEF Listing
    <3>4. ASSUME NEW h \in Players PROVE Admissions(G[h]) \subseteq given' /\ FreeLines(G[h])
      BY <1>1, <2>4, <3>1, <3>2 DEF Listing
    <3> QED
      BY <3>3, <3>4 DEF Listing
  <2> QED
    BY <2>1, <2>4, <2>5, <2>6, <2>7 DEF GoesOn, Leaving
<1>3. CASE ~(HandOver(a) /\ Clean(a))
  BY <1>1, <1>3 DEF GoesOn, Leaving, SameWills
<1> QED
  BY <1>2, <1>3

\* What was handed over stays, and so does who expects it.
LEMMA HandingKept ==
  ASSUME Typed, Kept, HostStages, ClosedStages, Known, Following, Origins,
         NEW F, Lineage(F), NEW G, NEW a \in Players, Step(a) \/ UNCHANGED vars, GoesOn(F, G, a),
         NEW m \in Handovers, Clean(m.from)', Clean(m.to)'
  PROVE  Hands(G, m)' /\ \A p \in Players \ {m.from} : Handing(G, m, p)'
<1>1. m.from \in Players /\ st[m.from] \in {"handing", "over"} /\ G[m.from] = F[m.from]
  BY DEF Origins, OneHandover, GoesOn, SameWills, Handovers, Typed, SentOK, Datagram, Migrates
<1>2. Clean(m.from) /\ Clean(m.to) /\ skewed \subseteq skewed' /\ dropped \subseteq dropped'
  BY Grows DEF Clean
<1>3. Hands(F, m) /\ \A p \in Players \ {m.from} : Handing(F, m, p)
  BY <1>2 DEF Lineage, AllHand
<1>4. Hands(G, m)' /\ Will(G, m) = Will(F, m)
  BY <1>1, <1>3 DEF Hands, Will
<1>5. half[m.from] = {}
  BY <1>1 DEF ClosedStages, HostStages
<1>6. log'[m.from] = log[m.from]
  <2>1. ASSUME m.from = a, HandOver(a) PROVE FALSE
    BY <1>1, <2>1, HandOverStep
  <2>2. ASSUME m.from = a, Proclaim(a) PROVE FALSE
    BY <1>5, <2>2, ProclaimStep
  <2>3. ASSUME m.from = a, NEW t \in Threads, Schedule(a, t) PROVE FALSE
    <3>1. m.to \in HandedTo(a)
      BY <2>3 DEF HandedTo, Handovers
    <3>2. m.to \in skewed'
      BY <2>3, <3>1 DEF Schedule
    <3> QED
      BY <3>2 DEF Clean
  <2> QED
    BY <1>1, <2>1, <2>2, <2>3, LogWrites
<1>7. took'[m.from] = took[m.from]
  <2>1. ASSUME NEW k \in net, TakeOver(a, k), took' = [took EXCEPT ![a] = k.from]
        PROVE  took'[m.from] = took[m.from]
    <3>1. m.from # a
      BY <1>1, <2>1, TakeOverStep
    <3> QED
      BY <1>1, <2>1, <3>1 DEF Origins, TookFrom
  <2> QED
    BY <2>1, Grows
<1>8. SUFFICES ASSUME NEW p \in Players \ {m.from}, NEW v, NEW k,
                      Expects(G, m.from, p, G[m.from], v, k)'
               PROVE  Leads(v, log'[m.from][p], k, Will(G, m))
  BY <1>4 DEF Handing, Will
<1>9. PICK h, L : h = m.from /\ L = F[h]
  OBVIOUS
<1>10. Expects(G, h, p, L, v, k)' /\ Handing(F, m, p) /\ Admissions(L) \subseteq given
  BY <1>1, <1>3, <1>8, <1>9 DEF Lineage, Listing
<1>11. \A u, n : Expects(F, h, p, L, u, n) => Leads(u, log[h][p], n, Will(F, m))
  BY <1>9, <1>10 DEF Handing
<1>12. CASE ClientKept(p)
  <2>1. Expects(F, h, p, L, v, k)
    <3>1. TookFrom /\ IdleOut /\ SameWills(F, G) /\ h \in Players /\ took'[h] = took[h]
      BY <1>1, <1>7, <1>9 DEF Origins, Following, GoesOn
    <3> QED
      BY <1>2, <1>10, <1>12, <3>1, ExpectsKept
  <2> QED
    BY <1>4, <1>6, <1>9, <1>11, <2>1
<1>13. CASE p = a /\ ClientStep(a)
  <2>1. G = F
    BY <1>13 DEF GoesOn
  <2>2. Inherits(F, h, L)
    <3>1. Standing(F, h, L)
      BY <1>2, <1>9 DEF Standing
    <3> QED
      BY <1>1, <1>9, <3>1 DEF Lineage, AllInherit
  <2>3. Backs(F, h, p, L, v, k)
    <3>1. h \in Players /\ Clean(h) /\ AllHand(F) /\ Expects(F, h, p, L, v, k)'
      BY <1>1, <1>2, <1>9, <1>10, <2>1 DEF Lineage
    <3> QED
      BY <1>13, <2>2, <3>1, ClientBacks
  <2>4. Leads(v, log[h][p], k, Will(F, m))
    BY <1>11, <2>3 DEF Backs
  <2> QED
    BY <1>4, <1>6, <1>9, <2>4
<1> QED
  BY <1>12, <1>13, ClientKeptSteps DEF ClientStep

\* A host that hands over has told what it hands over.
LEMMA HandingBegins ==
  ASSUME Typed, Kept, HostStages, ClosedStages, Known, Following, Origins,
         NEW F, Lineage(F), NEW G, NEW h \in Players, HandOver(h), SameWills(F, G), Leaving(G, h),
         NEW s, NEW m, HandsTo(h, s, m), Clean(h)', Clean(m.to)'
  PROVE  Hands(G, m)' /\ \A p \in Players \ {h} : Handing(G, m, p)'
<1> USE StateTypes
<1>1. Clean(h) /\ skewed \subseteq skewed' /\ dropped \subseteq dropped' /\ took' = took
  BY DEF Clean, HandOver, history
<1>2. count[h] = tmp[h] /\ Untold(h) = {}
  <2>1. ~(count[h] # tmp[h] \/ \E t \in Threads : pend[h][t] # None)
    BY DEF HandsTo, Clean
  <2> QED
    BY <2>1 DEF Untold
<1>3. PICK L, K, i, c : L = list[h] /\ i = me[h] /\ K = Without(L, i) /\ c = count[h]
  OBVIOUS
<1>4. /\ Live(h) /\ OwnLine(h) /\ Less(L, i.slot, K) /\ Admissions(K) \subseteq Admissions(L)
      /\ c = Cardinality(Joined(L)) /\ G[h] = K /\ L \in [Slots -> Line]
  BY <1>1, <1>3, HandOverLive DEF Leaving
<1>5. i \in Id /\ Has(L, i) /\ i.slot \in Joined(L) /\ c \in Int
  <2>1. me[h] \in GivenIds
    BY <1>4 DEF Known, KnownPlayer, Live
  <2> QED
    BY <1>3, <1>4, <2>1, GivenTypes DEF OwnLine
<1>6. /\ m.from = h /\ m.old = i /\ m.count = c - 1 /\ m.id = IdAt(L, s) /\ m.to = L[s].who
      /\ s \in Joined(L) /\ ~L[s].host
  BY <1>2, <1>3 DEF HandsTo, Heirs
<1>7. Will(G, m) = Seen(K, c - 1)
  BY <1>4, <1>6 DEF Will
<1>8. Hands(G, m)
  <2>1. s # i.slot
    BY <1>3, <1>4, <1>6 DEF OwnLine
  <2>2. s \in Joined(K) /\ K[s] = L[s] /\ m.id = IdAt(K, s) /\ m.id.slot = s
    BY <1>4, <1>6, <2>1 DEF Less, IdAt, Joined
  <2>3. m.id \in Ids(K)
    BY <2>2, IdAtSlot
  <2>4. m.count = Cardinality(Joined(K))
    BY <1>4, <1>6 DEF Less
  <2> QED
    BY <1>4, <1>5, <1>6, <2>2, <2>3, <2>4 DEF Hands, Less
<1>9. ASSUME NEW p \in Players \ {h}, NEW v, NEW k, Expects(G, h, p, G[h], v, k)'
      PROVE  Leads(v, log'[h][p], k, Will(G, m))
  <2>1. Expects(G, h, p, K, v, k)' /\ Admissions(K) \subseteq given
    BY <1>3, <1>4, <1>9 DEF Known, KnownList
  <2>2. ClientKept(p)
    BY ClientKeptHost
  <2>3. TookFrom /\ IdleOut /\ took'[h] = took[h]
    BY <1>1 DEF Origins, Following
  <2>4. Expects(F, h, p, K, v, k)
    BY <1>1, <2>1, <2>2, <2>3, ExpectsKept
  <2>5. Expects(F, h, p, L, v, k)
    BY <1>4, <2>4, ExpectsMore
  <2>6. Along(h, p, v, k)
    BY <1>1, <1>3, <1>4, <2>5 DEF Lineage, AllFollow, Leading
  <2>7. PICK w : Leads(v, log[h][p], k, w) /\ Tells(L, c, {}, w)
    BY <1>2, <1>3, <2>6 DEF Along
  <2>8. w = Seen(L, c)
    BY <1>4, <1>5, <2>7, TellsSame
  <2>9. PICK x, e : x = Farewell(h) /\ e = [ty |-> "Migrate"]
    OBVIOUS
  <2>10. x \in Message /\ e \in Message /\ x.ty = "Leave" /\ x.id = i /\ x.count = c - 1
    BY <1>2, <1>3, <1>5, <2>9 DEF Farewell, Message, AnyId
  <2>11. PICK N, M : N = log[h][p] /\ M = Append(N, x)
    OBVIOUS
  <2>12. N \in Seq(Message)
    BY <2>11, LogType
  <2>13. Leads(v, M, k, Seen(K, c - 1)) /\ M \in Seq(Message)
    <3>1. Leads(v, M, k, Apply(w, x))
      BY <2>7, <2>10, <2>11, <2>12, LeadsOn
    <3>2. Apply(w, x) = Seen(K, c - 1)
      BY <1>3, <1>5, <2>8, <2>10 DEF Apply, Seen
    <3>3. M \in Seq(Message)
      BY <2>10, <2>11, <2>12, AppendProperties
    <3> QED
      BY <3>1, <3>2, <3>3
  <2>14. log'[h][p] = M \/ log'[h][p] = Append(M, e)
    <3>1. SentTo(h, L, p)
      <4>1. In(list[h], p)
        BY <1>3, <2>5, ExpectsIn
      <4> QED
        BY <1>3, <1>4, <4>1, ScheduledFor
    <3>2. Scheduled(h, L, x)[p] = M
      BY <2>11, <3>1 DEF SentTo
    <3>3. log' = [log EXCEPT ![h] = [Scheduled(h, L, x) EXCEPT ![m.to] = Append(@, e)]]
      BY <1>3, <2>9 DEF HandsTo
    <3>4. PICK S : S = Scheduled(h, L, x)
      OBVIOUS
    <3>5. log'[h] = [S EXCEPT ![m.to] = Append(@, e)] /\ DOMAIN S = Players /\ S[p] = M
      BY <3>2, <3>3, <3>4 DEF Scheduled
    <3> QED
      BY <3>5
  <2>15. Leads(v, Append(M, e), k, Seen(K, c - 1))
    <3>1. Leads(v, Append(M, e), k, Apply(Seen(K, c - 1), e))
      BY <2>10, <2>13, LeadsOn
    <3>2. Apply(Seen(K, c - 1), e) = Seen(K, c - 1)
      BY <2>9 DEF Apply
    <3> QED
      BY <3>1, <3>2
  <2> QED
    BY <1>7, <2>13, <2>14, <2>15
<1> QED
  BY <1>6, <1>8, <1>9 DEF Handing, Hands, Will

\* Whatever was handed over, now or before, is what its receiver expects.
LEMMA AllHandStep ==
  ASSUME Typed, Kept, HostStages, ClosedStages, Known, Following, Origins,
         NEW F, Lineage(F), NEW G, NEW a \in Players, Step(a) \/ UNCHANGED vars, GoesOn(F, G, a),
         Leaving(G, a)
  PROVE  AllHand(G)'
<1>1. SUFFICES ASSUME NEW m \in Handovers', Clean(m.from)', Clean(m.to)'
               PROVE  Hands(G, m)' /\ \A p \in Players \ {m.from} : Handing(G, m, p)'
  BY DEF AllHand
<1>2. CASE m \in Handovers
  BY <1>1, <1>2, HandingKept
<1>3. CASE m \notin Handovers
  <2>1. HandOver(a)
    BY <1>3, Grows
  <2>2. PICK s, k : HandsTo(a, s, k)
    BY <1>3, <2>1, HandOverWrites
  <2>3. m = k /\ k.from = a
    BY <1>3, <2>2 DEF HandsTo
  <2>4. SameWills(F, G) /\ Clean(a)' /\ Clean(k.to)'
    BY <1>1, <2>3 DEF GoesOn
  <2>5. Hands(G, k)' /\ \A p \in Players \ {a} : Handing(G, k, p)'
    BY <2>1, <2>2, <2>4, HandingBegins
  <2> QED
    BY <2>3, <2>5
<1> QED
  BY <1>2, <1>3

\* A host that stays with what it took over inherits it still.
LEMMA InheritStep ==
  ASSUME Typed, Kept, HostStages, ClosedStages, Known, Following, TookFrom,
         NEW F, NEW G, SameWills(F, G), NEW a \in Players, Step(a) \/ UNCHANGED vars,
         NEW h \in Players, NEW L, NEW K, Admissions(L) \subseteq Admissions(K),
         half[h] = {}, took'[h] = took[h], Inherits(F, h, K)
  PROVE  Inherits(G, h, L)'
<1>1. SUFFICES ASSUME took[h] \in Players, NEW p \in Players, asked'[p] # h
               PROVE  /\ \A i \in DOMAIN log'[h][p] : log'[h][p][i].ty = "NewHost" => i = 1
                      /\ \A b \in Admissions(L) : b.who = p => b \in Admissions(G[took[h]])
  BY DEF Inherits
<1>2. asked[p] # h
  <2>1. ASSUME NEW g \in Players, AskToJoin(a, g) PROVE asked[p] = asked'[p] \/ asked[p] = NoPlayer
    BY <2>1, AskerOut DEF Following
  <2> QED
    BY <1>1, <2>1, AskedKept, PlayersAssumption
<1>3. /\ \A i \in DOMAIN log[h][p] : log[h][p][i].ty = "NewHost" => i = 1
      /\ \A b \in Admissions(K) : b.who = p => b \in Admissions(F[took[h]])
  BY <1>1, <1>2 DEF Inherits
<1>4. G[took[h]] = F[took[h]]
  BY <1>1 DEF TookFrom, SameWills
<1>5. Sends(h, p)
  BY LogStep
<1>6. \A i \in DOMAIN log'[h][p] \ DOMAIN log[h][p] : log'[h][p][i].ty # "NewHost"
  BY <1>5 DEF Sends, Sendable
<1> QED
  BY <1>3, <1>4, <1>5, <1>6 DEF Sends, Lengthens

\* A host that has taken over what was handed to it inherits it.
LEMMA InheritBegins ==
  ASSUME Typed, HostStages, ClosedStages, Known, Following, TookFrom, NEW F, Listing(F),
         NEW G, SameWills(F, G), NEW h \in Players, Proclaim(h), st[h] = "in",
         \A m \in half[h] : Halfway(F, h, m)
  PROVE  Inherits(G, h, list[h])'
<1> USE StateTypes
<1>1. PICK m \in half[h] :
        LET e == [ty |-> "NewHost", id |-> me[h], who |-> h, count |-> m.count]
        IN /\ log' = [log EXCEPT ![h] = Scheduled(h, list[h], e)]
           /\ UNCHANGED <<list, asked, took>>
  BY DEF Proclaim, selfVars, history
<1>2. PICK e \in Message : log' = [log EXCEPT ![h] = Scheduled(h, list[h], e)]
  <2>1. me[h] \in Id /\ m.count \in Int
    BY <1>1, HalfwayLine
  <2>2. [ty |-> "NewHost", id |-> me[h], who |-> h, count |-> m.count] \in Message
    BY <2>1 DEF Message, AnyId
  <2> QED
    BY <1>1, <2>2
<1>3. PICK l, L : l = F[m.from] /\ L = list[h]
  OBVIOUS
<1>4. /\ l \in [Slots -> Line] /\ me[h] \in Id /\ took[h] = m.from /\ m \in Handovers
      /\ L = Flags(l, me[h]) /\ \A p \in Players : Quiet(h, p)
  BY <1>1, <1>3, HalfwayLine DEF Halfway
<1>5. Admissions(L) = Admissions(l)
  BY <1>4, SameFlags
<1>6. G[took[h]] = l
  BY <1>3, <1>4 DEF SameWills
<1>7. ASSUME NEW p \in Players, NEW i \in DOMAIN log'[h][p] PROVE i = 1
  <2>1. PICK K \in Seq(Message) : K = log[h][p]
    OBVIOUS
  <2>2. log'[h][p] = K \/ log'[h][p] = Append(K, e)
    BY <1>2, <2>1 DEF Scheduled
  <2>3. DOMAIN K = {}
    BY <1>4, <2>1 DEF Quiet
  <2>4. PICK n \in Nat : n = Len(K) /\ DOMAIN K = 1..n
    BY <2>1, LenProperties
  <2>5. n = 0
    <3>1. n # 0 => 1 \in 1..n
      OBVIOUS
    <3> QED
      BY <2>3, <2>4, <3>1
  <2>6. DOMAIN Append(K, e) = {1}
    <3>1. PICK M : M = Append(K, e)
      OBVIOUS
    <3>2. M \in Seq(Message) /\ Len(M) = Len(K) + 1
      BY <1>2, <2>1, <3>1, AppendProperties
    <3>3. DOMAIN M = 1..1
      BY <2>4, <2>5, <3>2, LenProperties
    <3> QED
      BY <3>1, <3>3
  <2> QED
    BY <1>7, <2>2, <2>3, <2>6
<1> QED
  BY <1>1, <1>3, <1>5, <1>6, <1>7 DEF Inherits

\* Who was not admitted by a host is known from the last one, after every step but an admission.
LEMMA AllInheritStep ==
  ASSUME Typed, Kept, HostStages, ClosedStages, Known, Following, Origins,
         NEW F, Lineage(F), NEW G, NEW a \in Players, Step(a) \/ UNCHANGED vars, GoesOn(F, G, a),
         Leaving(G, a)
  PROVE  AllInherit(G)'
<1> USE ControlTypes
<1>1. SUFFICES ASSUME NEW h \in Players, NEW L, Standing(G, h, L)' PROVE Inherits(G, h, L)'
  BY DEF AllInherit
<1>2. /\ Clean(h) /\ SameWills(F, G) /\ TookFrom /\ OneHandover /\ Listing(F) /\ AllInherit(F)
      /\ AllHalfway(F)
  BY <1>1, Grows DEF Standing, Clean, GoesOn, Origins, Lineage
<1>3. ASSUME half[h] = {}, host[h] \/ st[h] = "over" PROVE took'[h] = took[h]
  <2>1. ASSUME NEW m \in net, TakeOver(a, m), took' = [took EXCEPT ![a] = m.from]
        PROVE  took'[h] = took[h]
    <3>1. h # a
      BY <1>3, <2>1, TakeOverStep DEF TakeOver
    <3> QED
      BY <1>2, <2>1, <3>1 DEF TookFrom
  <2> QED
    BY <2>1, Grows
<1>4. CASE Live(h)' /\ L = list'[h]
  <2>1. CASE Live(h)
    <3>1. Standing(F, h, list[h])
      BY <1>2, <2>1 DEF Standing
    <3>2. Inherits(F, h, list[h])
      BY <1>2, <3>1 DEF AllInherit
    <3>3. Admissions(L) \subseteq Admissions(list[h])
      BY <1>4, <2>1, HostListStep DEF Live
    <3>4. half[h] = {} /\ took'[h] = took[h]
      BY <1>3, <2>1 DEF Live
    <3> QED
      BY <1>2, <3>2, <3>3, <3>4, InheritStep
  <2>2. CASE Proclaim(h)
    <3>1. half[h] # {} /\ st' = st /\ list' = list
      BY <2>2, ProclaimStep DEF Proclaim
    <3>2. st[h] = "in"
      BY <1>4, <3>1 DEF Live, ClosedStages
    <3>3. \A m \in half[h] : Halfway(F, h, m)
      BY <1>2, <3>2 DEF AllHalfway
    <3>4. Inherits(G, h, list[h])'
      BY <1>2, <2>2, <3>2, <3>3, InheritBegins
    <3> QED
      BY <1>4, <3>4 DEF Inherits
  <2>3. CASE Destroy(h, a) \/ (\E s \in Slots : Kick(h, s)) \/ \E t \in Threads : Schedule(h, t)
    BY <1>4, <2>1, <2>3, HandsOn
  <2>4. HostKept(h) => Live(h)
    BY <1>4 DEF HostKept
  <2> QED
    BY <2>1, <2>2, <2>3, <2>4, HostKeptSteps
<1>5. ASSUME NEW m \in Handovers', m.from = h, L = G[h] PROVE Inherits(G, h, L)'
  <2>1. CASE m \in Handovers
    <3>1. st[h] \in {"handing", "over"} /\ G[h] = F[h]
      BY <1>2, <1>5, <2>1 DEF OneHandover, SameWills
    <3>2. half[h] = {} /\ (host[h] \/ st[h] = "over")
      BY <3>1 DEF ClosedStages, HostStages
    <3>3. Standing(F, h, F[h])
      BY <1>2, <1>5, <2>1 DEF Standing
    <3>4. Inherits(F, h, L)
      BY <1>2, <1>5, <3>1, <3>3 DEF AllInherit
    <3>5. took'[h] = took[h]
      BY <1>3, <3>2
    <3> QED
      BY <1>2, <3>2, <3>4, <3>5, InheritStep
  <2>2. CASE m \notin Handovers
    <3>1. HandOver(a)
      BY <1>5, <2>2, Grows
    <3>2. h = a
      <4>1. PICK s, k : HandsTo(a, s, k)
        BY <1>5, <2>2, <3>1, HandOverWrites
      <4> QED
        BY <1>5, <2>2, <4>1 DEF HandsTo
    <3>3. L = Without(list[h], me[h])
      BY <1>2, <1>5, <3>1, <3>2 DEF Leaving
    <3>4. Live(h) /\ Admissions(L) \subseteq Admissions(list[h])
      BY <1>2, <3>1, <3>2, <3>3, HandOverLive
    <3>5. Standing(F, h, list[h])
      BY <1>2, <3>4 DEF Standing
    <3>6. Inherits(F, h, list[h])
      BY <1>2, <3>5 DEF AllInherit
    <3>7. half[h] = {} /\ took'[h] = took[h]
      BY <1>3, <3>4 DEF Live
    <3> QED
      BY <1>2, <3>4, <3>6, <3>7, InheritStep
  <2> QED
    BY <2>1, <2>2
<1> QED
  BY <1>1, <1>4, <1>5 DEF Standing

\* The lists go on from host to host in every step but an admission.
LEMMA LineageStep ==
  ASSUME Typed, Kept, HostStages, ClosedStages, Known, Following, PendGone, Origins,
         NEW F, Lineage(F), NEW a \in Players, Step(a) \/ UNCHANGED vars
  PROVE  \E G : Lineage(G)'
<1>1. PICK G : GoesOn(F, G, a) /\ Leaving(G, a) /\ Listing(G)'
  BY NextWills DEF Origins
<1>2. SameWills(F, G)
  BY <1>1 DEF GoesOn
<1>3. AllCount'
  BY CountsStep DEF AllCount
<1>4. AllHalfway(G)'
  BY <1>2, HalfwayStep DEF AllHalfway
<1>5. AllHand(G)' /\ AllInherit(G)'
  BY <1>1, AllHandStep, AllInheritStep
<1>6. AllFollow(G)'
  BY <1>1, LeadingStep DEF AllFollow
<1> QED
  BY <1>1, <1>3, <1>4, <1>5, <1>6 DEF Lineage

-----------------------------------------------------------------------------
(* An admission leaves the lineage as it is *)

\* What host h leaves as it was when it admits player p, and what the two are to each other.
Spares(h, p) ==
  /\ UNCHANGED <<st, me, host, half, closed, pend, asked, from, next, took, skewed, dropped,
                  Handovers>>
  /\ \A g \in Players \ {h} : list'[g] = list[g] /\ count'[g] = count[g] /\ log'[g] = log[g]
  /\ host[h] /\ half[h] = {} /\ asked[p] = h /\ st[h] \in {"in", "going", "asking", "leaving"}

\* An admission writes of its host only.
LEMMA AdmitSpares ==
  ASSUME Typed, HostStages, ClosedStages, NEW h \in Players, NEW p \in Players, Admit(h, p)
  PROVE  Spares(h, p)
<1> USE StateTypes
<1>1. PICK s, a, l, x : Seats(h, p, s, a, l, x)
  BY AdmitSeats
<1>2. UNCHANGED <<st, me, host, half, closed, pend, asked, from, next, took, skewed, dropped,
                  Handovers>>
  BY ZenonT(60), Admitting, AdmitStep DEF Admit
<1>3. ASSUME NEW g \in Players \ {h} PROVE list'[g] = list[g] /\ count'[g] = count[g] /\ log'[g] = log[g]
  BY <1>1 DEF Seats
<1>4. host[h] /\ half[h] = {} /\ asked[p] = h
  BY Admitting
<1>5. st[h] \in {"in", "going", "asking", "leaving"}
  <2>1. Connected(h) /\ ~closed[h]
    BY DEF Admit
  <2> QED
    BY <2>1, ControlTypes DEF Connected, Present, Alive, ClosedStages
<1> QED
  BY <1>2, <1>3, <1>4, <1>5 DEF Spares

\* An admission gives nobody anything to expect of a list that stays as it was.
LEMMA ExpectsAdmit ==
  ASSUME Typed, HostStages, ClosedStages, NEW h \in Players, NEW p \in Players, Admit(h, p), NEW F,
         NEW g \in Players, NEW q \in Players, NEW L, NEW v, NEW k, Expects(F, g, q, L, v, k)'
  PROVE  Expects(F, g, q, L, v, k)
<1>1. /\ UNCHANGED <<st, me, host, asked, from, next, took, skewed, dropped>> /\ host[h]
      /\ q # h => list'[q] = list[q] /\ count'[q] = count[q]
  BY AdmitSpares DEF Spares
<1>2. CASE Served(g, q, L, v, k)'
  <2>1. q # h
    BY <1>1, <1>2 DEF Served
  <2> QED
    BY <1>1, <1>2, <2>1 DEF Served, Mem, Expects
<1>3. CASE Joiner(g, q, L, v, k)'
  BY <1>1, <1>3 DEF Joiner, Expects
<1>4. CASE Heritage(F, g, q, L, v, k)'
  BY <1>1, <1>4 DEF Heritage, In, Expects
<1> QED
  BY <1>2, <1>3, <1>4 DEF Expects

\* A host that admits counts.
LEMMA CountsAdmit ==
  ASSUME Typed, HostStages, ClosedStages, KnowsLast, Known, NEW h \in Players, NEW p \in Players,
         Admit(h, p), Counts(h)
  PROVE  Counts(h)'
<1> USE StateTypes
<1>1. PICK s, a, l, x : Seats(h, p, s, a, l, x)
  BY AdmitSeats
<1>2. PICK k, i : k = list[h] /\ i = me[h].slot
  OBVIOUS
<1>3. /\ Joined(l) = Joined(k) \cup {s} /\ \A t \in Slots \ {s} : l[t] = k[t]
      /\ Cardinality(Joined(l)) = Cardinality(Joined(k)) + 1 /\ FreeLines(l)
  <2>1. Seated(list[h], p, s, a, l, x)
    BY <1>1, SeatsParts
  <2> QED
    BY <1>2, <2>1 DEF Seated, Counts
<1>4. i # s /\ i \in Slots /\ i \in Joined(k) /\ s \in Slots \ Joined(k)
  BY <1>1, <1>2 DEF Counts, OwnLine, Seats, Joined
<1>5. l[i] = k[i] /\ i \in Joined(l)
  BY <1>3, <1>4
<1>6. list'[h] = l /\ count'[h] = count[h] + 1 /\ me' = me
  BY <1>1, AdmitSpares DEF Seats, Spares
<1>7. OwnLine(h)'
  BY <1>2, <1>5, <1>6 DEF Counts, OwnLine, Has
<1> QED
  BY <1>2, <1>3, <1>6, <1>7 DEF Counts

\* An admission changes nothing of who was not admitted.
LEMMA InheritAdmit ==
  ASSUME Typed, HostStages, ClosedStages, KnowsLast, Known, OneHandover, NEW F, AllInherit(F),
         NEW h \in Players, NEW p \in Players, Admit(h, p)
  PROVE  AllInherit(F)'
<1> USE StateTypes
<1>1. /\ UNCHANGED <<st, host, half, closed, asked, took, skewed, Handovers>> /\ asked[p] = h
      /\ \A g \in Players \ {h} : list'[g] = list[g] /\ log'[g] = log[g]
      /\ st[h] \in {"in", "going", "asking", "leaving"}
  BY AdmitSpares DEF Spares
<1>2. SUFFICES ASSUME NEW g \in Players, NEW L, Standing(F, g, L)' PROVE Inherits(F, g, L)'
  BY DEF AllInherit
<1>3. CASE g # h \/ ~(Live(g) /\ L = list'[g])
  <2>1. g # h
    <3>1. CASE \E m \in Handovers : m.from = g
      BY <1>1, <3>1 DEF OneHandover
    <3> QED
      BY <1>1, <1>2, <1>3, <3>1 DEF Standing, Live
  <2>2. list'[g] = list[g] /\ log'[g] = log[g]
    BY <1>1, <2>1
  <2>3. Standing(F, g, L)
    BY <1>1, <1>2, <2>2 DEF Standing, Clean, Live
  <2>4. Inherits(F, g, L)
    BY <2>3 DEF AllInherit
  <2> QED
    BY <1>1, <2>2, <2>4 DEF Inherits
<1>4. CASE g = h /\ Live(g) /\ L = list'[g]
  <2>1. PICK s, a, l, x : Seats(h, p, s, a, l, x)
    BY AdmitSeats
  <2>2. a.who = p /\ Admissions(l) = Admissions(list[h]) \cup {a} /\ L = l
    <3>1. Seated(list[h], p, s, a, l, x)
      BY <2>1, SeatsParts
    <3>2. list'[h] = l
      BY <2>1 DEF Seats
    <3> QED
      BY <1>4, <3>1, <3>2 DEF Seated
  <2>3. Inherits(F, h, list[h])
    <3>1. Standing(F, h, list[h])
      BY <1>1, <1>2, <1>4 DEF Standing, Clean
    <3> QED
      BY <3>1 DEF AllInherit
  <2>4. \A q \in Players : asked[q] # h =>
          \A i \in DOMAIN log'[h][q] : log'[h][q][i].ty = "NewHost" =>
            i \in DOMAIN log[h][q] /\ log[h][q][i].ty = "NewHost"
    <3>1. PICK b : Admits(h, p, b)
      BY AdmitWrites
    <3>2. NewEntries(h, p, b)
      BY <3>1, AdmitShows
    <3>3. SUFFICES ASSUME NEW q \in Players \ {p}, NEW i \in DOMAIN log'[h][q],
                          log'[h][q][i].ty = "NewHost"
                   PROVE  i \in DOMAIN log[h][q] /\ log[h][q][i].ty = "NewHost"
      BY <1>1
    <3>4. Lengthens(log[h][q], log'[h][q])
          /\ (i \notin DOMAIN log[h][q] => log'[h][q][i].ty = "Create")
      BY <3>2, <3>3 DEF NewEntries
    <3> QED
      BY <3>3, <3>4 DEF Lengthens
  <2>5. SUFFICES ASSUME took[h] \in Players, NEW q \in Players, asked[q] # h
                 PROVE  /\ \A i \in DOMAIN log'[h][q] : log'[h][q][i].ty = "NewHost" => i = 1
                        /\ \A b \in Admissions(L) : b.who = q => b \in Admissions(F[took[h]])
    BY <1>1, <1>4 DEF Inherits
  <2>6. /\ \A i \in DOMAIN log[h][q] : log[h][q][i].ty = "NewHost" => i = 1
        /\ \A b \in Admissions(list[h]) : b.who = q => b \in Admissions(F[took[h]])
    BY <2>3, <2>5 DEF Inherits
  <2>7. \A i \in DOMAIN log'[h][q] : log'[h][q][i].ty = "NewHost" => i = 1
    BY <2>4, <2>5, <2>6
  <2>8. \A b \in Admissions(L) : b.who = q => b \in Admissions(list[h])
    BY <1>1, <2>2, <2>5
  <2> QED
    BY <2>6, <2>7, <2>8
<1> QED
  BY <1>3, <1>4

\* The lists go on from host to host in an admission.
LEMMA LineageAdmit ==
  ASSUME RoomForAll, Typed, HostStages, ClosedStages, KnowsLast, Kept, Known,
         Following, Origins, NEW F, Lineage(F), NEW h \in Players, NEW p \in Players, Admit(h, p)
  PROVE  Lineage(F)'
<1>1. /\ UNCHANGED <<st, me, host, half, closed, pend, asked, from, next, took, skewed, dropped,
                  Handovers>>
      /\ \A g \in Players \ {h} : list'[g] = list[g] /\ count'[g] = count[g] /\ log'[g] = log[g]
      /\ host[h] /\ half[h] = {} /\ asked[p] = h /\ st[h] \in {"in", "going", "asking", "leaving"}
  BY AdmitSpares DEF Spares
<1>2. /\ Listing(F) /\ AllCount /\ AllHalfway(F) /\ AllHand(F) /\ AllFollow(F) /\ AllInherit(F)
      /\ IdleOut /\ TookFrom /\ OneHandover
  BY DEF Lineage, Following, Origins
<1>3. Listing(F)'
  <2>1. given \subseteq given'
    BY AdmitSeats DEF Seats
  <2> QED
    BY <1>2, <2>1 DEF Listing
<1>4. \A g \in Players : Live(g)' /\ Clean(g)' => Live(g) /\ Clean(g)
  BY <1>1 DEF Live, Clean
<1>5. AllCount'
  <2>1. ASSUME NEW g \in Players, Counts(g) PROVE Counts(g)'
    <3>1. CASE g = h
      BY <2>1, <3>1, CountsAdmit
    <3>2. CASE g # h
      BY <1>1, <2>1, <3>2 DEF Counts, OwnLine
    <3> QED
      BY <3>1, <3>2
  <2> QED
    BY <1>2, <1>4, <2>1 DEF AllCount
<1>6. AllHalfway(F)'
  <2>1. ASSUME NEW q \in Players, NEW m \in half[q], Halfway(F, q, m) PROVE Halfway(F, q, m)'
    <3>1. q # h
      BY <1>1
    <3> QED
      BY <1>1, <2>1, <3>1 DEF Halfway, Hands, Quiet
  <2> QED
    BY <1>1, <1>2, <2>1 DEF AllHalfway, Clean
<1>7. AllHand(F)'
  <2>1. SUFFICES ASSUME NEW m \in Handovers, Clean(m.from), Clean(m.to)
                 PROVE  Hands(F, m)' /\ \A q \in Players \ {m.from} : Handing(F, m, q)'
    BY <1>1 DEF AllHand, Clean
  <2>2. Hands(F, m) /\ \A q \in Players \ {m.from} : Handing(F, m, q)
    BY <1>2, <2>1 DEF AllHand
  <2>3. m.from \in Players \ {h}
    BY <1>1, <1>2 DEF OneHandover, Handovers, Typed, SentOK, Datagram, Migrates
  <2>4. ASSUME NEW q \in Players \ {m.from} PROVE Handing(F, m, q)'
    <3>1. PICK g, L : g = m.from /\ L = F[g]
      OBVIOUS
    <3>2. SUFFICES ASSUME NEW v, NEW k, Expects(F, g, q, L, v, k)'
                   PROVE  Leads(v, log'[g][q], k, Will(F, m))
      BY <3>1 DEF Handing, Will
    <3>3. g \in Players \ {h} /\ Handing(F, m, q)
      BY <2>2, <2>3, <3>1
    <3>4. Expects(F, g, q, L, v, k)
      BY <3>2, <3>3, ExpectsAdmit
    <3> QED
      BY <1>1, <3>1, <3>3, <3>4 DEF Handing
  <2> QED
    BY <2>2, <2>4 DEF Hands
<1>8. AllFollow(F)'
  <2>1. SUFFICES ASSUME NEW g \in Players, Live(g), Clean(g), NEW q \in Players \ {g}
                 PROVE  Leading(F, g, q)'
    BY <1>4 DEF AllFollow
  <2>2. Leading(F, g, q) /\ Counts(g)
    BY <1>2, <2>1 DEF AllFollow, AllCount
  <2>3. CASE g = h
    BY <1>2, <2>1, <2>2, <2>3, LeadingAdmit
  <2>4. CASE g # h
    <3>1. list'[g] = list[g] /\ count'[g] = count[g] /\ log'[g] = log[g] /\ pend'[g] = pend[g]
      BY <1>1, <2>4
    <3>2. SUFFICES ASSUME NEW v, NEW k, Expects(F, g, q, list[g], v, k)' PROVE Along(g, q, v, k)'
      BY DEF Leading
    <3>3. PICK L : L = list[g]
      OBVIOUS
    <3>4. Expects(F, g, q, L, v, k)'
      BY <3>1, <3>2, <3>3 DEF Expects, Served, Joiner, Heritage, Mem, In
    <3>5. Expects(F, g, q, L, v, k)
      BY <3>4, ExpectsAdmit
    <3>6. Along(g, q, v, k)
      BY <2>2, <3>3, <3>5 DEF Leading
    <3> QED
      BY <3>1, <3>6, UntoldKept DEF Along
  <2> QED
    BY <2>3, <2>4
<1>9. AllInherit(F)'
  BY <1>2, InheritAdmit
<1> QED
  BY <1>3, <1>5, <1>6, <1>7, <1>8, <1>9 DEF Lineage

-----------------------------------------------------------------------------
(* The host counts its players, and its clients list them *)

\* What holds as long as every host began to leave after its own take-over, for CountAgrees
\* and ListsAgree.
ListInv == TellInv /\ (hasty = {} => Origins /\ \E F : Lineage(F))

\* The first host is alone and has nothing from anybody.
LEMMA LineageInit == Init => \E F : Lineage(F)
<1> SUFFICES ASSUME Init PROVE \E F : Lineage(F)
  OBVIOUS
<1>1. PICK F : F = [p \in Players |-> Empty]
  OBVIOUS
<1>2. PICK L : L = list[First]
  OBVIOUS
<1>3. /\ L = [Empty EXCEPT ![0] = Created] /\ count[First] = 1
      /\ me[First] = [slot |-> 0, n |-> 0] /\ First \in Players
      /\ \A h \in Players : (host[h] <=> h = First) /\ half[h] = {} /\ took[h] = NoPlayer
      /\ net = {}
  BY <1>2, PlayersAssumption DEF Init
<1>4. 0 \in Slots /\ L[0] = Created /\ \A s \in Slots \ {0} : L[s] = Free
  <2>1. 0 \in Slots
    BY NumbersAssumption DEF Slots
  <2> QED
    BY <1>3, <2>1 DEF Empty
<1>5. Joined(L) = {0}
  BY <1>4 DEF Joined, Created, Free
<1>6. Listing(F)
  <2>1. Empty \in [Slots -> Line] /\ Admissions(Empty) = {} /\ FreeLines(Empty)
    BY NumbersAssumption DEF Empty, Free, Line, Admissions, Joined, FreeLines
  <2> QED
    BY <1>1, <2>1 DEF Listing
<1>7. Counts(First)
  <2>1. Cardinality(Joined(L)) = 1
    BY <1>5, FS_Singleton
  <2>2. FreeLines(L)
    BY <1>4, <1>5 DEF FreeLines
  <2>3. OwnLine(First)
    <3>1. me[First].slot = 0 /\ me[First].n = 0
      BY <1>3
    <3>2. L[0].n = 0 /\ L[0].who = First /\ L[0].host
      BY <1>4 DEF Created
    <3> QED
      BY <1>2, <1>5, <3>1, <3>2 DEF OwnLine, Has
  <2> QED
    BY <1>2, <1>3, <2>1, <2>2, <2>3 DEF Counts
<1>8. AllCount
  BY <1>3, <1>7 DEF AllCount, Live
<1>9. AllHalfway(F) /\ AllHand(F)
  BY <1>3 DEF AllHalfway, AllHand, Handovers
<1>10. AllFollow(F)
  <2>1. ASSUME NEW p \in Players \ {First}, NEW v, NEW k, Expects(F, First, p, L, v, k) PROVE FALSE
    <3>1. PICK s \in Joined(L) : L[s].who = p
      BY <2>1, ExpectsIn DEF In, Admissions, Admission
    <3> QED
      BY <1>4, <1>5, <3>1 DEF Created
  <2>2. \A p \in Players \ {First} : Leading(F, First, p)
    BY <1>2, <2>1 DEF Leading
  <2>3. \A h \in Players : Live(h) => h = First
    BY <1>3 DEF Live
  <2> QED
    BY <2>2, <2>3 DEF AllFollow
<1>11. AllInherit(F)
  BY <1>3, PlayersAssumption DEF AllInherit, Inherits
<1> QED
  BY <1>6, <1>8, <1>9, <1>10, <1>11 DEF Lineage

LEMMA ListInvInit == Init => ListInv
BY TellInvInit, OriginsInit, LineageInit DEF ListInv

\* The invariant is kept by every step.
LEMMA ListInvStep == ASSUME RoomForAll, ListInv, [Next]_vars PROVE ListInv'
<1>1. TellInv'
  BY TellInvStep DEF ListInv
<1>2. ASSUME hasty' = {} PROVE Origins' /\ (\E F : Lineage(F))'
  <2>1. hasty = {}
    BY <1>2, Hasty
  <2>2. /\ Typed /\ HostStages /\ ClosedStages /\ KnowsLast /\ Kept /\ Known /\ Following /\ PendGone
        /\ Origins
    BY <2>1 DEF ListInv, TellInv, TellsOnce, Inv
  <2>3. PICK F : Lineage(F)
    BY <2>1 DEF ListInv
  <2>4. ASSUME NEW a \in Players, Step(a) \/ UNCHANGED vars PROVE Origins' /\ (\E G : Lineage(G))'
    <3>1. Origins'
      BY <2>2, <2>4, OriginsStep
    <3>2. \E G : Lineage(G)'
      BY <2>2, <2>3, <2>4, LineageStep
    <3> QED
      BY <3>1, <3>2
  <2>5. ASSUME NEW h \in Players, NEW p \in Players, Admit(h, p) PROVE Origins' /\ (\E G : Lineage(G))'
    <3>1. Origins'
      BY <2>2, <2>5, OriginsAdmit
    <3>2. Lineage(F)'
      BY <2>2, <2>3, <2>5, LineageAdmit
    <3> QED
      BY <3>1, <3>2
  <2> QED
    BY <2>4, <2>5, StepsOrAdmits, PlayersAssumption
<1> QED
  BY <1>1, <1>2 DEF ListInv

\* A host that leads the session counts its players.
LEMMA Counting == ASSUME ListInv PROVE CountAgrees
<1> SUFFICES ASSUME NEW h \in Players, st[h] = "in", host[h], half[h] = {}, h \notin skewed, hasty = {}
             PROVE  count[h] = Cardinality(Joined(list[h]))
  BY DEF CountAgrees
<1>1. Live(h) /\ Clean(h)
  BY DEF Live, Clean
<1> QED
  BY <1>1 DEF ListInv, Lineage, AllCount, Counts

\* A client that has nothing left to handle knows what its host has to tell.
LEMMA Agreeing == ASSUME ListInv PROVE ListsAgree
<1> SUFFICES ASSUME NEW h \in Players, NEW p \in Players,
                    st[h] = "in", host[h], half[h] = {}, \A t \in Threads : pend[h][t] = None,
                    Member(p, h), next[p] = Len(log[h][p]),
                    {h, p} \cap skewed = {}, p \notin dropped, hasty = {}
             PROVE  list[p] = list[h] /\ count[p] = count[h]
  BY DEF ListsAgree
<1>1. PICK F : Lineage(F)
  BY DEF ListInv
<1>2. Typed /\ Known
  BY DEF ListInv, TellInv, TellsOnce, Inv
<1>3. Live(h) /\ Clean(h) /\ p # h /\ st[p] = "in" /\ ~host[p] /\ from[p] = h
  BY DEF Live, Clean, Member, Reading
<1>4. Leading(F, h, p)
  BY <1>1, <1>3 DEF Lineage, AllFollow
<1>5. PICK L, v, k : L = list[h] /\ v = Seen(list[p], count[p]) /\ k = next[p]
  OBVIOUS
<1>6. L \in [Slots -> Line] /\ count[h] \in Int /\ log[h][p] \in Seq(Message)
  BY <1>2, <1>5, StateTypes
<1>7. Mem(L, p)
  <2>1. PICK i : i = me[p]
    OBVIOUS
  <2>2. i \in Id
    BY <1>2, <1>3, <2>1, GivenTypes DEF Known, KnownPlayer
  <2>3. Has(L, i) /\ L[i.slot].who = p
    BY <1>5, <2>1 DEF Member
  <2>4. i.slot \in Joined(L) /\ IdAt(L, i.slot) = i
    BY <2>2, <2>3, NumbersAssumption DEF Has, Id, Joined, IdAt
  <2>5. /\ Admission(L, i.slot) \in Admissions(L) /\ Admission(L, i.slot).who = p
        /\ IdOf(Admission(L, i.slot)) = i
    BY <2>3, <2>4, IdAtSlot
  <2> QED
    BY <2>1, <2>5 DEF Mem
<1>8. Expects(F, h, p, L, v, k)
  BY <1>3, <1>5, <1>7 DEF Expects, Served, Clean
<1>9. PICK w : Leads(v, log[h][p], k, w) /\ Tells(L, count[h], Untold(h), w)
  BY <1>4, <1>5, <1>8 DEF Leading, Along
<1>10. w = v
  <2>1. PICK M, n : M = log[h][p] /\ n = Len(M)
    OBVIOUS
  <2>2. M \in Seq(Message) /\ n \in Nat /\ k = n /\ Leads(v, M, k, w)
    BY <1>5, <1>6, <1>9, <2>1, LenProperties
  <2>3. \A j, u : Leads(v, M, j, u) /\ j >= Len(M) => u = v
    BY <2>2, LeadsEnd
  <2>4. k >= Len(M)
    BY <2>1, <2>2
  <2> QED
    BY <2>2, <2>3, <2>4
<1>11. Untold(h) = {}
  BY DEF Untold
<1>12. w = Seen(L, count[h])
  BY <1>6, <1>9, <1>11, TellsSame
<1> QED
  BY <1>5, <1>10, <1>12 DEF Seen

\* While no host began to leave before its own take-over was through (hasty = {}): the host
\* counts the players of its list, through joins, leaves and kicks by two threads and every
\* change of the host that takes over a state which is up to date (not skewed).
THEOREM Counted == ASSUME RoomForAll PROVE Spec => []CountAgrees
<1>1. ListInv => CountAgrees
  BY Counting
<1>2. ListInv /\ [Next]_vars => ListInv'
  BY ListInvStep
<1> QED
  BY <1>1, <1>2, ListInvInit, PTL DEF Spec

\* While no host began to leave before its own take-over was through (hasty = {}): a client that
\* has handled all messages of its host has the list and the number of its host, unless it lost
\* messages of the last host (dropped) or one of the two went on from a state that was not up
\* to date (skewed).
THEOREM Agreed == ASSUME RoomForAll PROVE Spec => []ListsAgree
<1>1. ListInv => ListsAgree
  BY Agreeing
<1>2. ListInv /\ [Next]_vars => ListInv'
  BY ListInvStep
<1> QED
  BY <1>1, <1>2, ListInvInit, PTL DEF Spec
=============================================================================
