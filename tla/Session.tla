------------------------------- MODULE Session -------------------------------
(***************************************************************************)
(* Who is in a session: creation, join, leave, kick, and the migration of  *)
(* the host.  Every player keeps a list of the players and their number;   *)
(* the host's is the one that counts, it changes it and tells the others.  *)
(*                                                                         *)
(* On each machine three threads act: the game's (create, join, leave,     *)
(* kick), the reader of the session's socket, and on a host that took over *)
(* the listener of a second socket, which admits players too.              *)
(*                                                                         *)
(* The datagrams Join, Added, Destroy, Leave (the answer to Destroy) and   *)
(* MigrateHost may be lost, late or repeated.  The numbered messages       *)
(* Create, Leave, List and NewHost are a log per host and client, handled  *)
(* in order: that is what SystemChannel shows of them.  A message of a     *)
(* former host that is received after the NewHost of the next one is left  *)
(* out, and so is the number it would share with a message of the next.    *)
(* The session is created with the migration flag and has no password.     *)
(***************************************************************************)
EXTENDS Integers, Sequences, FiniteSets

CONSTANTS
  Players,     \* one value per join: who comes back is a player of its own
  First,       \* the one that creates the session
  NoPlayer,    \* an empty slot, nobody
  NSlots,      \* f10_totalMaxPlayers
  PerPacket,   \* players in one PlayerList packet (5 in the code)
  MaxId,       \* bound: the players admitted
  Impatient,   \* bound: the players that may give up joining
  Leavers,     \* bound: the players that may leave
  Kickers,     \* bound: the hosts that may kick
  MaxRepeats   \* bound: times a player takes the NewHost of one host again

ASSUME PlayersAssumption == First \in Players /\ NoPlayer \notin Players
ASSUME NumbersAssumption ==
  /\ NSlots \in Nat \ {0} /\ PerPacket \in Nat \ {0, 1}
  /\ MaxId \in Nat /\ MaxRepeats \in Nat
ASSUME BoundsAssumption ==
  Impatient \subseteq Players /\ Leavers \subseteq Players /\ Kickers \subseteq Players

Slots == 0..(NSlots - 1)
Threads == {"read", "game"}

\* A PlayerId: the slot and a number that grows with every admission.
Id == [slot : Slots, n : 0..MaxId]
None == [slot |-> 0, n |-> -1]

\* A line of f24_playerList: the number of the id, the guid, the host flag.
Line == [n : -1..MaxId, who : Players \cup {NoPlayer}, host : BOOLEAN]
Free == [n |-> -1, who |-> NoPlayer, host |-> FALSE]
Empty == [s \in Slots |-> Free]

VARIABLES
  st,       \* where each player is in the calls below
  me,       \* f226_curPlayer.playerId
  host,     \* f226_curPlayer, the host flag
  list,     \* f24_playerList
  count,    \* f186_sessionDesc.currentPlayers
  closed,   \* f186_sessionDesc.flags, 0x10: no new players
  last,     \* the number in f569_last_playerId_slot
  pend,     \* per thread: an id that was removed and not yet told of
  half,     \* the MigrateHost that is being taken
  tmp,      \* the count a leaving host has read
  hostOf,   \* f54_host_ipv4: where a client sends its Destroy
  from,     \* the host whose messages are handled
  next,     \* f15E_nextAckIdx
  heard,    \* received Leave messages still to be handled, by number
  again,    \* v24_handleMessage and f20_playerId_slot of processSPMessages
  asked,    \* the host that was sent a Join
  begged,   \* the host that was sent a Destroy
  migrates, \* f186_sessionDesc.flags, 4: the session outlives its host
  kept,     \* the same in f3C_flags of DestroyPlayer
  off,      \* the players whose flag of being connected a Leave has cleared
  net,      \* the answers to both, and MigrateHost
  log,      \* the numbered messages, log[h][p][i + 1] under number i
  \* history, read by properties only
  given,    \* the ids that were given out, and to whom
  gone,     \* the ids each game was told have left
  twice,    \* the players whose game was told so twice
  stray,    \* the players that handled the Leave of one not in their list
  taken,    \* how often a player took the NewHost of each host
  took,     \* the host each host took the session over from
  skewed,   \* players that took over, or follow a host, from a state not up to date
  dropped,  \* players that lost messages of a host when the next one came
  hasty     \* hosts that began to leave before their own take-over was through

hostVars == <<list, count, closed, last, pend, half, tmp, log>>
selfVars == <<me, host, hostOf, asked, begged>>
readVars == <<from, next, heard, again, taken>>
flagVars == <<migrates, kept, off>>
history == <<given, took, skewed, dropped, hasty>>
told == <<gone, twice, stray>>
vars == <<st, hostVars, selfVars, readVars, flagVars, net, history, told>>

Alive(p) == st[p] \notin {"idle", "joining", "over"}
Connected(p) == Alive(p) /\ st[p] # "left" /\ p \notin off
Joined(l) == {s \in Slots : l[s].n # -1}
IdAt(l, s) == [slot |-> s, n |-> l[s].n]
Has(l, id) == l[id.slot].n = id.n
Without(l, id) == [l EXCEPT ![id.slot] = Free]

Created == [n |-> 0, who |-> First, host |-> TRUE]

\* CreateSPSession.
Init ==
  /\ st = [p \in Players |-> IF p = First THEN "in" ELSE "idle"]
  /\ me = [p \in Players |-> IF p = First THEN [slot |-> 0, n |-> 0] ELSE None]
  /\ host = [p \in Players |-> p = First]
  /\ list = [p \in Players |-> IF p = First THEN [Empty EXCEPT ![0] = Created] ELSE Empty]
  /\ count = [p \in Players |-> IF p = First THEN 1 ELSE 0]
  /\ closed = [p \in Players |-> FALSE]
  /\ last = [p \in Players |-> 0]
  /\ pend = [p \in Players |-> [t \in Threads |-> None]]
  /\ half = [p \in Players |-> {}]
  /\ tmp = [p \in Players |-> 0]
  /\ hostOf = [p \in Players |-> NoPlayer]
  /\ from = [p \in Players |-> NoPlayer]
  /\ next = [p \in Players |-> 0]
  /\ heard = [p \in Players |-> {}]
  /\ again = [p \in Players |-> None]
  /\ asked = [p \in Players |-> NoPlayer]
  /\ begged = [p \in Players |-> NoPlayer]
  /\ migrates = [p \in Players |-> p = First]
  /\ kept = [p \in Players |-> FALSE]
  /\ off = {}
  /\ net = {}
  /\ log = [h \in Players |-> [p \in Players |-> << >>]]
  /\ given = {[slot |-> 0, n |-> 0, who |-> First]}
  /\ gone = [p \in Players |-> {}]
  /\ twice = {}
  /\ stray = {}
  /\ taken = [p \in Players |-> [h \in Players |-> 0]]
  /\ took = [p \in Players |-> NoPlayer]
  /\ skewed = {}
  /\ dropped = {}
  /\ hasty = {}

-----------------------------------------------------------------------------
(* What a host sends. *)

\* Mutant: the last slot is left out.
Scheduled_last(h, l, msg) ==
  [p \in Players |->
     IF \E s \in Joined(l) \ {NSlots - 1} : l[s].who = p /\ IdAt(l, s) # me[h]
     THEN Append(log[h][p], msg) ELSE log[h][p]]

\* schedulePlayersChangePacket: to the joined players of l, itself excepted.
Scheduled(h, l, msg) ==
  [p \in Players |->
     IF \E s \in Joined(l) : l[s].who = p /\ IdAt(l, s) # me[h]
     THEN Append(log[h][p], msg) ELSE log[h][p]]

\* The joined slots of l in order.
InOrder(l) ==
  [i \in 1..Cardinality(Joined(l)) |->
     CHOOSE s \in Joined(l) : Cardinality({t \in Joined(l) : t <= s}) = i]

Part(l, i) ==
  LET b == (i - 1) * (PerPacket - 1)
  IN {InOrder(l)[k] : k \in {j \in 1..Cardinality(Joined(l)) : b < j /\ j <= b + PerPacket}}

\* send_B_PlayerList: as many packets as c players need, but the last player of a
\* packet is the first of the following one.  A count below zero is a large one,
\* and stands for as many packets as there are slots.
ListPackets(l, c) ==
  [i \in 1..(IF c < 0 THEN NSlots ELSE (c + PerPacket - 1) \div PerPacket) |->
     [ty |-> "List", part |-> [s \in Part(l, i) |-> l[s]], count |-> c]]

\* The packets of a PlayerList have room for every player: two of them hold one less than
\* twice PerPacket.  So do the code's, 5 in a packet for the 4 players of a session
\* (initMaxPlayers).
RoomForAll == NSlots <= 2 * PerPacket - 1

\* PlayerAdded, the answer to a Join.
Added(h, p, s, l, c) ==
  [ty |-> "Added", to |-> p, from |-> h, id |-> IdAt(l, s), count |-> c]

-----------------------------------------------------------------------------
(* Joining. *)

\* JoinSPSession: the session was found open, the request goes to its host.
AskToJoin(p, h) ==
  /\ st[p] = "idle"
  /\ host[h] /\ Connected(h) /\ ~closed[h]
  /\ st' = [st EXCEPT ![p] = "joining"]
  /\ asked' = [asked EXCEPT ![p] = h]
  /\ migrates' = [migrates EXCEPT ![p] = migrates[h]]
  /\ UNCHANGED <<hostVars, me, host, hostOf, begged, readVars, kept, off, net, history,
                 told>>

\* JoinSPSession: no answer in 60 seconds.
GiveUp(p) ==
  /\ p \in Impatient
  /\ st[p] = "joining"
  /\ st' = [st EXCEPT ![p] = "over"]
  /\ UNCHANGED <<hostVars, selfVars, readVars, flagVars, net, history, told>>

\* A Join is read by the reader, or by the listener of a host that took over.
Reads(h) == half[h] = {} /\ (asked[h] # NoPlayer \/ pend[h]["read"] = None)

Listed(h, p) == {s \in Joined(list[h]) : list[h][s].who = p /\ IdAt(list[h], s) # me[h]}

\* handlePacket_7_JoinPlayer, the player is in the session: it is answered again.
AnswerAgain(h, p) ==
  /\ host[h] /\ Connected(h) /\ asked[p] = h /\ Reads(h)
  /\ \E s \in Listed(h, p) : net' = net \cup {Added(h, p, s, list[h], count[h])}
  /\ UNCHANGED <<st, hostVars, selfVars, readVars, flagVars, history, told>>

NextNumber(h) == last[h] + 1

\* handlePacket_7_JoinPlayer: the first free slot goes to the player, the others
\* are told, it is told all of them.
Admit(h, p) ==
  /\ host[h] /\ Connected(h) /\ asked[p] = h /\ Reads(h)
  /\ Listed(h, p) = {} /\ ~closed[h]
  /\ last[h] < MaxId
  /\ \E s \in Slots \ Joined(list[h]) :
       LET n == NextNumber(h)
           l == [list[h] EXCEPT ![s] = [n |-> n, who |-> p, host |-> FALSE]]
           c == count[h] + 1
           create == [ty |-> "Create", id |-> IdAt(l, s), who |-> p, count |-> c]
       IN /\ \A t \in Slots : t < s => t \in Joined(list[h])
          /\ list' = [list EXCEPT ![h] = l]
          /\ count' = [count EXCEPT ![h] = c]
          /\ last' = [last EXCEPT ![h] = n]
          /\ log' = [log EXCEPT ![h] =
               [Scheduled(h, list[h], create) EXCEPT ![p] = ListPackets(l, c)]]
          /\ net' = net \cup {Added(h, p, s, l, c)}
          /\ given' = given \cup {[slot |-> s, n |-> n, who |-> p]}
  /\ UNCHANGED <<st, closed, pend, half, tmp, selfVars, readVars, flagVars, took, skewed,
                 dropped, hasty, told>>

\* JoinSession_proc takes the answer, JoinSPSession returns, processSPMessages
\* starts.
Connect(p, m) ==
  /\ st[p] = "joining"
  /\ m \in net /\ m.ty = "Added" /\ m.to = p
  /\ st' = [st EXCEPT ![p] = "in"]
  /\ me' = [me EXCEPT ![p] = m.id]
  /\ hostOf' = [hostOf EXCEPT ![p] = m.from]
  /\ from' = [from EXCEPT ![p] = m.from]
  /\ count' = [count EXCEPT ![p] = m.count]
  /\ list' = [list EXCEPT ![p][m.id.slot] = [n |-> m.id.n, who |-> p, host |-> FALSE]]
  /\ UNCHANGED <<closed, last, pend, half, tmp, log, host, asked, begged, next, heard,
                 again, taken, flagVars, net, history, told>>

-----------------------------------------------------------------------------
(* Leaving and being removed. *)

\* currentPlayers < 2, and <= 1, without sign: below zero the count is a large one.
Alone(p) == count[p] \in {0, 1}

\* DestroySPSession and DestroyPlayer on a client, first test of isHost: nothing is closed.
StartLeaving(p) ==
  /\ p \in Leavers
  /\ st[p] = "in" /\ ~host[p] /\ p \notin off
  /\ st' = [st EXCEPT ![p] = "going"]
  /\ UNCHANGED <<hostVars, selfVars, readVars, flagVars, net, history, told>>

\* The second test, without the lock: the reader may have taken the session over since.
\* It is handed on as it is then, open, and without the flags.
TestAgain(p) ==
  /\ st[p] = "going"
  /\ st' = [st EXCEPT ![p] = IF host[p] THEN "closing" ELSE "asking"]
  /\ kept' = [kept EXCEPT ![p] = FALSE]
  /\ hasty' = IF host[p] THEN hasty \cup {p} ELSE hasty
  /\ UNCHANGED <<hostVars, selfVars, readVars, migrates, off, net, given, took, skewed,
                 dropped, told>>

\* DestroyPlayer on a client goes on: it sends Destroy for at most 4 seconds.
AskToLeave(p) ==
  /\ st[p] = "asking"
  /\ st' = [st EXCEPT ![p] = IF Alone(p) THEN "left" ELSE "leaving"]
  /\ begged' = [begged EXCEPT ![p] = IF Alone(p) THEN @ ELSE hostOf[p]]
  /\ UNCHANGED <<hostVars, me, host, hostOf, asked, readVars, flagVars, net, history,
                 told>>

\* A client, until it is out, ...
Reading(p) == st[p] \in {"in", "going", "asking", "leaving"} /\ ~host[p]

\* ... and one that the messages of its host still get to.
Hears(p) == Reading(p) /\ p \notin off

\* Thread t of h removes the player in slot s and gives the lock up.
Remove(h, t, s) ==
  /\ list' = [list EXCEPT ![h][s] = Free]
  /\ count' = [count EXCEPT ![h] = @ - 1]
  /\ pend' = [pend EXCEPT ![h][t] = IdAt(list[h], s)]

Bye(p, id) == [ty |-> "Leave", to |-> p, id |-> id]

\* handlePacket_A_DestroyPlayer: the player p is removed if it is still listed, and
\* answered in any case.
Destroy(h, p) ==
  /\ host[h] /\ Alive(h) /\ begged[p] = h
  /\ half[h] = {} /\ pend[h]["read"] = None
  /\ IF Has(list[h], me[p]) /\ list[h][me[p].slot].who = p
     THEN /\ Remove(h, "read", me[p].slot)
          /\ net' = net
     ELSE /\ net' = net \cup {Bye(p, me[p])}
          /\ UNCHANGED <<list, count, pend>>
  /\ UNCHANGED <<st, closed, last, half, tmp, log, selfVars, readVars, flagVars, history,
                 told>>

\* destroyPlayer: the game of the host removes another player, not its own.  Between
\* the halves of a take-over the count is about to be overwritten.
Kick(h, s) ==
  /\ h \in Kickers
  /\ st[h] = "in" /\ host[h] /\ h \notin off
  /\ pend[h]["game"] = None
  /\ s \in Joined(list[h]) /\ IdAt(list[h], s) # me[h]
  /\ Remove(h, "game", s)
  /\ skewed' = IF half[h] # {} THEN skewed \cup {h} ELSE skewed
  /\ UNCHANGED <<st, closed, last, half, tmp, log, selfVars, readVars, flagVars, net,
                 given, took, dropped, hasty, told>>

\* The game of p is told that id has left.
Tell(p, id) ==
  /\ gone' = [gone EXCEPT ![p] = @ \cup {id}]
  /\ twice' = IF id \in gone[p] THEN twice \cup {p} ELSE twice

\* The one that the host hands the session over to, when it has.
HandedTo(h) == {m.to : m \in {x \in net : x.ty = "Migrate" /\ x.from = h}}

\* Thread t tells its game, has the lock again and schedules the Leave.  The reader
\* answers the player too.
Schedule(h, t) ==
  LET id == pend[h][t]
      bye == [ty |-> "Leave", id |-> id, count |-> count[h]]
  IN /\ id # None
     /\ pend' = [pend EXCEPT ![h][t] = None]
     /\ log' = [log EXCEPT ![h] = Scheduled(h, list[h], bye)]
     /\ net' = IF t = "read"
               THEN net \cup {Bye(p, id) : p \in {q \in Players : begged[q] = h /\ me[q] = id}}
               ELSE net
     /\ Tell(h, id) /\ stray' = stray
     /\ skewed' = skewed \cup HandedTo(h)
  /\ UNCHANGED <<st, list, count, closed, last, half, tmp, selfVars, readVars, flagVars,
                 given, took, dropped, hasty>>

\* A client reads the answer to its Destroy: whatever it had still to handle goes,
\* and it is out.  The numbers in the answer are what its Destroy had there; no one
\* reads the count of a player that is out.
ReadBye(p, m) ==
  /\ m \in net /\ m.ty = "Leave" /\ m.to = p
  /\ Hears(p)
  /\ m.id = me[p] /\ Has(list[p], m.id)
  /\ st' = [st EXCEPT ![p] = "left"]
  /\ list' = [list EXCEPT ![p] = Without(@, m.id)]
  /\ heard' = [heard EXCEPT ![p] = {}]
  /\ Tell(p, m.id) /\ stray' = stray
  /\ UNCHANGED <<count, closed, last, pend, half, tmp, log, selfVars, from, next, again,
                 taken, flagVars, net, history>>

\* DestroySPSession is through: the answer has come, or the time is up.
EndSession(p) ==
  /\ st[p] \in {"leaving", "left", "handing"}
  /\ half[p] = {} /\ pend[p]["read"] = None
  /\ st' = [st EXCEPT ![p] = "over"]
  /\ host' = [host EXCEPT ![p] = FALSE]
  /\ list' = [list EXCEPT ![p] = Empty]
  /\ UNCHANGED <<count, closed, last, pend, half, tmp, log, me, hostOf, asked, begged,
                 readVars, flagVars, net, history, told>>

-----------------------------------------------------------------------------
(* The host leaves. *)

\* Mutant: the session stays open.
Closed_not(h) == closed[h]

Closed(h) == TRUE

\* DestroySPSession and DestroyPlayer on the host, with the lock: no one is admitted
\* any more.  A host that is alone is out.
CloseSession(h) ==
  /\ h \in Leavers
  /\ st[h] = "in" /\ host[h] /\ h \notin off
  /\ pend[h]["game"] = None
  /\ closed' = [closed EXCEPT ![h] = Closed(h)]
  /\ st' = [st EXCEPT ![h] = IF Alone(h) THEN "left" ELSE "closing"]
  /\ kept' = [kept EXCEPT ![h] = migrates[h]]
  /\ hasty' = IF half[h] # {} THEN hasty \cup {h} ELSE hasty
  /\ UNCHANGED <<list, count, last, pend, half, tmp, log, selfVars, readVars, migrates,
                 off, net, given, took, skewed, dropped, told>>

\* It counts itself out without the lock: reads the count, ...
ReadCount(h) ==
  /\ st[h] = "closing"
  /\ st' = [st EXCEPT ![h] = "counting"]
  /\ tmp' = [tmp EXCEPT ![h] = count[h]]
  /\ UNCHANGED <<list, count, closed, last, pend, half, log, selfVars, readVars, flagVars,
                 net, history, told>>

\* Mutant: a new host gives out numbers from the start.
LastSent_not(h) == 0

LastSent(h) == last[h]

\* Mutant: the host itself may be the first.
Heirs_any(h) == Joined(list[h])

\* Only a session with the migration flag outlives its host.
Heirs(h) == {s \in Joined(list[h]) : migrates[h] /\ ~list[h][s].host}
Heir(h) == CHOOSE s \in Heirs(h) : \A t \in Heirs(h) : s <= t

\* ... writes it back, tells the others that it leaves and the first of them that
\* it is the host now.  The number of that packet is one of the log.
HandOver(h) ==
  LET c == tmp[h] - 1
      bye == [ty |-> "Leave", id |-> me[h], count |-> c]
      l == Scheduled(h, list[h], bye)
  IN /\ st[h] = "counting"
     /\ st' = [st EXCEPT ![h] = "handing"]
     /\ count' = [count EXCEPT ![h] = c]
     /\ IF Heirs(h) = {}
        THEN /\ log' = [log EXCEPT ![h] = l]
             /\ UNCHANGED <<net, skewed>>
        ELSE LET p == list[h][Heir(h)].who
             IN /\ log' = [log EXCEPT ![h] = [l EXCEPT ![p] = Append(@, [ty |-> "Migrate"])]]
                /\ net' = net \cup {[ty |-> "Migrate", to |-> p, from |-> h,
                                     id |-> IdAt(list[h], Heir(h)), old |-> me[h],
                                     count |-> c, last |-> LastSent(h),
                                     flag |-> kept[h]]}
                /\ skewed' = IF count[h] # tmp[h] \/ \E t \in Threads : pend[h][t] # None
                             THEN skewed \cup {p} ELSE skewed
     /\ UNCHANGED <<list, closed, last, pend, half, tmp, selfVars, readVars, flagVars,
                    given, took, dropped, hasty, told>>

\* Mutant: the old host stays in the list.
Ousted_not(p, m) ==
  [s \in Slots |-> [list[p][s] EXCEPT !.host = s = me[p].slot]]

\* The list of the new host: the old one is removed, the host flags are reset.
Ousted(p, m) ==
  [s \in Slots |->
     IF Has(list[p], m.old) /\ s = m.old.slot THEN Free
     ELSE [list[p][s] EXCEPT !.host = s = me[p].slot]]

\* Mutant: the game is told of the old host in any case.
Found_any(p, m) == TRUE

Found(p, m) == Has(list[p], m.old)

\* Messages of the old host that p has not handled, but for its own Leave.
Unhandled(p, m) ==
  {i \in next[p]+1..Len(log[m.from][p]) :
     LET x == log[m.from][p][i]
     IN x.ty # "Migrate" /\ (x.ty = "Leave" => x.id # m.old)}

\* handleNotLobbyPacket, MigrateHost: p makes itself the host and gives the lock up
\* to tell its game, ...
TakeOver(p, m) ==
  /\ m \in net /\ m.ty = "Migrate" /\ m.to = p
  /\ st[p] \in {"in", "going", "asking", "leaving", "left"} /\ ~host[p] /\ m.id = me[p]
  /\ list' = [list EXCEPT ![p] = Ousted(p, m)]
  /\ host' = [host EXCEPT ![p] = TRUE]
  /\ half' = [half EXCEPT ![p] = {m}]
  /\ took' = [took EXCEPT ![p] = m.from]
  /\ skewed' = IF Unhandled(p, m) # {} \/ m.from # from[p] \/ p \in dropped
                  \/ m.from \in skewed
               THEN skewed \cup {p} ELSE skewed
  /\ stray' = stray
  /\ IF Found(p, m) THEN Tell(p, m.old) ELSE UNCHANGED <<gone, twice>>
  /\ UNCHANGED <<st, count, closed, last, pend, tmp, log, me, hostOf, asked, begged,
                 readVars, flagVars, net, given, dropped, hasty>>

\* ... then takes the session over and tells the others.
Proclaim(p) ==
  \E m \in half[p] :
    LET e == [ty |-> "NewHost", id |-> me[p], who |-> p, count |-> m.count]
    IN /\ half' = [half EXCEPT ![p] = {}]
       /\ closed' = [closed EXCEPT ![p] = FALSE]
       /\ count' = [count EXCEPT ![p] = m.count]
       /\ last' = [last EXCEPT ![p] = m.last]
       /\ migrates' = [migrates EXCEPT ![p] = m.flag]
       /\ log' = [log EXCEPT ![p] = Scheduled(p, list[p], e)]
       /\ UNCHANGED <<st, list, pend, tmp, selfVars, readVars, kept, off, net, history,
                      told>>

-----------------------------------------------------------------------------
(* A client handles the numbered messages. *)

\* handlePacket_1_2_9_B_E, NewHost: its number is the next one, whatever was listed
\* is dropped.  A late or repeated one does so again.  If h did not take over from the
\* host p follows, what that one was told meanwhile never gets to p.
HearNewHost(p, h) ==
  \E i \in DOMAIN log[h][p] :
    /\ Hears(p)
    /\ log[h][p][i].ty = "NewHost"
    /\ taken[p][h] <= MaxRepeats
    /\ taken' = [taken EXCEPT ![p][h] = @ + 1]
    /\ from' = [from EXCEPT ![p] = h]
    /\ next' = [next EXCEPT ![p] = i - 1]
    /\ heard' = [heard EXCEPT ![p] = {}]
    /\ dropped' = IF taken[p][h] > 0 \/ next[p] < Len(log[from[p]][p])
                  THEN dropped \cup {p} ELSE dropped
    /\ skewed' = IF took[h] # from[p] \/ from[p] \in skewed
                 THEN skewed \cup {p} ELSE skewed
    /\ UNCHANGED <<st, hostVars, selfVars, again, flagVars, net, given, took, hasty, told>>

\* The same for a Leave, which is listed only if its player is in the list by then.
HearLeave(p) ==
  /\ Hears(p)
  /\ \E i \in next[p]+1..Len(log[from[p]][p]) :
       LET x == log[from[p]][p][i]
       IN /\ x.ty = "Leave" /\ i \notin heard[p] /\ Has(list[p], x.id)
          /\ heard' = [heard EXCEPT ![p] = @ \cup {i}]
  /\ UNCHANGED <<st, hostVars, selfVars, from, next, again, taken, flagVars, net, history,
                 told>>

\* popReceivedPacketToHandle: message x, the next one, is taken.
Takes(p, x, ty) ==
  /\ x.ty = ty
  /\ next' = [next EXCEPT ![p] = @ + 1]

\* processSPMessages, Create.
HandleCreate(p, x) ==
  /\ Takes(p, x, "Create")
  /\ list' = [list EXCEPT ![p][x.id.slot] = [n |-> x.id.n, who |-> x.who, host |-> FALSE]]
  /\ count' = [count EXCEPT ![p] = x.count]
  /\ UNCHANGED <<st, closed, last, pend, half, tmp, log, selfVars, from, heard, again,
                 taken, flagVars, net, history, told>>

\* processSPMessages, PlayerList.
HandleList(p, x) ==
  /\ Takes(p, x, "List")
  /\ list' = [list EXCEPT ![p] =
       [s \in Slots |-> IF s \in DOMAIN x.part THEN x.part[s] ELSE @[s]]]
  /\ count' = [count EXCEPT ![p] = x.count]
  /\ UNCHANGED <<st, closed, last, pend, half, tmp, log, selfVars, from, heard, again,
                 taken, flagVars, net, history, told>>

\* processSPMessages, PlayerLeave.  v24_handleMessage is never reset: a Leave of a
\* player that is not in the list taken what the last one told.
HandleLeave(p, x) ==
  /\ Takes(p, x, "Leave")
  /\ next[p] + 1 \in heard[p]
  /\ heard' = [heard EXCEPT ![p] = @ \ {next[p] + 1}]
  /\ IF Has(list[p], x.id)
     THEN /\ list' = [list EXCEPT ![p] = Without(@, x.id)]
          /\ count' = [count EXCEPT ![p] = x.count]
          /\ again' = [again EXCEPT ![p] = x.id]
          /\ stray' = stray
     ELSE /\ stray' = stray \cup {p}
          /\ UNCHANGED <<list, count, again>>
  /\ off' = IF x.id = me[p] THEN off \cup {p} ELSE off
  /\ IF again'[p] # None THEN Tell(p, again'[p]) ELSE UNCHANGED <<gone, twice>>
  /\ UNCHANGED <<st, closed, last, pend, half, tmp, log, selfVars, from, taken, migrates,
                 kept, net, history>>

\* processSPMessages, NewHost: the flags always, the rest if the host is in the list.
HandleNewHost(p, x) ==
  /\ Takes(p, x, "NewHost")
  /\ list' = [list EXCEPT ![p] =
       [s \in Slots |-> [@[s] EXCEPT !.host = IdAt(list[p], s) = x.id]]]
  /\ IF Has(list[p], x.id)
     THEN /\ count' = [count EXCEPT ![p] = x.count]
          /\ hostOf' = [hostOf EXCEPT ![p] = x.who]
     ELSE UNCHANGED <<count, hostOf>>
  /\ UNCHANGED <<st, closed, last, pend, half, tmp, log, me, host, asked, begged, from,
                 heard, again, taken, flagVars, net, history, told>>

Handle(p) ==
  /\ Reading(p)
  /\ next[p] < Len(log[from[p]][p])
  /\ LET x == log[from[p]][p][next[p] + 1]
     IN \/ HandleCreate(p, x)
        \/ HandleList(p, x)
        \/ HandleLeave(p, x)
        \/ HandleNewHost(p, x)

Next ==
  \E p \in Players :
    \/ \E h \in Players : AskToJoin(p, h) \/ AnswerAgain(h, p) \/ Admit(h, p)
                            \/ Destroy(h, p) \/ HearNewHost(p, h)
    \/ \E m \in net : Connect(p, m) \/ ReadBye(p, m) \/ TakeOver(p, m)
    \/ GiveUp(p) \/ EndSession(p)
    \/ StartLeaving(p) \/ TestAgain(p) \/ AskToLeave(p)
    \/ \E s \in Slots : Kick(p, s)
    \/ \E t \in Threads : Schedule(p, t)
    \/ CloseSession(p) \/ ReadCount(p) \/ HandOver(p) \/ Proclaim(p)
    \/ HearLeave(p) \/ Handle(p)

Spec == Init /\ [][Next]_vars

CanTakeOver ==
  \E m \in net :
    /\ m.ty = "Migrate" /\ m.id = me[m.to]
    /\ st[m.to] \in {"in", "going", "asking", "leaving", "left"} /\ ~host[m.to]
CanProclaim == \E p \in Players : half[p] # {}
CanHear ==
  \E p, h \in Players :
    /\ Hears(p) /\ taken[p][h] <= MaxRepeats
    /\ \E i \in DOMAIN log[h][p] : log[h][p][i].ty = "NewHost"

\* MigrateHost is sent for 4 seconds, NewHost for 60: one of them arrives.  The first
\* conjuncts are what the step changes; they spare TLC the rest on other steps.
Fairness ==
  /\ []<>~CanTakeOver \/ []<><<half' # half /\ \E m \in net : TakeOver(m.to, m)>>_vars
  /\ []<>~CanProclaim \/ []<><<half' # half /\ \E p \in Players : Proclaim(p)>>_vars
  /\ []<>~CanHear \/ []<><<taken' # taken /\ \E p, h \in Players : HearNewHost(p, h)>>_vars

FairSpec == Spec /\ Fairness

-----------------------------------------------------------------------------
(***************************************************************************)
(* Correctness.  A session is hasty once a machine goes on as the host in  *)
(* DestroyPlayer though its own take-over was not through when it began to *)
(* leave: it began as a client, and the reader took the session over       *)
(* before the second test of isHost, or it was between the halves of the   *)
(* take-over.  The session is open then, and handed over open.             *)
(***************************************************************************)

\* The types, and the numbers in their bounds.
TypeOK ==
  /\ st \in [Players -> {"idle", "joining", "in", "going", "asking", "leaving",
                         "closing", "counting", "handing", "left", "over"}]
  /\ me \in [Players -> Id \cup {None}]
  /\ host \in [Players -> BOOLEAN]
  /\ list \in [Players -> [Slots -> Line]]
  /\ count \in [Players -> Int]
  /\ closed \in [Players -> BOOLEAN]
  /\ last \in [Players -> 0..MaxId]
  /\ pend \in [Players -> [Threads -> Id \cup {None}]]
  /\ \A p \in Players : half[p] \subseteq net
  /\ tmp \in [Players -> Int]
  /\ hostOf \in [Players -> Players \cup {NoPlayer}]
  /\ from \in [Players -> Players \cup {NoPlayer}]
  /\ next \in [Players -> Nat]
  /\ again \in [Players -> Id \cup {None}]
  /\ migrates \in [Players -> BOOLEAN]
  /\ kept \in [Players -> BOOLEAN]
  /\ off \subseteq Players
  /\ given \subseteq [slot : Slots, n : 0..MaxId, who : Players]

\* An id names one admission, also across a change of the host: the next host goes
\* on from the last number that MigrateHost brings.  Excused are sessions of which a host
\* began to leave before its own take-over was through (hasty): it may hand over a
\* number that it has not taken yet, or that it gives out itself, the session being open.
IdsUnique ==
  hasty = {} => \A x, y \in given : x.n = y.n => x = y

\* The host counts the players of its list.  currentPlayers is not counted but kept,
\* changed by several threads and taken over from the last host.  A host is excused if
\* what it took over was not up to date (skewed), and so are sessions of which a host
\* began to leave before its own take-over was through (hasty).
CountAgrees ==
  \A h \in Players :
    st[h] = "in" /\ host[h] /\ half[h] = {} /\ h \notin skewed /\ hasty = {}
      => count[h] = Cardinality(Joined(list[h]))

Member(p, h) ==
  /\ Reading(p) /\ st[p] = "in" /\ from[p] = h
  /\ Has(list[h], me[p]) /\ list[h][me[p].slot].who = p

\* A client that has handled all messages has the list and the number of its host:
\* the PlayerList, each Create and Leave and the NewHost tell it enough, through
\* admissions and kicks by two threads and changes of the host.  Excused are those
\* who lost messages of the last host (dropped) or took over or follow a host from a
\* state that was not up to date (skewed), and sessions of which a host began to leave
\* before its own take-over was through (hasty).
ListsAgree ==
  \A h, p \in Players :
    /\ st[h] = "in" /\ host[h] /\ half[h] = {} /\ \A t \in Threads : pend[h][t] = None
    /\ Member(p, h) /\ next[p] = Len(log[h][p])
    /\ {h, p} \cap skewed = {} /\ p \notin dropped /\ hasty = {}
    => list[p] = list[h] /\ count[p] = count[h]

\* One host at a time admits players: the old one closes the session before it asks
\* for the take-over, and stays closed for as long as it goes on answering.  Excused
\* are sessions of which a host began to leave before its own take-over was through
\* (hasty): it did not close the session, or the take-over opened it again.
OneOpenHost ==
  \A p, q \in Players :
    /\ hasty = {}
    /\ host[p] /\ Connected(p) /\ ~closed[p]
    /\ host[q] /\ Connected(q) /\ ~closed[q]
    => p = q

\* No game is told twice that a player left, be it by a kick, the answer to a
\* Destroy, a Leave or a MigrateHost.  Excused are a Leave of one not in the list,
\* which tells what the last one told (stray), messages that were dropped, and sessions
\* of which a host began to leave before its own take-over was through (hasty): ids are
\* given out again in them.
ToldOnce ==
  hasty = {} => twice \subseteq dropped \cup stray

Orphan(p) == Hears(p) /\ HandedTo(from[p]) # {}

\* The one the session was handed to has left or never was in it, has another id,
\* or does not list p.
Lost(p) ==
  \E m \in net :
    /\ m.ty = "Migrate" /\ m.from = from[p]
    /\ \/ ~host[m.to] /\ ~Reading(m.to)
       \/ m.id # me[m.to]
       \/ ~\E s \in Slots : list[m.to][s].who = p /\ IdAt(list[m.to], s) = me[p]

\* When a host hands the session over, the others come to follow the next one, if
\* that one is there to do so (Lost).  The first host follows nobody.
HostFollowed ==
  \A p \in Players \ {First} : Orphan(p) ~> ~Orphan(p) \/ Lost(p)
=============================================================================
