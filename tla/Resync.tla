-------------------------------- MODULE Resync --------------------------------
(***************************************************************************)
(* MyGameSession::tick of every peer of a session: the checks that find a  *)
(* world out of step with the host's, the two saves taken in turn every 30 *)
(* seconds, and the reload of one of them by all peers, with the waits of  *)
(* scripted cameras, which are not in the saves, put back as they were.    *)
(*                                                                         *)
(* Peers process one ordered stream of packets from the host, each at its  *)
(* own pace.  The host's world is the right one by definition, and the     *)
(* host decides when to resynchronise: that rule is in the binary, and     *)
(* taken here as "some time after a report".                               *)
(***************************************************************************)
EXTENDS Integers, Sequences, ScriptedWaits

CONSTANTS
  Peer, Host,
  NoSave,      \* a save or a checkpoint that does not exist
  SavePeriod,  \* 30 * gameTicksPerSecond
  Scripts,     \* bound: what scripts may do with the camera in a tick
  Checks,      \* bound: whether packets may, or must, carry a checksum
  Diverging,   \* bound: the peers whose world may go wrong
  Failing,     \* bound: the peers whose saves may fail
  FirstDue,    \* when the first save may be due, which the binary sets
  MaxTick,     \* bound: the last tick
  MaxAhead,    \* bound: how many packets a peer may be behind the host
  Prompt       \* how many packets the host sends between a report and the resync

ASSUME HostAssumption == Host \in Peer /\ Host \notin Diverging
ASSUME NumbersAssumption ==
  /\ SavePeriod \in Nat \ {0} /\ FirstDue \subseteq Nat
  /\ MaxTick \in Nat /\ MaxAhead \in Nat \ {0} /\ Prompt \in Nat

Slot == {0, 1}

\* A world, as far as it matters: its tick, whether it is wrong, and the mode of the
\* camera, which a save holds too.
World == [tick : Nat, wrong : BOOLEAN, mode : Modes]
Checkpoint == [tick : Nat, waits : Waits]

\* A peer: `slot' is f290, `flip' f296, `final' f29A, `saved' gameTick28C, `due'
\* saveTick288, `out' isOutOfSync and `since' gameTick2A2.
Session == [world : World, waits : Waits,
            files : [Slot -> World \cup {NoSave}],
            points : [Slot -> Checkpoint \cup {NoSave}],
            slot : Slot, flip : BOOLEAN, final : BOOLEAN, saved : Nat, due : Nat,
            out : BOOLEAN, since : Nat, state : {"play", "over", "aborted"}]

\* Packets of the host: a tick, with what scripts do in it and the host's world to be
\* compared with, or a resync, with the tick of the report (action 117) that asked for
\* it.  The packet of a resync need not hold a report.
NoReport == -1
NoScript == [kind |-> "none"]
Script == {NoScript} \cup [kind : {"move"}, ms : Nat] \cup [kind : {"path"}, points : Nat \ {0, 1}]
Packet == [kind : {"tick"}, script : Script, check : BOOLEAN, tick : Nat]
            \cup [kind : {"resync"}, since : Nat \cup {NoReport}]

ASSUME NoSaveAssumption == NoSave \notin World \cup Checkpoint
ASSUME BoundsAssumption == Scripts \subseteq Script /\ Checks \subseteq BOOLEAN

VARIABLES
  stream,      \* the packets that some peer has yet to process
  at,          \* per peer: how many of them it has processed
  session,     \* per peer
  reported,    \* the ticks of the reports the host has not acted on
  waited,      \* packets sent since the first of them
  \* history, read by properties only
  truth,       \* per peer and slot: the waits when the world of the file was saved
  odd          \* the peers that lost a save, which are not compared with others

vars == <<stream, at, session, reported, waited, truth, odd>>

NewSession(due) ==
  [world |-> [tick |-> 0, wrong |-> FALSE, mode |-> "own"], waits |-> NoWaits,
   files |-> [f \in Slot |-> NoSave], points |-> [f \in Slot |-> NoSave],
   slot |-> 0, flip |-> FALSE, final |-> FALSE, saved |-> 0, due |-> due,
   out |-> FALSE, since |-> 0, state |-> "play"]

Init ==
  /\ stream = << >>
  /\ at = [p \in Peer |-> 0]
  /\ \E due \in FirstDue : session = [p \in Peer |-> NewSession(due)]
  /\ reported = {}
  /\ waited = 0
  /\ truth = [p \in Peer |-> [f \in Slot |-> NoWaits]]
  /\ odd = {}

-----------------------------------------------------------------------------
(* A tick *)

\* The checks are made until one fails.
Checked(s, c) ==
  IF ~s.out /\ c.check /\ (s.world.wrong \/ s.world.tick # c.tick)
  THEN [s EXCEPT !.out = TRUE, !.since = s.world.tick]
  ELSE s

SaveDue(s) == s.world.tick > s.due

\* Mutant: the checkpoint is taken whether the save succeeds or not.
Saved_always(s, outcome) ==
  LET f == 1 - s.slot
      t == [s EXCEPT !.saved = s.world.tick, !.slot = f, !.flip = FALSE, !.final = FALSE,
                     !.due = @ + SavePeriod,
                     !.points[f] = [tick |-> s.world.tick, waits |-> s.waits]]
  IN IF ~SaveDue(s) THEN s
     ELSE IF outcome = "ok" THEN [t EXCEPT !.files[f] = s.world]
     ELSE IF outcome = "kept" THEN t
     ELSE [t EXCEPT !.files[f] = NoSave]

\* The save goes to the other slot.  If it fails the file is as it was, or spoilt;
\* the checkpoint is taken only if it succeeds, all else either way.
Saved(s, outcome) ==
  LET f == 1 - s.slot
      t == [s EXCEPT !.saved = s.world.tick, !.slot = f, !.flip = FALSE, !.final = FALSE,
                     !.due = @ + SavePeriod]
  IN IF ~SaveDue(s) THEN s
     ELSE IF outcome = "ok"
     THEN [t EXCEPT !.files[f] = s.world,
                    !.points[f] = [tick |-> s.world.tick, waits |-> s.waits]]
     ELSE IF outcome = "kept" THEN t
     ELSE [t EXCEPT !.files[f] = NoSave]

\* beforeWorldTick
Prepared(s) ==
  [s EXCEPT !.waits = BeforeTick(s.waits, s.world.tick),
            !.world.mode = ModeBeforeTick(s.waits, s.world.mode, s.world.tick)]

\* What a script does with the camera.  `veto' is what this player's own use of the
\* camera would answer to a path.
Scripted(s, script, veto) ==
  LET after == LoadedMode(s.waits, s.world.mode, veto)
  IN CASE script.kind = "none" -> s
       [] script.kind = "move" ->
            [s EXCEPT !.waits = Moved(s.waits, s.world.tick, script.ms)]
       [] script.kind = "path" ->
            [s EXCEPT !.waits = Loaded(s.waits, s.world.mode, after, s.world.tick,
                                       script.points),
                      !.world.mode = after]

\* v_tick: scripts run, and the tick goes up.
Ticked(s, c, outcome, script, veto) ==
  [Scripted(Prepared(Saved(Checked(s, c), outcome)), script, veto)
     EXCEPT !.world.tick = @ + 1]

-----------------------------------------------------------------------------
(* A resync *)

\* The tick of the report, the peer's own where the packet holds none.
Since(s, c) == IF c.since = NoReport THEN s.world.tick ELSE c.since

\* Mutant: a peer goes by the tick of its own check.
Chosen_own(s, c) ==
  LET since == IF s.out THEN s.since ELSE s.world.tick
      flip == s.flip \/ s.saved >= since
  IN [s EXCEPT !.since = since, !.flip = flip, !.final = @ \/ flip,
               !.slot = IF flip THEN 1 - @ ELSE @]

\* Mutant: a save made at the tick of the report counts as one from before.
Chosen_strict(s, c) ==
  LET flip == s.flip \/ s.saved > Since(s, c)
  IN [s EXCEPT !.since = Since(s, c), !.flip = flip, !.final = @ \/ flip,
               !.slot = IF flip THEN 1 - @ ELSE @]

\* Mutant: the last save is trusted whenever it was made.
Chosen_latest(s, c) ==
  [s EXCEPT !.since = Since(s, c), !.final = @ \/ s.flip,
            !.slot = IF s.flip THEN 1 - @ ELSE @]

\* Mutant: the older save is never the last resort.
Chosen_forever(s, c) ==
  LET flip == s.flip \/ s.saved >= Since(s, c)
  IN [s EXCEPT !.since = Since(s, c), !.flip = flip,
               !.slot = IF flip THEN 1 - @ ELSE @]

\* The last save is not trusted if it was made after the first report, or has been
\* reloaded since; then the older one is, once.
Chosen(s, c) ==
  LET flip == s.flip \/ s.saved >= Since(s, c)
  IN [s EXCEPT !.since = Since(s, c), !.flip = flip, !.final = @ \/ flip,
               !.slot = IF flip THEN 1 - @ ELSE @]

\* Mutant: the waits are left as they are.
Restored_world(s) ==
  LET w == s.files[s.slot]
      k == s.points[s.slot]
  IN IF w = NoSave THEN [s EXCEPT !.state = "over"]
     ELSE IF k = NoSave \/ k.tick # w.tick THEN [s EXCEPT !.state = "aborted"]
     ELSE [s EXCEPT !.world = w, !.out = FALSE, !.since = 0,
                    !.saved = w.tick, !.flip = TRUE, !.due = w.tick + SavePeriod]

\* v_f2C_loadFromFile, restoreResyncCheckpoint and the reset of the flags.
Restored(s) ==
  LET w == s.files[s.slot]
      k == s.points[s.slot]
  IN IF w = NoSave THEN [s EXCEPT !.state = "over"]
     ELSE IF k = NoSave \/ k.tick # w.tick \/ (k.waits.path.active /\ ~k.waits.path.tracked)
     THEN [s EXCEPT !.state = "aborted"]
     ELSE [s EXCEPT !.world = w, !.waits = k.waits, !.out = FALSE, !.since = 0,
                    !.saved = w.tick, !.flip = TRUE, !.due = w.tick + SavePeriod]

Resynced(s, c) ==
  IF s.final
  THEN [s EXCEPT !.since = Since(s, c), !.flip = @ \/ s.saved >= Since(s, c),
                 !.state = "over"]
  ELSE Restored(Chosen(s, c))

-----------------------------------------------------------------------------
(* Steps *)

Playing == \A p \in Peer : session[p].state = "play"

\* What was under way when the host called for a resync is discarded
\* (v_syncGameTickInit, clickList.reset): reports, and packets after it.
Resyncing == \E i \in DOMAIN stream : stream[i].kind = "resync"

\* The host has processed all it has sent.
Send(c) ==
  /\ Playing /\ ~Resyncing
  /\ at[Host] = Len(stream) /\ Len(stream) < MaxAhead
  /\ stream' = Append(stream, c)

\* p's world is not the host's, right after the same packet.
Astray(p) ==
  at[p] = at[Host] /\ (session[p].world.wrong \/ session[p].world.tick # session[Host].world.tick)

\* Bound: the last tick is MaxTick, but a world that is astray by then is still found
\* out by packets with a checksum.
TicksLeft(check) ==
  session[Host].world.tick < MaxTick \/ (check /\ \E p \in Peer : Astray(p))

\* The next tick.  A resync is not put off for long.
OrderTick(c) ==
  /\ c.tick = session[Host].world.tick /\ TicksLeft(c.check)
  /\ waited < Prompt
  /\ Send(c)
  /\ waited' = IF reported = {} THEN 0 ELSE waited + 1
  /\ UNCHANGED <<at, session, reported, truth, odd>>

OrderResync(c) ==
  /\ reported # {}
  /\ c.since \in reported \cup {NoReport}
  /\ Send(c)
  /\ reported' = {}
  /\ waited' = 0
  /\ UNCHANGED <<at, session, truth, odd>>

\* p reports again with every packet it processes while it is out of step.
Reports(p) == IF session[p].out /\ ~Resyncing THEN {session[p].since} ELSE {}

\* p has processed its next packet; what all have processed is forgotten.
Proceed(p) ==
  LET on == [at EXCEPT ![p] = @ + 1]
      all == \A q \in Peer : on[q] > 0
  IN /\ at' = IF all THEN [q \in Peer |-> on[q] - 1] ELSE on
     /\ stream' = IF all THEN Tail(stream) ELSE stream

ProcessTick(p, c) ==
  /\ c.kind = "tick"
  /\ \E outcome \in IF p \in Failing THEN {"ok", "kept", "lost"} ELSE {"ok"},
        script \in IF session[p].world.wrong THEN Scripts ELSE {c.script},
        veto \in IF c.script.kind = "path" THEN BOOLEAN ELSE {FALSE} :
       LET s == session[p]
           failed == SaveDue(s) /\ outcome # "ok"
       IN /\ session' = [session EXCEPT ![p] = Ticked(s, c, outcome, script, veto)]
          /\ truth' = IF SaveDue(s) /\ outcome = "ok"
                      THEN [truth EXCEPT ![p][1 - s.slot] = s.waits] ELSE truth
          /\ odd' = IF failed THEN odd \cup {p} ELSE odd
  /\ reported' = reported \cup Reports(p)
  /\ UNCHANGED waited

ProcessResync(p, c) ==
  /\ c.kind = "resync"
  /\ session' = [session EXCEPT ![p] = Resynced(session[p], c)]
  /\ UNCHANGED <<reported, waited, truth, odd>>

Process(p) ==
  /\ at[p] < Len(stream)
  /\ session[p].state = "play"
  /\ Proceed(p)
  /\ LET c == stream[at[p] + 1] IN ProcessTick(p, c) \/ ProcessResync(p, c)

\* p's world goes wrong.  Bound: by the third tick before the last.
Diverge(p) ==
  /\ p \in Diverging /\ session[p].state = "play" /\ ~session[p].world.wrong
  /\ session[p].world.tick + 3 < MaxTick
  /\ session' = [session EXCEPT ![p].world.wrong = TRUE]
  /\ UNCHANGED <<stream, at, reported, waited, truth, odd>>

\* The player, or the end of the rendering, takes the camera off the path: past
\* Playback::complete, or straight by a change of mode.
LeavePath(p) ==
  /\ session[p].world.mode = "path"
  /\ \E mode \in {Completed(session[p].waits, "path"), "own"} :
       session' = [session EXCEPT ![p].world.mode = mode]
  /\ UNCHANGED <<stream, at, reported, waited, truth, odd>>

TickPackets ==
  [kind : {"tick"}, script : Scripts, check : Checks, tick : {session[Host].world.tick}]
ResyncPackets == [kind : {"resync"}, since : reported \cup {NoReport}]

HostSends ==
  \/ \E c \in TickPackets : OrderTick(c)
  \/ \E c \in ResyncPackets : OrderResync(c)

Next ==
  \/ HostSends
  \/ \E p \in Peer : Process(p) \/ Diverge(p) \/ LeavePath(p)

Spec == Init /\ [][Next]_vars

\* When the host can send: a tick if it may put a resync off, else the resync.
CanSend ==
  /\ Playing /\ ~Resyncing /\ at[Host] = Len(stream) /\ Len(stream) < MaxAhead
  /\ reported # {} \/ ((\E check \in Checks : TicksLeft(check)) /\ waited < Prompt)

CanProcess(p) == at[p] < Len(stream) /\ session[p].state = "play"

\* Fairness: the host goes on sending, and every peer goes on processing (weak fairness
\* of both, with ENABLED spelled out, which TLC checks far faster than WF).  Nothing is
\* assumed of when packets carry a checksum (see Checks).
Fairness ==
  /\ []<>~CanSend \/ []<><<HostSends>>_vars
  /\ \A p \in Peer : []<>~CanProcess(p) \/ []<><<Process(p)>>_vars

FairSpec == Spec /\ Fairness
-----------------------------------------------------------------------------
(* Properties *)

\* The variables have their types, tables of saves among them.
TypeOK ==
  /\ stream \in Seq(Packet)
  /\ at \in [Peer -> Nat]
  /\ session \in [Peer -> Session]
  /\ reported \subseteq Nat
  /\ waited \in Nat
  /\ truth \in [Peer -> [Slot -> Waits]]
  /\ odd \subseteq Peer

\* What decides which file is written or read next, and when.
Rota(s) == <<s.world.tick, s.slot, s.flip, s.final, s.saved, s.due, s.state>>

\* Peers that have processed the same packets are at the same tick and take and reload
\* the same saves, whether their worlds are right or wrong: each chooses for itself,
\* from its own flags, and nobody tells it what the others have chosen.
SameSave ==
  \A p, q \in Peer \ odd : at[p] = at[q] => Rota(session[p]) = Rota(session[q])

\* Every file that can be reloaded has its checkpoint, which holds the waits of the
\* world at that moment ("Copy only after the matching native world save succeeds"):
\* a reload never aborts, and waits go on where the world does.
CheckpointMatches ==
  \A p \in Peer :
    /\ session[p].state # "aborted"
    /\ \A f \in Slot : session[p].files[f] # NoSave =>
         session[p].points[f] = [tick |-> session[p].files[f].tick, waits |-> truth[p][f]]

\* Scripts hear the same of the camera in every world that is right, whatever each
\* player's own camera does: condition 72 depends on the packets alone, also across
\* a reload.
WaitsAgree ==
  \A p, q \in Peer \ odd :
    (at[p] = at[q] /\ ~session[p].world.wrong /\ ~session[q].world.wrong
       /\ session[p].state = "play")
      => CameraDone(session[p].waits, session[p].world.mode)
           = CameraDone(session[q].waits, session[q].world.mode)

\* p carries out a resync in this step.
Reloading(p) ==
  /\ at[p] < Len(stream) /\ stream[at[p] + 1].kind = "resync"
  /\ <<at, stream>>' # <<at, stream>> /\ session'[p] # session[p]

\* The first reload after a report brings back a world from before it, if there is one
\* to bring back and no save was lost: a save made at the tick of the report, or later,
\* may hold the fault.  Of a resync whose packet holds no report this says only that the
\* clock goes back: a save made after the fault may be taken.
ReloadsEarlier ==
  [][\A p \in Peer \ odd :
       LET s == session[p]
           t == session'[p]
           since == Since(s, stream[at[p] + 1])
       IN (/\ Reloading(p) /\ t.state = "play" /\ ~s.flip
           /\ \E f \in Slot : s.points[f] # NoSave /\ s.points[f].tick < since)
            => t.world.tick < since]_vars

\* While no save was lost, a reload goes back to before the last tick but one: what is
\* not in the saves and takes the tick before it as seen (the ending of GemEnding) can
\* tell a reload by the clock going back.  A resync whose packet holds no report is
\* excused: it may bring back a world saved a tick ago.
ReloadsFarBack ==
  [][\A p \in Peer :
       (/\ odd = {} /\ Reloading(p) /\ session'[p].state = "play"
        /\ stream[at[p] + 1].since # NoReport)
         => session'[p].world.tick < session[p].world.tick - 1]_vars

\* A reload puts the waits, too, back as they were when the world was saved.
ReloadsWaits ==
  [][\A p \in Peer :
       LET t == session'[p]
       IN Reloading(p) /\ t.state # "over"
            => t.world = t.files[t.slot] /\ t.waits = truth[p][t.slot]]_vars

\* If every packet carries a checksum, a world that has gone astray is put right by a
\* reload in the end, or the session is over: peers never reload bad saves for ever.
Recovers ==
  [](\A i \in DOMAIN stream : stream[i].kind = "tick" => stream[i].check)
    => \A p \in Peer \ {Host} :
         Astray(p) ~> (at[p] = at[Host] /\ ~Astray(p)) \/ ~Playing
=============================================================================
