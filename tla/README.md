# Verification of dk2-coop

TLA+ modules, TLC configurations and machine-checked proofs for ciphercom/dk2-coop,
a modification of Dungeon Keeper 2 that lets two players share one Keeper through the
campaign.  Paths are relative to the repository's `src/` directory, so
`weanetr_dll/BullfrogNET.cpp` is `src/src/weanetr_dll/BullfrogNET.cpp` in
`PROJECT.json`; line numbers are in `PROJECT.json`, under `map`, for every definition.

Contents: [the system](#the-system), [modules](#modules),
[how the models follow the code](#how-the-models-follow-the-code), [runs](#runs),
[fairness](#fairness), [proofs](#proofs), [what the models say of the
code](#what-the-models-say-of-the-code), [what is not modelled](#what-is-not-modelled),
[plan](#plan).

## The system

The program is a library loaded into the game's process: recovered functions of the
original binary, a rewritten network library (`weanetr_dll`), and patches that make a
session co-operative.  Every player runs the whole game.  A *session* has a host and
clients; the game is *lockstep*: all processes apply the same player actions at the same
tick, and compare checksums.  In a co-op session two *Controllers* play one Keeper, so
state that the original game has once per player (the hand, the camera, a possession) has
to be told apart, in the same way in every process.

| Component | State it keeps | Operations | Hard about it | Correct if |
|---|---|---|---|---|
| **System messages** host to clients: `NetworkServiceProvider.cpp`, `BullfrogNET.cpp` | host: player list, a number per slot, table of 50 packets, overflow queue; client: next number, list of messages to handle, its player list | join, leave, kick; schedule Create/Leave/List; deliver thread; acknowledge; receive; handle | three host threads that give up `dataLock`; a network that loses, repeats, reorders; slots reused | every client handles what was scheduled for it, in order and once, and ends with the host's list |
| **Guaranteed messages** between players: same files | per node: a header per message with a packet per destination, stored messages, two counts per slot | send; resend pass; store and answer; hand over; progress; relay through the host; player removed; session ended | listen and deliver thread meet over a queue with the lock free; blocks, duplicates; slots reused | messages handed over in the sender's order, once; the sender is told its fate, once |
| **Session**: `BullfrogNET.cpp`, `session_discovery.h` | session description, flags, handles of threads, player list and count | create, enumerate, join, leave, kick, host migration | three threads change the list and the count, not always under `dataLock`; a take-over in two halves with a call of the game in between; joins that arrive late | one open host; an id names one player; lists and counts agree; everyone comes to follow the next host |
| **Lockstep**: `dk2/WeaNetR.cpp`, `dk2/CNetworkCommunication.cpp` | ring of 0x60 ticks of actions, history of the host, times of the last packet of each player | send, collect, resend missing actions, drop silent players, wait for all before a resynchronisation, upload of a map | ring and history at their limit; a timeout racing a late answer | all processes apply the same actions at each tick; nobody is dropped for what can still be answered |
| **Resynchronisation**: `dk2/MyGameSession.cpp` | two rolling saves, which of them is the last, flags about them, whether this process is out of sync and since when | check, report, save every 30 s, reload, give up | every process chooses the save for itself; a save can fail, or hold the fault | all reload the same save, made before the fault; the session does not reload for ever |
| **Scripted cameras**: `patches/scripted_camera_*` | ticks left of movements and rotations, the path being played and its last tick, two checkpoints | move, play a path, condition 72, take the camera off the path, before each tick, save, restore | the camera is local and the script's wait is shared | scripts hear the same everywhere, also after a reload |
| **Shared hand**: `patches/network_hands.*`, `dk2/entities/CPlayer.cpp` | native stack of at most 64 things, an owner per thing, the action under way | pick up (delayed or at once), drop, batch, scripted pickup, save, load | a delayed pickup completes while another Controller's command is dispatched; a drop takes from the inside of a stack that only pops | each Controller has a hand of its own |
| **Possession**: `patches/network_possession.*` | origin of the shots in flight, the creature this process presents | shot, enter, leave, reload | the shot arrives later than the command; a path puts off what the camera is asked for; a reload clears origins | the Controller who cast presents the possession and only it; no camera returns to a creature that is gone |
| **Gem ending**: `patches/network_gem_ending*` | the winner, attempted, complete, last tick | Keeper's status changes, tick, reload | re-entrant transition; a rewound tick | one ending, the same for both Controllers |
| **Campaign menu and progress**: `patches/coop_campaign*` | selected mission, route | select, start, return, save progress | host and client differ | only the host writes progress |
| **Hand preview**: `dk2/CDefaultPlayerInterface.cpp` | list of things the process asked for | push, drop, discard | local list against the shared hand | dropping takes what was shown |

The rest (rendering, windows, input, heap and resolution patches, computer player,
recovered single functions of the binary, DirectPlay facade, sockets, build tools and the
vendored libraries) has no state of its own that could go wrong between processes; each is
in `PROJECT.json` with the reason for leaving it out.

How the components interact: actions of Lockstep travel as datagrams or guaranteed
messages; who is joined comes from the system messages (both kinds of channel start their
counts at that moment); Resynchronisation reloads the world with the hand in it and puts
the waits of scripted cameras back; Possession and the hand exclude each other.
`GuaranteedDelivery` has the joins and leaves of `SystemChannel` in it as arriving "at any
later time"; `Session` takes from it that the messages of a host are handled in order, and
adds NewHost; `Lockstep` is where the one stream of commands comes from that `SharedHand`
and `Resync` start with; `Resync` uses `ScriptedWaits` as part of the state of a peer;
`SharedHand`, `GemEnding` and `Possession` have the same reload, reduced to what they keep,
and `GemEnding` rests on `ReloadsFarBack` of `Resync`: it knows a reload by the clock going
back, which a resync whose packet holds no report need not do far enough.

## Modules

| Module | Role |
|---|---|
| `OrderedDelivery` | abstract: every receiver gets what was sent to it, in order and once, until its channel breaks |
| `HandleList` | pure: `f257_toHandleList` of a client, insertion and popping as in the code |
| `SystemChannel` | system messages: host, network, clients; extends `HandleList`, refines `OrderedDelivery` |
| `GuaranteedDelivery` | guaranteed messages; refines `OrderedDelivery` per pair of players |
| `SeparateHands` | abstract: a hand of its own for every Controller |
| `KeeperHand` | pure: the hand of one process, as functions from world to world |
| `SharedHand` | every process applies one stream of commands to its `KeeperHand`; refines `SeparateHands` |
| `ScriptedWaits` | pure: durations, budgets of ticks and the shared path of scripted cameras |
| `Resync` | `MyGameSession::tick` of all peers: checks, saves, reloads; extends `ScriptedWaits` |
| `Session` | who is in a session and who is its host, on every machine |
| `Lockstep` | ticks of actions from the host to its clients; refines `OrderedDelivery` |
| `GemEnding` | the ending of a co-op mission, on every peer |
| `Possession` | whose camera a possession takes |
| `MC*` | model values, small sets and symmetry for TLC; `MCCoopSession` checks `GemEnding` and `Possession` in one run, a behaviour being of one or the other |
| `SystemChannel_proofs`, `GuaranteedDelivery_proofs`, `SharedHand_proofs`, `Resync_proofs`, `CoopSession_proofs`, `Session_proofs`, `Lockstep_proofs` | theorems about each component and the pure module it extends; `CoopSession_proofs` is about the two that `MCCoopSession` puts together |
| `LeastElement_proofs` | the least element of a set of naturals, for the `CHOOSE` of four components |

An operator with an underscore and a word after the name of another one
(`Ready_any`, `Restored_world`) is that operator with a plausible bug in it; it is used
nowhere in the specifications.  Substituted for the correct one it breaks the property
that `PROJECT.json` names under `mutants`.

## How the models follow the code

**SystemChannel.**  `list`, `nextId`, `inflight` and `overflow` are the host's
`f24_playerList`, `f5A_ackPacketCount_perPlayerSlot`, `f26F_packetSendToAllArr` and
`f337_packetSendQueue`; `next`, `queue`, `freed` and `view` are a client's
`f15E_nextAckIdx`, `f257_toHandleList` as far as it can be reached, whether `first` points
at a freed entry, and its player list.  `Join` is `handlePacket_7_JoinPlayer`; `Remove` and
`ScheduleLeave` are the two halves of `handlePacket_A_DestroyPlayer` (thread `listen`) and
`destroyPlayer` (thread `game`), which give up the lock in between; `Deliver` is one wake-up
of `SendDeliverThread`, which sends any part of the packets whose time it may be and drops
any whose 60 seconds may be over; `wakes` is whether the thread has an event to wake for or
its last wake-up chose a sleeping time that ends, which it does not if it found the table
full and dropped all of it: the overflow queue was refilled from before; `HandleAck`, `Receive` and `Handle` are `handlePacket_C`,
`handlePacket_1_2_9_B_E` and `processSPMessages`.  The network is a set: what is in it may
be received any number of times, in any order, or never.  What the code does and one might
not expect is in the model as it is: the inverted test of `prev` in the insertion, the pop
that leaves `first` at a freed entry (`HandleFreed`: whatever the memory may hold by
then), the acknowledgement that always also acknowledges number 0, the overflow queue that
a removed player leaves behind.

**GuaranteedDelivery.**  Each node has a listen thread and a deliver thread.  A step of a
thread is what it does between taking `dataLock` and giving it up: `Pass` is one pass of
`processDeliverHeaders` up to the call of the game, `Told` what either thread does when
the game returns; `ReceiveData` is `handlePacket_D_locked` up to the loop that hands
messages over, `HandOver` and `HandedOver` are the two halves of a round of that loop,
before and after the call of the game; `ReceiveProgress` is `handlePacket_10` with
`handlePacket_10_handleData`.  Both packets are passed on by the host when it is not their
destination.  `HostRemoves`, `Forget`, `EndSession`, `Join` and `Learn` are the changes of
the player list that reset counts or free queues.  A node that uses freed memory is put in
`corrupt` and not followed any further.

**KeeperHand, SharedHand.**  A world is the native stack, the table of owners, the action
under way, the possessed creature and the last save; `Applied(world, command)` is what one
command does to it: `Picked` is `doPlayerAction` of a pickup, `TakeThing` the hook of
`takeThingInHand`, `DropThing` that of `act4_dropThingFromHand` with
`Ownership::promote`, `Saved` and `Restored` the save hook.  What native code decides (is
the action under way completed first, may the thing be dropped there) is carried by the
command: the same in every world that agrees.  `Order` puts a command into the one
stream, `Apply(p)` lets process `p` apply its next one, `Diverge` spoils the table of
owners of a process, which a reload has to put right.

**ScriptedWaits, Resync.**  `Session` is what `MyGameSession` keeps (`slot` is `f290`,
`flip` is `f296`, `final` is `f29A`, `saved` is `gameTick28C`, `due` is `saveTick288`,
`out` is `isOutOfSync`, `since` is `gameTick2A2`) with the files of the two slots, the
checkpoints of the waits, and the waits.  A peer processes packets of the host:
`ProcessTick` is the part of `MyGameSession::tick` that checks, reports, saves, counts the
waits, runs scripts and advances the world; `ProcessResync` is the choice of a slot, the
reload and the restoring of the checkpoint.  A world is its tick, whether it is wrong, and
the mode of its camera.  The host may resynchronise as soon as a report has been made and
does so within `Prompt` packets: the rule itself is in the binary, and so is whether the
packet that says so holds a report (action 117).  If it holds none (`NoReport`), each peer
goes by the tick it is at (`Since`), as `MyGameSession.cpp:100` has it.

**Session.**  Per player: `st` (where it is in joining, playing and leaving), `me`
(`f8_playerId_slot` and the number with it), `host` and `closed` (flags of the session),
`list`, `count` (`currentPlayers`) and `last` (the last number given out).  The handlers
are split where the code gives up `dataLock` or never had it: `Remove` and `Schedule` are
the halves of a removal, by the reader (`handlePacket_A_DestroyPlayer`) or the game's thread
(`destroyPlayer`), kept apart per thread in `pend`.  `DestroyPlayer` tests `isHost` twice,
first with `dataLock` (:941) and then without it (:953), and the reader may make the
machine the host in between: `CloseSession` is the first test on a host, which closes the
session and keeps its flags (`kept`), `StartLeaving` the first test on a client, which does
neither, and `TestAgain` the second one, from where whoever is the host by then goes on as
one.  `AskToLeave` is the rest of it on a client, `ReadCount` and `HandOver` on a host, the
first of them without the lock, `tmp` being the count it has read.  `TakeOver` and
`Proclaim` are the halves of the case of MigrateHost in `handleNotLobbyPacket` (:1821)
before and after the game is told, `half` the message it is busy with.  `migrates` is the
flag of a session that outlives its host, which a MigrateHost brings from `kept`, so that a
session handed over without its flags ends with the next host; `off` are the players whose
flag of being connected a Leave of their own id has cleared.  `Admit`,
`AnswerAgain` and `Connect` are a join, its answer sent again and the answer arriving.
Numbered messages of host `h` for `p` are the sequence `log[h][p]`, of which `next[p]` are
handled: `HandleCreate`, `HandleList`, `HandleLeave`, `HandleNewHost` are the cases of
`processSPMessages`.  `HandleNewHost` may come up to `MaxRepeats` times more, since every
receipt of it is taken.  `took` is the host that each host took over from, which tells a
client that follows it whether it has the same past.  `again` is `v24_handleMessage` with its slot, which outlives a
round of the loop.

**Lockstep.**  `ordered` is what the host has given out, of which it keeps the last
`History` ticks; a client has `queue` (items it received, each a tick, or a run of idle
ticks), `ring` (contexts by the remainder of their tick), `start` (the next tick to apply)
and `high` (the highest it knows of).  `Collect` is one whole pass of the function that
drains the queue into the ring, applies a tick if it is there, and asks for the ticks up to
the first one it has, otherwise; `Poll` is the question of a client that hears nothing;
`Resend` is the host's answer, or the dropping of the player if the history does not have
the tick; `Silence` are the timeouts of both sides; `BeginSync`, `Pong`, `ReceivePong`,
`EndSync` the wait for everybody before a resynchronisation.

**GemEnding.**  A world has what is saved (statuses, the creature's phase and wait, the
deadline of the fireworks), and `ending` is class `Ending`, which is not.  `Transition` is
`CPlayer::fun_4BE630` with at most one call of itself inside the native body; `Observed` is
`beforeWorldTick`, `Walked` the creature's states, `Waiting` what withholds the prompt.  A
tick and a reload are steps of all peers; the player's own camera answers differently in
each.

**Possession.**  `origin` is `shotOrigins_`, `owned` is `creature_`; `releasePending_` is
set and taken back within `EndTick` (`afterWorldTick`).  A camera is its mode, the view
saved by the path it plays and the one put off until its end (`camera+ED2`, `fDB0`).
Actions of a tick come in any order (`Cast`, `CastOther`, `Lose`, `Arrive`, `Leave`,
`PlayPath`), `EndTick` ends it; between ticks a path may finish, and the world is saved or
reloaded.  Action 21 (leave) names nobody, so that one that is late ends the possession of
whoever has one by then.

## Runs

| Run | Instance | Shows |
|---|---|---|
| `system_delivery` | 2 clients, 2 slots, a table of 2 packets, 2 copies of a number; either may be kicked, one may leave | `AgreesWhenCaughtUp`, `LostOnlyIfExcused` through every order of joins, kicks and leaves by both threads; `CatchesUp` over a fair-lossy network; refinement of `OrderedDelivery` |
| `system_reuse` | 3 clients, 2 slots, a table of one packet, kicks | `InOrder` where a slot is reused while the overflow queue still has messages of its last player |
| `guaranteed_leave` | host sends 2 messages to one or both of 2 clients, one of which goes | nothing is counted as received that was not, no header is forgotten; order per pair is `OrderedDelivery` |
| `guaranteed_relay` | 3 clients, one of which sends a message of 1 or 2 blocks through the host, is removed, and its slot is taken by the third | `CountsAgree`: counts start again with the slot; messages of those who stay get through, and their fate is told |
| `guaranteed_told` | as `guaranteed_leave` | expected violation: one message reported as failed and as a success |
| `hand_pickups` | 2 Controllers, 3 things, stack of 3, all commands but saves | owners asked for what they hold, the possessed creature stays out, refinement of `SeparateHands` |
| `hand_resync` | 2 peers, 2 things, saves and reloads, one peer goes wrong | peers in step, also after a reload, which brings the hands back to where they were saved |
| `resync_saves` | 2 peers, a save every 3 ticks, 14 ticks, failing saves, 2 packets apart | all peers take and reload the same save, files match their checkpoints, the first reload goes back to before the report, every one for a report to before the last tick but one; if every packet is checked, a world that went wrong is put right or the session ends |
| `resync_camera` | 2 peers, a movement and a path, a save every 2 ticks, 5 ticks | scripts hear the same in every right world; a reload puts the waits back |
| `session` | 3 players, 3 slots, lists of 2 players a packet, 2 admitted besides the first; two may leave, the first host may kick, one may give up joining, each NewHost may come once more | ids are unique, counts and lists agree, one host is open, nobody is told twice, the others come to follow the next host |
| `lockstep` | a client, a ring of 2 ticks, a history of 2, 3 ticks of two kinds of action, one wait for all | the same ticks in order (refinement of `OrderedDelivery`), dropping only for what is gone, catching up, `AllCome` |
| `coop_session` | 2 peers, 2 Keepers, 8 ticks, each kind of ending; apart from it 2 Controllers, 2 creatures, 2 tags, 3 casts | one ending, known to every peer, and a prompt that comes; one Controller presents a possession, the one who cast, and no camera returns to a creature that is gone |

Each hazard in `PROJECT.json` names the properties that would fail if the code got it
wrong.

Why the bounds are enough.  Two clients are the least that have a relation through the
host (each is told of the other; messages are relayed), and a third is there where a slot
has to change hands while somebody else is in the session.  Two messages are the least that
can be out of order, two copies of a number the least for a duplicate in a sorted list, a
table of one entry makes the overflow queue as busy as a table of 50 with 51 messages
does.  The table of two in `system_delivery` is full after the list and one more message.  The hand needs three entries to have an inside that keeps its order when one of
them is taken out.  A resynchronisation needs the two slots to be used in both roles twice:
four saves, of three ticks each; a world that is astray at the last tick has some more to
be found out.  The 2.6 million states of `resync_camera` have a path that starts, is left,
is reloaded in the middle and ends within five ticks at four ticks a second.  A session of three is the least in which a host goes and of the two who stay one takes
over and one follows; a list of two players a packet then needs two packets.  With two that
may leave, the first host hands over to a machine that is between its own two tests.  A ring of two
ticks is passed by a client that is three behind, a history of two by one that asks for the
first of three.  A tick of the ending has any change of a Keeper's status with any change
of the other within it, until tick 2, which leaves time for both endings to run out before
tick 8, with reloads in between.  Three casts are two that are under way together and one
that uses a tag again.
The bounds on sets of players that may leave, be kicked, go wrong or lose
saves only name who does; which of two alike ones it is makes no difference.  The
theorems below have none of these bounds.

Deadlock is not checked: all these systems may stop, when all players have gone or the last
tick of the bound is reached.

## Fairness

Safety runs use `Spec`.  `FairSpec` adds, and the code justifies:

- `SystemChannel`: the deliver thread wakes while there are packets in the table (it sleeps
  at most 500 ms then) and after each join or leave that is scheduled; once it sleeps
  without end nothing is assumed of what waits in the overflow queue, and `CatchesUp` has
  that as an outcome (`Starved`), a hazard the code has (lines 200 to 217).  Clients finish
  joining and handle what is ready, and the network is fair-lossy: strong fairness of
  receiving the message a client waits for, which is sent again and again.
  Acknowledgements get through too, and a packet nobody can answer is dropped when its 60
  seconds are over: either would keep its place in the table for ever.  Nothing else is
  assumed of players who come and go, or of the 60 seconds.
- `GuaranteedDelivery`: the threads of each node run, calls of the game return, system
  messages arrive, and a packet that is resent for as long as it is outstanding gets
  through, as does its answer.  A deliver thread that has found nothing to wait for is
  *not* assumed to wake: the properties have `Sleeps` as an outcome, which is a hazard
  the code has (line 1423).
- `Resync`: the host goes on sending, with a resync when it may not put it off, and peers
  go on processing.  `Recovers` assumes that every packet has a checksum, and
  that the resync comes within `Prompt` packets of the report, which with the check, the
  report and `MaxAhead` packets before it are fewer than there are between two saves: if
  there were a save in between each time it would reset the flags, and a fault that is saved
  would be reloaded without an end.  Saves are 30 seconds apart.
- `Session`: MigrateHost is sent for 4 seconds and NewHost for 60, so one of them arrives
  and is taken; a game that is told of a change of the host returns.  Of joins, kicks and
  leaves nothing is assumed.
- `Lockstep`: games go on collecting; a question that is asked again and again gets
  through, and so does one of the answers.  Nothing is assumed of the first sending of a
  tick.
- `GemEnding`: ticks go on, and the player's own animation goes on to its end.  The
  prompt needs no more, but that no reload undoes the ending.

Where an action is large, weak fairness of it is written with its guard in the place of
`ENABLED` (`[]<>~CanSend \/ []<><<HostSends>>_vars`): the same formula as long as the guard
is exact, and far quicker to check.

## Proofs

Proved for all values of the constants under the named `ASSUME`s of each module:

- `SystemChannel_proofs`: `InsertEntries` and `PoppedEntries` (what `Insert` and `Popped`
  of `HandleList` return is made of entries of the list and the new one, also where the
  inverted test cuts the list), `Types` (`[]TypeOK`), `Order` (`[]InOrder`), `Implements`
  (`Spec => ImplementsOrderedDelivery`).  `InOrder` is not inductive: it says nothing of
  the messages that are on their way.  `IInv` adds that every copy of a number, in the
  table, the overflow queue, the network and the client's list, has the body that `log` has
  under that number (`HeldMatch`, `NetMatch`, `QueueMatch`), that the number of a joined
  player's slot is the length of its log (`Numbers`), that a player is in one slot
  (`Members`), and that nobody is sent his own leave in order (`NoOwnLeave`).  The
  hypothesis that a client's slot had no messages of its last player when it joined is
  what `tainted` records.  `NothingLost` (`[]LostOnlyIfExcused`) adds that whoever
  acknowledged a number has it (`AckGot`), and follows a number from the table over the
  overflow queue to the client's list (`NotLost`).  `Agreement` (`[]AgreesWhenCaughtUp`)
  rests on `Courses`: what the messages in the log of a client make of a player list, one
  after the other, ends at the host's list but for players that are removed and whose leave
  is not scheduled yet, and the client is at the place of that course which its next number
  names; with `Starts`, what it knows before the first.
- `GuaranteedDelivery_proofs`: `Types`, `CountsInStep` (`[]CountsAgree`), `Implements`
  (`Spec => ImplementsOrderedDelivery`), `HeldByReceivers` (`[]ReceivedIsHeld`),
  `NoneForgotten` (`[]NothingForgotten`).  `CountsAgree` is about two players who count
  with each other, which can be false while one of them has not heard of the other yet, so
  that nothing follows from it for the next step.  `CountInv` says instead what holds
  of every two: who has *not met* (told of each other, or waiting, but not
  listed) has nothing of the other in any queue or call (`Meeting`, `Quiet`); what
  headers, packets and stored messages carry is what was sent under that number
  (`Sending`, `Storing`); each thread is in one call at a time (`Calling`); what was handed
  over is the beginning of what was sent and is held, the count is its length, and the
  message the game is busy with is still stored and next to be counted (`Counting`).  The
  two hypotheses left are what the code lacks: that no message of an earlier
  player of the slot was counted late (`skewed`) and that the node has not freed what it
  goes on using (`corrupt`).  `Telling` adds that a header that waits for nobody has a
  call of its own, or the two threads clash over one; `Answering`
  that the players a header counts as received are different ones, hold the message, and
  are not among those it waits for: a resent packet or a repeated answer counts nobody twice.
- `SharedHand_proofs`: `Types`, `PossessedIsFree`, `StayInStep`, `OwnersAsked`,
  `HandsAreSeparate` (`Spec => ImplementsSeparateHands`).  Three
  invariants on top of each other: `Shape` (a hand has nothing twice and fits, a save is as
  sound as a world), `Follow` (the world of a peer that has not gone wrong is *alike* the
  ideal one at the same place of the stream: equal but for owners of what is not held,
  and so is a sound save), `Asked` (the owner of whatever is held, saved or under
  way has asked for it).  The refinement assumes `Watched \notin Diverging`, as both
  configurations have it: what it says is about the commands, not about a table
  of owners that is overwritten from outside.  A hand is read off the stack by *listing*
  the places of its owner (`Listing`); a pickup lets every listing go on (`GrownExtends`), a
  drop takes the last place of one and shifts the others (`DroppedMine`, `DroppedElse`),
  since what `dropIndex` finds is the last of its owner (`DropIndexLast`).
- `Resync_proofs`: `DurationIsLeast` and `PathIsLeast` of `ScriptedWaits` (the integer
  arithmetic of ticks is the first tick that is not too early, and a path never takes
  none), `Types`, `Checkpoints` (`[]CheckpointMatches`: no reload aborts), `Reloads`
  (`ReloadsWaits`).  Their invariant `Inv` is that every session is `Good`: every file has
  the checkpoint of its moment, with the waits that were true then, and waits never hold an
  active path that is not tracked.
  `SameSaves` (`[]SameSave`), `ScriptsAgree` (`[]WaitsAgree`), `ReloadEarlier`
  (`ReloadsEarlier`) and `FarBack` (`ReloadsFarBack`, on which `GemEnding` rests) compare
  peers, or a peer with an earlier moment, and need more.  Peers do not talk to each other,
  so what they have in common is what the packets alone decide: the *course*, which is, at
  every place of the stream, the tick, the next slot and its flags, the waits of a right
  world, and whether and when each slot was saved (`OnCourse`).  `CourseInv` says that
  there is one course, of which every step is that of the packet there (`Runs`), that a
  peer that lost no save is where the course is at its own place of the stream (`Follows`),
  whatever its world is like, and that a report in the stream is from a tick before the one
  that the course is at by then, as is the last save (`Told`).  A resync without a report
  goes by the tick of the course itself (`CourseSince`): it may take a save of the tick
  before, which is why `ReloadsFarBack` excuses it and `ReloadsEarlier` says little of it.
- `CoopSession_proofs`, the ending: `Types`, `OneEnding` (`[]BeginsOnce`), `NoWinnerWithout`
  (`[]WinnerHasEnding`), `Knows` (`[]KnowsItsWorld`), `Agree` (`[]EndingsAgree`).  The
  invariant has a part about one peer (`Sound`) and one about two (`Twin`).  Of one: in the
  world and in the file an ending has begun, once, exactly if the shared Keeper has won
  (`GoodWorld`); and the object is right about the world (`Known`), or the world was
  reloaded and is earlier than the last tick the object saw (`Unseen`), so that the next
  tick resets it.  Of two: their worlds, files and objects are the same but for a creature
  nobody tracks.  Changes of status within each other are followed once, for `Transition`
  as a function, and cited from there.
- `Lockstep_proofs`: `Types`, `Same` (`[]SameTicks`), `Come` (`[]AllCome`), `Dropped`
  (`DroppedBehind`), `Implements` (`Spec => ImplementsOrderedDelivery`).  The invariant adds that everything on its way, in
  a queue or in a ring is what the host gave out under that tick, idle runs included
  (`NetSays`, `QueueSays`, `RingRight`, `HighKnown`), and that a client has gone on since
  it sent a pong (`PongsPast`).  `Dropped` adds that a question for more than one tick asks
  for ticks that were ordered (`QuestionsKnown`), and what the loop of an answer looks up:
  `Turn` is a recursive function, so `Iterates` shows first that there is one that takes
  these values, by the least length for which there would be none, and `TurnGrows` that
  it only goes forward.
- `CoopSession_proofs`, the possession: `PossessionTypes`, `One` (`[]OneAtATime`), `Returns`
  (`[]ReturnsToPossessed`), `ByCaster` (`[]CasterPresents`), under the assumption
  that Controllers, creatures and the values that stand for none are different,
  which `MCCoopSession` has TLC evaluate.  They are inductive only together, with three
  more: a camera shows or will return to no creature but the one its process owns
  (`ViewIsOwned`), between ticks a process owns no creature but the possessed one
  (`OwnsPossessed`), and the origin of a shot in flight is who cast it (`OriginIsCaster`).
- `Session_proofs`: `Types`, `Unique` (`[]IdsUnique`), `OneHost` (`[]OneOpenHost`), `Told`
  (`[]ToldOnce`), `Counted`, `Agreed`, and `PlayerListComplete`: the packets of a list hold
  every player as long as there are fewer slots than two full packets have entries
  (`RoomForAll`): nine with the five of the code, whose sessions have four.  As long as no machine went on as
  the host in `DestroyPlayer` that had begun to leave before its own take-over was through
  (`hasty`: between the two tests of `isHost`, or between the halves of the take-over), there is at all times one place that knows the last number: the host
  that is open, or, while a session is handed over, the one MigrateHost that is not taken
  yet, or the half of the take-over that is (`OneRight`); it is not less than any
  number given out (`KnowsLast`).  `HostStages` and `ClosedStages` say which stages of
  leaving and taking over exclude each other in one player.

  `ToldOnce` is about a game that several paths tell of the same id, so its invariant
  (`TellInv`) has to say where an id can still come from.  Every id in a list, a log or a
  packet was given out (`Known`).  As long as the host that a player asked acts, no other
  host knows that player, and a player follows the host it asked or one whose NewHost it
  took (`Following`); what a host shows in its log to one that neither asked nor follows it
  is new to that one (`Strangers`), so that changing the host brings nobody back.  In one log
  the Leave of an id is the last that is said of it (`LeaveIsLast`), and a host that acts
  lists nobody whose Leave it has sent (`HostForgets`), so that neither the rest of the log
  nor a list that is sent again brings anybody back.  An id that was taken from the list is
  with one thread, and not in the list (`PendGone`).  Hence who has left is not in the list,
  not with a thread and not in what is still to be handled (`GoneOnce`), and whatever tells
  the game takes the id from one of these.

  `Counted` (`[]CountAgrees`) and `Agreed` (`[]ListsAgree`) assume `RoomForAll` and excuse
  the same sessions, and their
  invariant is `ListInv`: `TellInv` with what can be said of where a host has its session from
  (`Origins`), and that there is an `F` with `Lineage(F)`.  A client that still has messages
  to handle has another list than its host, so the two are related by what these messages make
  of it: `Apply` is what one of them makes of a list and number that a client knows,
  `Leads(v, log, k, w)` that those after the first `k` make `w` of `v`.  `Leading` says that
  a client comes to know the list and number of its host, but for the lines that a thread of
  the host has freed and not told of yet (`Tells`).  Three kinds of player expect that of the
  log of a host: one that follows it, from what it knows by now; one that asked it, from its
  own line, with which it will connect, and for which the packets of a PlayerList must
  have room for all; and one in a list that the host took over, from what the last host had
  handed over.  That list is nobody's any more when it is needed, so `F` keeps it: in
  `Lineage`, a host that leads counts (`AllCount`) and is followed (`AllFollow`); between the
  halves of a take-over the list is what was handed over (`AllHalfway`); whatever else is
  still in the log of a host that handed over makes that list of what its clients know
  (`AllHand`); and who was not admitted by a host was in the list it took over, and has
  its NewHost as the first message (`AllInherit`).  `F` has to be a function of the host
  and not of the MigrateHost alone because a client may hear the NewHost long after the
  old host has gone.

No run repeats a type invariant that is proved, nor `SameTicks` and `BeginsOnce`, which
are proved and follow from what the runs do check (`ImplementsOrderedDelivery` and
`WinnerHasEnding`).

Every safety property that a run checks and that holds is stated by a theorem.  Only
model-checked is liveness
(`CatchesUp` of both modules, `GetsThrough`, `FateIsTold`, `Recovers`, `HostFollowed`,
`PromptComes`), which is out of the prover's reach, as is `ENABLED`.  What a
recursive definition computes for every input cannot be proved with the installed provers;
no module has one.

## What the models say of the code

One place disagrees with the code's own words (`findings` in `PROJECT.json`):
`NetworkServiceProvider.cpp:1503`, where the deliver thread tells the game that a message
failed while the header is still queued and the lock free; a progress packet that comes in
then makes the listen thread tell the same message as a "part success" and free the header,
which the deliver thread then frees again (`ToldOnce` of `GuaranteedDelivery`).

Other behaviour that the properties have to allow for, all in the models as the code has
it: messages that arrive out of order can unlink earlier ones from the client's list
(`NetworkServiceProvider.cpp:872`); a client can be `Stuck` behind the leave of a player it
never heard of (:792); an acknowledgement always acknowledges number 0 too (:894); messages
for the last player of a slot reach its next one (:697); every block of a chunk has the
number of the first, so that a message of more than 420 bytes never completes (:1467); a
header is left at the first packet whose player has gone, after which a thread may
sleep with packets outstanding (:1423); a message is counted after the call of the game
through a pointer to the player's slot, so that one of a player who was removed is counted
for the newcomer in its slot, whose first message is then answered as received and never
handed over (:1208; `skewed`); a wake-up of the deliver thread that finds the table of 50 full and drops
all of it leaves what is in the overflow queue there, and sleeps until the next join or
leave is scheduled (:205; `Starved`).

In `Session` (lines of `BullfrogNET.cpp` unless the provider is named):

- a next host that leaves between the halves of its take-over hands over the number 0 and
  then opens the session it has closed: ids are given out twice and two hosts admit players
  (:1859; `hasty`);
- so does a machine that begins to leave as a client and is made the host by its reader
  between the two tests of `isHost` (:941 and :953): it has not closed the session, goes on
  admitting players while it hands over, and hands over flags of 0, so that the session
  ends with the next host (`hasty` too: `IdsUnique`, `CountAgrees`, `ListsAgree`,
  `OneOpenHost` and `ToldOnce` are about sessions in which neither has happened, and may
  fail in the others);
- the leaving host counts without `dataLock`, so that the next one may start from a count
  that its list does not have (:955; `skewed`, as is who takes over, or follows, from a host
  whose state is not up to date);
- only the first player that is no host is asked to take over, and if it is gone nobody
  does (:961; `Lost`);
- a Join that is late, or was sent again, admits its player once more, as a member that
  nobody is (:1635);
- a Leave of somebody who is not in the list tells the game what the last Leave told
  (`NetworkServiceProvider.cpp:903`; `stray`), and a NewHost that is received again sets a
  client back and drops what it had listed (`NetworkServiceProvider.cpp:842`; `dropped`);
- a client that is kicked is not told, and finds out by silence alone (:2111).

In `Possession`: a shot that was saved has no caster after a reload, so that the possession
it brings is presented by nobody, and nobody can end it but the creature's death; a creature
that is left and possessed by the other Controller within one tick is presented by both
(`rushed`), since only its tag is compared after the tick.  In `GemEnding`: a world that was
saved with its ending under way has no object after a reload, and goes on by each player's
own camera (`orphan`).

## What is not modelled

- In `SystemChannel`: calls of the game; how long the deliver thread sleeps, but for
  whether it sleeps without end; the interleaving of acknowledgements with a wake-up (a
  hazard of `PROJECT.json`); the NewHost
  message, which is in `Session`.
- In `Session`: the password, and the lock that a wrong one leaves taken; sessions that are
  created to end with their host; the enumeration of sessions and the setting up of connections; loss of
  numbered messages but by a NewHost; messages of a former host that are received after the
  NewHost of the next, and the number they would share with one of the next.
- In `Lockstep`: the upload of a map, the set-up of a game, the rings of events of players;
  how the binary lays out the queue and the history.
- In `Possession`: the buttons of the panel, other views of the camera, what the native
  load does to cameras, and a path that finishes after a reload before the next tick.
- In `GemEnding`: what the creature and the interface show; more than one call of the
  native body within another; reloads for a resync whose packet holds no report.
- In `GuaranteedDelivery`: failing allocations (a count goes up before its message exists,
  :1885), the 100000 bytes per second but as packets that wait for a later pass, a second
  chunk of a message (above 8 blocks), the read past the player list at :1188.
- In `KeeperHand`: where things are and whether the native code takes them.
- In `Resync`: the rule of the host to resynchronise, the 15 seconds it waits for players,
  files that an earlier session left in the two slots, the world beyond right and wrong.
- The components marked `not_modelled` in `PROJECT.json`, with the reason for each.

## Plan

1. `Session` with a password and `dataLock` as state (`BullfrogNET.cpp:1649`), and with a
   session that is created to end with its host.
2. The upload of a map (`CNetworkCommunication.cpp`) on top of `GuaranteedDelivery`.

Theorems about small modules go into the proof module of the component they belong to.
