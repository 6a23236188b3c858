# Verification of sleepwalk

sleepwalk moves running Firecracker microVMs between hosts. A *hostd* daemon
on every host owns the VMs there, a *guestd* supervisor inside each VM defers
the workload's turns while a move is being prepared, and a *rebalancer* decides
which VM moves where. A move is worth something only if no turn is cut, no
guest executes twice, and nothing is left behind on either host. Those are the
questions this project asks of the code.

Line numbers refer to the repository; `PROJECT.json` maps every definition
that models code to the lines it stands for.

## 1. Inventory

### The parts and their state

| Part | Source | State | Operations that change it |
|---|---|---|---|
| guest supervisor | `guestd/src/guest.rs` | `next_turn`, `in_flight`, `gated`, `queued` | `start_turn`, `begin_observed_turn`, `replay_next`, `end_turn`, `run_turn`, `handle` (six messages), `resume` |
| control channel, both ends | `guestd/src/channel.rs`, `hostd/src/guestlink.rs`, `proto/src/control.rs` | bytes in flight each way | send, receive, break |
| quiescence detector | `hostd/src/quiesce.rs`, `hostd/src/drain.rs` | `AppLayer{gated,in_flight}`, infra and storage layers | `observe_guest`, `poll`, `drain_to_quiescence` |
| turn driver | `hostd/src/guestload.rs` | next turn id, waiters by id | `run_turn`, reader task, deadline |
| guestd binary | `guestd/src/bin/guestd.rs`, `wrap.rs` | the running session, the shared turn tracker, the wrapped child | accept a vsock or TCP connection, begin, end, drain, resume |
| guest clock | `guestd/src/clock.rs` | correction | pure |
| VM registry | `hostd/src/registry.rs` | the map of running VMs, `NET_SEQ` | `spawn`, `insert`, `take`, `teardown` |
| source half of a move | `hostd/src/migrate.rs` | the `RunningVm` the handler owns | drain, write metadata, pause, snapshot, stream, tear down |
| target half of a move | `hostd/src/migrate.rs` | listener, received files, the VM being built | accept, receive, re-plumb, serve pages, load, register |
| snapshot transfer | `hostd/src/transfer.rs` | one TCP stream | connect, accept with a 30 s deadline, framed files with checksums |
| tap plumbing | `hostd/src/net.rs` | the host's taps | create, delete |
| Firecracker process | `hostd/src/firecracker.rs` | none, running, paused, killed | start, pause, snapshot, load, kill, drop |
| page server | `hostd/src/uffd.rs` | its thread | start, serve a fault, stop |
| HTTP API | `hostd/src/bin/hostd.rs` | handlers in progress | `/vms/spawn`, `/migrate/send`, `/migrate/recv` |
| rebalancer process | `rebalancer/src/{placement,control}.rs`, `bin/rebalance.rs`, `proto/src/compat.rs` | the step, and within one the reading | poll every host, pick a victim and a target, ask both daemons, sleep |
| migration driver | `rebalancer/src/driver.rs`, `executor.rs` | the phase it holds, the call it makes | `drive` (called by tests only) |
| migration typestate | `proto/src/fsm.rs` | the phase | eight transitions and `abort`, checked by the compiler |
| VM record | `hostd/src/vm.rs` | `RunState` | `boot`, `pause`, `resume`, `shutdown` |
| one-shot commands | `hostd/src/bin/migrate.rs`, `migrate_source`, `restore_target` | runs and attempts counted, a private VM each | `send` with retries, `recv` |
| restore benchmark | `hostd/src/bin/migrate_bench.rs` | the live VM, its page server, one more of each a cycle | boot, snapshot, restore, retire |
| load generator | `harness/src/{schedule,loadgen,recorder}.rs`, `hostd/src/bin/loadtest.rs` | one task a turn, the latencies, the freeze | `run_load`, pause and resume |
| harness reports, CLI | `harness/src/report.rs`, `cli/` | measurements | print and draw |

### How they interact

* guestd and hostd exchange messages over one ordered channel. hostd sends
  `RunTurn`, `DrainRequest`, `DrainCancel`, `Ping`; the guest sends
  `TurnStarted`, `TurnEnded`, `DrainAck`, `Resumed`, `Pong`. A call of the
  supervisor may send two messages and fail between them.
* Two hostd daemons share no state. They meet in one TCP stream that carries a
  snapshot; the receiver does not answer, so "the bytes were written" is all a
  sender ever learns.
* Inside one hostd, handlers meet in the registry, behind a lock that is never
  held over an await. A handler *owns* the `RunningVm` it works on; hyper drops
  it, with all it owns, when the client hangs up. The receiving task is spawned
  apart from its request and outlives it.
* The rebalancer posts `recv` to the target and `send` to the source, and looks
  at the fleet again five seconds later.

### What is hard

* A `DrainRequest` handled around the start or the end of a turn, with the turn
  signals and the ack in flight in the order they were written.
* Sends that fail after some assignments of a call were made.
* Requests that race for one VM; a handler dropped at any await.
* Source teardown and target load, two steps on two hosts with no common
  decision between them.
* The 30 s accept deadline against a drain that may take longer.
* Partial construction on the target (tap, page server, process, load), each
  step able to fail, each with its own clean-up.
* Names drawn from a per-daemon counter meeting names baked into snapshots.
* A wrapped child that runs on while its supervisor, one pipe behind, tells a
  host how things stand.
* Two accept loops, one of which dies with a restore, and a handshake without a
  deadline.
* Evidence of three layers, sampled at different times, made into one verdict
  while the guest goes on working.
* Calls that fail after they were carried out, and a record, a driver or a
  count that goes by the answer.
* Pages brought in by a thread per VM while that VM is snapshotted again, killed
  or dead.
* A deadline, a completion, a failed send and a closed link that all end one
  wait.

`PROJECT.json` lists each of these at its line (`hazards`), with the
properties that would catch it.

### What makes each part correct

* supervisor: as long as it lives, an accepted turn ends, runs or waits, never
  vanishes; a gated guest starts nothing on request; what is on the wire leads
  the host to the truth. That a deferred turn outlives its connection is promised
  and not so (section 4).
* quiescence: a quiet view means an idle gated guest.
* wrap mode: the tracker follows the child; a counted turn is not frozen; a
  child that waits for the secrets of a daemon that has them starts with them; a
  host's session ends and frees its loop.
* registry and handlers: a listed VM is whole and belongs to nobody else.
* a move: one executing copy at most; a guest is in one place, on the wire, or
  lost for good; a failed move leaves nothing behind; every request ends; the
  data port is freed.
* driver: it pauses no guest mid-turn, keeps the order of the typestate, and what
  it returns is so.
* VM record: it says what the VM does, until an answer is lost.
* page server and benchmark: a guest finds its memory whatever was brought in,
  no fault is forgotten, everything started is ended.
* one-shot commands: attempts and restores overlap and stay apart.
* load generator: every turn's wait ends once, and the report is true.
* rebalancer: a choice is unique and names a VM that is there; in a settled
  fleet it rests on the truth.

## 2. Modules

### `Guest.tla`: supervisor, channel and the host's fold

One action per method of `Guest`, each atomic because the methods take
`&mut self`:

| Action | Code |
|---|---|
| `StartTurn`, `BeginObservedTurn`, `BeginTurn` | `start_turn`, `begin_observed_turn`, `begin_turn` |
| `ReplayNext`, `EndTurn`, `Resume` | `replay_next`, `end_turn`, `resume` |
| `HandleRunTurn` | `handle` on `RunTurn`, i.e. `run_turn` |
| `HandleDrainRequest`, `HandleDrainCancel`, `HandlePing` | the other arms of `handle` |
| `HostDrain` | `GuestLink::drain` sends the request |
| `HostCancel` | `drain_to_quiescence` on a Busy ack (`HeardBusy`), and on nothing else |
| `HostHangsUp` | the link is dropped: done with it, or no ack by the deadline, or an I/O error |
| `NewSession` | `run_host_driven` accepts the next connection: a fresh `Guest` |
| `HostRunTurn`, `HostPing` | the turn driver's and the link's sends |
| `HostReceive` with `Observe` | `observe_guest` into `AppLayer` |

Variables carry the fields' names; `accepted`, `done` and `lastId` are history.
`SendOk` and `SendErr` are the two outcomes of `send(..).await?`: each action
keeps the assignments made before a failing send and drops those after it, and
`HandleRunTurn` may break between its two messages.

The variable `wraps` says whether guestd wraps a child, whose turns begin behind
the gate as well (`BeginObservedTurn`), or is driven by the host. It is chosen
once, and only the loop of host-driven mode makes a new supervisor.

Assumptions: the channel is FIFO and a broken one stays broken until the next
session. What was written before a hang-up is still read, what is on its way to
the host is not. A full channel makes the sender wait. `Resume` is the
supervisor waking on the target, so it follows a quiet view. hostd drains a link
once and drops it; that a second drain of one channel is answered rightly as
well is a property of the supervisor as a library.

### `Migration.tla`: the daemons of a fleet

A handler is a record `job[j]` with a program counter; the receiving task of a
host is `rx[h]` (one data port, one listener). A step is the stretch between
two awaits of the code.

| Program counter | Stretch |
|---|---|
| `booting`, `booted` | `VmRegistry::spawn` up to boot, up to `insert` |
| `draining` | after `take`: connect to the guest, drain, write metadata |
| `pausing`, `paused`, `snapped` | pause, create the snapshot |
| `queued`, `sending`, `sent` | connected, accepted by the receiver, last byte written |
| `reset` | the receiver closed the connection |
| rx `listening`, `receiving`, `received` | bind, accept, read the files |
| rx `plumbed`, `loading`, `loaded` | tap, page server and process, load |

The state a VM owns on its host is explicit: the process (`proc`), the tap
(`tap`, and `taps` of the host), the page-server thread (`servers`) and the
snapshot files (`snap`). `guest` is history: which guest a VM id executes,
which is how two ids of one guest are recognised.

Every error exit of the code is an action with exactly its clean-up:
`StandDown` re-registers, `SendFail` tears down, `Hangup` kills the process and
leaves tap, thread and files, `SpawnFail` leaves the tap. `create_tap` is three
commands: `SpawnRefused` and `ReplumbFail` are a failure of the first, which has
made nothing, `SpawnHalfway` and `ReplumbHalfway` one of the second or third,
which leaves the tap. `ServeFail` undoes none of what the receiving task built,
`LoadFail` all of it. The constant `Faults` says which failures the environment
may produce.

Modelling decisions a reader should know:

* A `send` never names the VM's own host; the rebalancer is the only client
  that issues sends and never does.
* A receiver that accepts a sender which has already gone ends as it does on
  its timeout; the two are one action.
* `ip tuntap add` fails on an existing name.
* A memory image exceeds the socket buffers, so the last byte is written only
  to a receiver that reads (`Flush` needs `sending`).
* At a spawn the first command fails on an existing name only. Any other reason
  would use up an index and leave nothing, which an index that is refused does
  as well.
* Left out: work directories other than the snapshot files, ARP and address
  assignment, secrets, and `VmRegistry::remove`, which has no caller.

### `Custody.tla`: what a fleet promises about a guest

An abstract specification: each guest is unborn, on a host, moving, or lost;
it leaves a host only for the wire, arrives only from the wire, and lost is
final. `Migration` maps to it by `PlaceOf`, read off processes, paused VMs and
streams, and `KeepsCustody` is the refinement.

### `Sessions.tla`: wrap mode and the hosts that drain it

A wrapped child needs no `Guest`: guestd watches its stdout, keeps a
`TurnTracker`, and answers drains from it. The module joins that guest with the
hosts that talk to it, one after another, over the VM's life.

| Action | Code |
|---|---|
| `ChildPrints`, `ChildExits` | the child; a boundary line goes into a pipe of `PipeCap` lines |
| `ReadLine` with `Apply` | `spawn_reader` and `TurnTracker::apply` |
| `AcceptTcp`, `Serve` | `serve_tcp_drain`'s accept; `Guest::handshake` sends `Hello` |
| `Handshaken` | the rest of `handshake`, then `run_wrapped`'s first-connection branches: start the waiting child, or announce `Resumed` |
| `AnswerDrain`, `IgnoreCancel`, `SessionEnds` | the arms and the exit of `serve_wrap_messages` |
| `StartMove`, `Connect`, `GiveUpDialing` | `migrate_running` dials with retries, `GuestLink::connect` or `connect_tcp`; so does `VmRegistry::spawn` for the boot secrets |
| `Greeted` | `GuestLink::handshake`, then `drain`'s request; a boot drops its link |
| `SkipReply`, `GuestQuiet`, `StandDown`, `DrainTimesOut` | `GuestLink::drain` and `drain_to_quiescence`, with their four ends |
| `Pause`, `Restored`, `Lost` | the freeze, the restore on a target, every failure in between |

`work` is the child's own account of its turns, `tracker` the guest's; the two
differ by the lines in `pipe`. `seen` records how many turns the tracker had
counted when the host was told it is quiet.

Modelling decisions a reader should know:

* The child is untrusted: it opens a turn twice, closes one that is not open, exits in
  the middle of one. A repeated opening is a turn that goes on. Its lines other
  than the two markers change nothing and are left out.
* A VM is networked and moves over TCP, or is not and moves over vsock; boot
  secrets always go over vsock. Whether the image's child waits for secrets and
  whether the daemon has a key are two independent choices, and `Setups` has all
  of them.
* The kernel queues TCP connections while the loop is busy. A vsock connection
  is made when the loop accepts it, and never after a restore (the comments at
  `guestd.rs:240-242` and `migrate.rs:318-321`). The restore resets a vsock
  session that is still open, with or without what it had not read.
* One move at a time, as `take` guarantees; what happens to the VM between
  pause and restore is module `Migration`.
* A connection that is made is not lost on its own: both ends are on one host
  or one overlay, and a lost one would only end a session early.
* Left out: host-driven mode (`Guest`; the daemons never send `RunTurn` to a
  fleet VM), `Ping`, and `apply_signal`, which only tests call.

### `Rebalance.tla`: the rebalancer process and the fleet it sees

| Action | Code |
|---|---|
| `ReadStatus`, `StatusFails` | one `GET /status` of `main`'s inner loop |
| `Decide`, `DecideNothing` | `pick_victim`; converged or no eligible move |
| `Receive`, `ReceiveFails` | `POST /migrate/recv`: 202, or an error |
| `SendMoves`, `SendRefused`, `SendFails` | `POST /migrate/send`: 200, 409 or 404, 500 |
| `NextStep`, `LastStep` | after the five seconds: another step, or `max_steps` |
| `Restored`, `RestoreFails`, `AcceptTimesOut` | the receiving task, which outlives the request |
| `PagesIn` | the page server has served what the guest uses |

`Picks` is the set of moves that `pick_victim` may choose, one conjunct per
early return; that it never holds two is part of `DecisionsAreTrue`. A host's memory reading
counts a guest that is being restored, or was a moment ago, with all of its
pages or none. `calm` is history: the step began with every guest settled.

Modelling decisions a reader should know:

* Ids and hosts are naturals because ties are decided by their order. Ids are
  random, so a restored VM takes any that is free.
* A daemon's handler is atomic here: the rebalancer waits for its answer and
  there is no other client. A second rebalancer, or moves made by hand, would
  break `VictimIsThere`.
* Hosts have equal memory, guests do not grow, and a reading counts a guest
  wholly or not at all. The idleness is the binary's constant, so the lowest
  id is picked.
* The CPU's vendor and model are one value; a class does not change, as hostd
  detects it once.

### `Fsm.tla`, `Quiesce.tla`, `Drive.tla`: the typed migration

`Fsm` is the abstract specification: the phases of `Migration<S>`, the one
transition each has, and `abort`, which only the phases before the snapshot
have. `Quiesce` is pure: `ObserveGuest`, `ObserveInfra`, `ObserveStorage` fold
what is heard into a coordinator, and `Verdict` is `DrainCoordinator::verdict`.
`Drive` is `drive()` over the executor port, with the guest at the other end.

| Action | Code |
|---|---|
| `RequestDrain`, `DrainFails` | the typestate enters Draining, then `request_drain`; its `?` |
| `HearGuest`, `TakeSample`, `SyncStorage` | one observation of each layer |
| `DrainQuiescent`, `DrainBusy` | the verdict, or the deadline |
| `Busy` | `cancel_drain`, then Aborted |
| `Committing` | snapshot, transfer, restore, cutover, cleanup |
| `StartTurn`, `EndTurn`, `TakeRequest`, `TakeCancel` | the guest, reduced from `Guest` |

Modelling decisions a reader should know:

* The real executor is not in the repository: its effects are what the port's
  comments and the stand-in for the tests say. Each effect may fail after it was
  carried out or before; the driver sees an error either way.
* A CPU sample is reduced to whether it is below the threshold.
* The channel is FIFO in each direction, and a cancel may overtake an ack on
  the other.

### `Lifecycle.tla`: what hostd records of a VM

`Begin` refuses by the record; `Deliver` is Firecracker carrying the call out or
rejecting it; `Succeed`, `Reject` and `Unreachable` are the three ends of a call,
of which the first alone changes the record. `Unreachable` may come after the
effect: the answer is lost. `PowerOff` is a guest or a process that is gone.

### `OneShot.tla`: `migrate send` and `migrate recv`

The sender's actions are the stretches of `migrate_source` (`BootShot`,
`DrainShot`, `PauseShot`, `DialShot`, `StreamShot`, `CloseShot`), its two exits
(`StandDownShot` cleans up, `FailShot` is any `?`) and the loop of `send` with
its `MAX_TRIES` (`Retry`). The receiver's are those of `restore_target`
and the loop of `recv`. `spoilt` is history: whole snapshots the receiver failed
on after the sender had counted them.

### `Restore.tla`: the page server under the restore benchmark

`Bench` is `migrate_bench.rs` statement by statement, with `FcProcess::spawn` and
its wait for the socket file, the client's calls, and `retire`. `ServerStep` is
the thread of `uffd.rs`: accept, the handshake, poll, read one event, copy one
page, stop. The kernel's half is external: a thread that touches a missing page
traps, is queued, looks once more and sleeps; a copy fills the page, wakes who
waits for it and withdraws their unread events.

Modelling decisions a reader should know:

* The vCPU and Firecracker's own thread can fault; the latter on behalf of
  devices and as the writer of the next snapshot.
* A panic ends the process: every `FcProcess` is dropped and the threads go.
* The handshake's message format and the mapping of addresses to offsets in the
  file are left out: a page is a number, and a file has that many.
* `truth` is history: what the guest last wrote to each page.

### `TurnLoad.tla`: the open loop, the turn driver and the freeze

A task per scheduled turn (`Fire`, `SendTurn`, `SendFails`, `Complete`,
`DeadlinePasses`, `GiveUp`, `RecordTurn`), the router (`Route`, `RouterEnds`),
the guest (`GuestStarts`, `GuestEnds`) and `loadtest`'s `Pause` and `Resume`. A
deadline that has passed and the removal of the waiter are two steps: the router
may find the waiter between them. The schedule is any that
`Schedule::generate` can return. What is on the wire at the resume may be lost,
and so may later commands, as the comments of `guestload.rs` have it.

### `MCParts.tla`: four components in one run

`Drive`, `Lifecycle`, `OneShot` and `Restore` share nothing. The variable `part`
says which of them a behaviour is about; the others stay where they begin. The
states are a sum, not a product, every property is checked of its own part, and
the fairness of each part is that of its module, taken in that part.

### Which module uses which

    MCGuest     -> Guest                          GuestProofs     -> Guest
    MCMigration -> Migration -> Custody           MigrationProofs -> Migration
    MCSessions  -> Sessions                       SessionsProofs  -> Sessions
    MCRebalance -> Rebalance                      RebalanceProofs -> Rebalance
    MCTurnLoad  -> TurnLoad                       TurnLoadProofs  -> TurnLoad
    MCParts     -> Drive -> Quiesce, Fsm          DriveProofs     -> Drive
                -> Restore                        RestoreProofs   -> Restore
                -> OneShot, Lifecycle             PartsProofs     -> MCParts,
                                                      DriveProofs, RestoreProofs

The modules meet where one takes for an action what another shows in full.
`Migration!Drained` is the guest's quiet view: `QuietViewIsTrue` says that this
is justified when the guest is host-driven, `Sessions` how far it is when
the guest only watches, and `Drive` with `Quiesce` what the full evidence of
three layers gives. `Rebalance` takes from `Migration` what a request comes to:
that every send is answered (`HandlersAnswer`) is its fairness, that a port is
freed (`PortIsFreed`) its `AcceptTimesOut`. `OneShot` has the snapshot and the
stream of `Migration` in one step each, and `Migration`'s load of a snapshot is
`Restore`'s cycle.

## 3. Runs

| Run | Question | Bounds |
|---|---|---|
| `guest_safety` | Are turns conserved, does the wire tell the truth, is a quiet view true? | 3 workload turns, 2 host turns and 2 drains a session, any number of sessions, 3 messages each way, host-driven and wrapped, sends that break |
| `guest_lost` | Does a deferred turn stay until it is replayed? (no) | 1 host turn, 1 drain, 2 messages each way, nothing breaks |
| `migration_safety` | One copy, whole registrations, custody, nothing left behind, under every fault? | 2 hosts, 3 VM ids, 2 handlers, indices 0 and 1, all faults |
| `migration_live` | Is every request answered and every port freed? | 2 hosts, 3 ids, 2 handlers, no networked VMs, hang-ups and failing loads, fair |
| `migration_failover` | Does a guest whose snapshot was taken run again? (no) | 2 ids, no faults, fair |
| `migration_prekeep` | Does a failure before the snapshot spare the VM? (no) | 2 ids, failing metadata write |
| `sessions_drain` | Does wrap mode answer truly, start its child rightly and let every move end? | 3 connections, 2 turns, 2 unread lines, fair |
| `sessions_frozen` | Is a wrapped child ever frozen mid-turn? (yes) | 1 connection, 1 turn, 2 unread lines |
| `rebalance_policy` | Is the choice unique, about a VM that is there, true of a settled fleet? | 3 hosts, 3 guests of two sizes, 4 ids, 2 steps |
| `rebalance_busy` | Is a busy guest tried again? (no) | 3 hosts, 2 guests, 2 steps, fair |
| `parts_alone` | The four components that share nothing, each on its own: is what the driver returns so, is the record, do attempts stay apart, does memory survive, does what is started end? | a window of 2 samples, 3 signals under way; 2 runs of 2 tries; 2 cycles, 2 pages of which 1 holds device queues, 1 write a page, 1 crash; fair |
| `turn_load` | Is every turn's wait ended once and booked rightly, whatever ends it? | 2 turns at ticks 0 and 2, deadline 2, horizon 5, 1 command in the socket, a freeze and a closing link at any moment, fair |

What the properties say:

* `ZeroDroppedTurns`: of one `Guest`, as long as it lives, accepted turns = ended
  + backlog + in flight, in every state, broken sends included.
* `ViewConverges`: the last turn-bearing message on the wire names the turn in
  flight, and with none left an acked view is the guest's own state.
* `QuietViewIsTrue`: while the attempt is open and the view quiet, a host-driven
  guest is gated and idle. Because a cancel follows a Busy ack only, an attempt
  leaves no ack behind that a later one could take for its own, however many
  there are on the channel. With a wrapped child it fails: a turn begins behind
  the gate after the ack.
* `DeferredNeverLost` (`guest_lost`): the backlog shrinks by a replay only. It is
  what the sources promise, and violated (section 4).
* `AtMostOneRunning`, `RegisteredIsWhole`: as named, over all interleavings of
  two handlers and two receiving tasks.
* `LeavesNothingBehind`: no step leaves a process, tap or page-server thread
  without an owner, except a spawn that fails once its tap is made, a dropped
  handler, a tap that a restore makes and cannot bring up, and a page server or
  process that cannot start: the exits whose code skips the clean-up
  (section 4).
* `KeepsCustody`: the refinement of `Custody`.
* `PortIsFreed`, `HandlersAnswer`: progress of receivers and senders, a second
  sender waiting in a listener's backlog included.
* `TrackerFollowsChild`: each unread line takes the tracker to what the child
  had done when it printed it, and the last to what it has done by now. It
  relates three things no test puts together: the child's account, the lines in
  between and the tracker, across duplicates, exits and restores.
* `SeenTurnWins`: of a frozen VM, any open turn was begun after the ones the
  tracker had counted when it said quiet. This is what the race rule comes to
  for a guest that only watches.
* `ChildHasItsSecrets`: when the daemon has a key, a waiting child is never
  started with the empty set that a move's handshake carries. Without the
  restriction it fails: a daemon without a key has no boot handshake (section 4).
* `MoveEnds`: every boot or move comes to an end although the handshake has no
  deadline: each earlier session, however it ended, frees its loop.
* `RestingChildLooksQuiet`: a child that stays between turns comes to look
  quiet, or the VM is lost.
* `VictimIsThere`: when the send is made, its source has exactly one VM of that
  id, although the reading is several requests old and restores of earlier
  moves end meanwhile.
* `DecisionsAreTrue`: ties of pressure and idleness never leave two moves to
  choose from, and a step that begins in a settled fleet moves a guest off
  the host that is in truth most loaded, to one less loaded; its "converged"
  and its "no eligible move" are true as well. Without `calm` it fails: that is
  what a restore longer than five seconds costs.
* `TurnNeverCut`: while a turn is in flight its VM runs, on one host, though
  what the coordinator has heard of the turn may still be on the wire.
* `VerdictIsEarned`: with a verdict of quiescence, the last `samples` readings
  of this attempt were cool, and there were that many; and while the drain waits
  the guest itself, not only what was heard of it, is gated between turns.
* `OutcomeIsTrue`: `Completed` means moved, released and cleaned up; `Aborted`
  means untouched and un-gated, or about to be. An error claims nothing, and
  the model shows what it may leave: a gated guest or a paused VM.
* `FollowsFsm`: the driver implements the typestate's specification `Fsm`.
* `RecordIsReal`: until an answer is lost, the record says what the VM does and
  `Vm` asks nothing Firecracker refuses. After that the record stays behind: a
  VM that booted may be recorded as created and refused for ever.
* `ShotsStayApart`: a copy runs only from a whole snapshot and never beside its
  source, an attempt's VM does not outlive it, and neither command counts a run
  that has no whole snapshot. The two counts still differ: that is in the model
  and in `CommandsEnd`, which says when `recv` waits for a run nobody sends.
* `MemorySurvives`: a running guest sees in every page what it last wrote, in
  whatever incarnation, brought in or not, and one incarnation runs.
* `SpawnedListens`: the socket file `spawn` waited for is this Firecracker's.
* `NothingLeftBehind`, `CommandsEnd`: what a benchmark or a command has started
  it ends, and it ends itself, unless a page server has failed under a living VM
  or `recv` lost a snapshot its sender has counted.
* `FaultsAreServed`: who waits for a page gets it, unless its server has ended
  on an error.
* `WaitersAreWaiting`: the driver's map of waiters holds those who wait and no
  other, whichever of the router, the deadline and a failed send comes first.
* `ReportIsTrue`: a turn booked as done was done, a drop shows as a whole
  deadline, and a turn of the freeze shows what was left of it.
* `LoadEnds`: `run_load` returns, whatever the link and the guest do.

### Why the bounds are enough

Two drains are needed for what the first leaves on the wire to meet the second,
and `NewSession` starts the bounds afresh, so sessions are not bounded; three
messages let an ack stand between a turn's two signals; two host turns and
three workload turns let both counters advance past each other, with one turn
in the backlog while another is in flight. Two hosts, each source and target
at once, and two handlers give every race of the code's pairs: send against
send, spawn against receive, send against receive. Three VM ids cover a guest
that moves twice, two guests of which one moves, and a spawn on a host that a
restored VM has just reached. Two indices let a daemon's counter be behind and
ahead of a name that arrives. Three connections are the boot's, one that stands
down or times out, and one that finds the loop still busy with it, or a restored
VM, in every order; two turns let a counted one end and an uncounted one begin
between an answer and the pause; two unread lines are one turn's opening and
closing. Three hosts give the rebalancer a target that is cool but out of the
TSC tolerance, one that is within it and a source that ties with either; two
sizes let a move help or turn the target into the hottest host; two steps let
one read what the one before left unfinished.

For the driver, a window of two can be full, half full and slid; three signals
hold a turn's two and an ack. For the commands, two tries of each of two runs
(the code has three tries) give an attempt that fails and is repeated while the
receiver is still busy with the one before, and a run that starts beside the
restore of the last. For the benchmark, two cycles are what it takes for a VM
to be restored from a snapshot of a VM that is itself served page by page; two
pages, one that only the guest touches and one the devices touch as well, let
two threads want the same page and different ones; `MaxWrites` of one tells a
page that was written from one that was not; one crash is any process at any
moment. For the load, one turn before a freeze and one it may catch, and a
deadline that ends inside the horizon, let each of the four ends of a wait meet
each of the others; the socket of one command makes the other send wait.

`IdsLeft` keeps an id for every receiving task
under way, so the bound never blocks one half way; the failures that allocate
no VM give their id back. Symmetry over hosts, ids and handlers is used only
where no liveness is checked.

`CHECK_DEADLOCK FALSE` is set throughout: turns, drains, ids and indices are
bounded and the system then rightly stops, and the rebalancer ends.

### Fairness

* `Guest` assumes nothing: hostd sends a cancel on a Busy ack only, and no code
  of the daemon calls `replay_next` (the harness does, `chaos.rs:163`), so no
  fairness would be justified under which a backlog runs.
* `Migration`: the tokio runtime polls a handler and a receiving task, so some
  enabled step of each is eventually taken. Two things are assumed with that:
  the guest answers its handshake (the code has no timeout there; `MoveEnds` of
  `Sessions` shows when it does) and the peer's kernel reads or fails. Clients' requests and hang-ups
  are not fair. `migration_live` has no network faults: progress must not come
  from a failure that happens to free a stuck task.
* `Sessions`: the reader, the two accept loops and hostd's handler are each
  polled while the VM runs. hostd's handler is one task, so its next step is
  fair as a whole, not each of its outcomes: no run relies on a drain that does
  not time out. The child and the clients that ask for moves are not fair.
* `OneShot` (in `parts_alone`): the two processes keep running; each may always
  fail instead of going on, so nothing relies on a guest that answers.
* `Restore` (in `parts_alone`): the benchmark and each server thread run,
  Firecracker answers while it lives, the kernel queues and wakes, and the
  writer of a snapshot goes from page to page. What the guest touches and when a
  process dies is not fair. `Drive` and `Lifecycle` assume nothing.
* `TurnLoad`: the runtime polls every task and the router, time goes on, the
  guest serves while its VM runs, and `loadtest` resumes what it paused. That the
  link breaks or the pause comes is not assumed.
* `Rebalance` (for `rebalance_busy` alone): the process is one task whose
  requests are answered or fail, so its next step is fair as a whole. The code
  has no timeout on a request; the refutation does not rest on one that hangs.
  Nothing is assumed of restores.

## 4. Disagreements found

* **No failover** (`migration_failover`). After the pause, every error ends in
  teardown (`migrate.rs:402`), without any fault injected: a receiver whose
  accept deadline passed during the drain is enough. `fsm.rs:18-19` promises a
  run to completion or a resume on the source.
* **A failing metadata write destroys a live VM** (`migration_prekeep`,
  `migrate.rs:366`), against the comment at `migrate.rs:323`.
* **A wrapped child can be frozen mid-turn** (`sessions_frozen`). A drain is
  answered from what the reader has read (`guestd.rs:118-126`) and gates
  nothing; the shortest counterexample has the opening line still in the pipe,
  and a turn that begins between the answer and the pause does as well.
  `wrap.rs:102-103` says a migration is never allowed to snapshot mid-turn, and
  `docs/protocol.md:31-32` that the host waits until the child is between turns.
  What does hold is `SeenTurnWins`.
* **A busy guest ends the rebalancer** (`rebalance_busy`). The 409 becomes an
  error in `post`, and `main` leaves its loop through `?` (`rebalance.rs:119`);
  the receiver it had asked for keeps the target's port for up to 30 s.
  `docs/src/rebalancing/overview.md:161` says that it logs and moves on at the
  next poll, and `:165-166` that it retries later.

* **A deferred turn is lost with its connection** (`guest_lost`). hostd sends
  `DrainCancel` on a Busy ack only (`migrate.rs:310`); an ack that misses its
  deadline, or an error, drops the link without one. The backlog is a field of
  the `Guest` that served the link, and guestd makes a new one for the next
  (`guestd.rs:195`); gate and turn in flight go with it. `guest.rs:19-22` and
  `docs/protocol.md:131-135` say that a gated turn is "deferred, never lost" and
  replayed once the gate reopens; no daemon calls `replay_next`. How far this
  shows today: the load generator's program sends `RunTurn` on a link it does not
  drain, so the backlog of a deployed guest stays empty, while the supervisor's
  own tests queue turns behind the gate (`guest.rs:398-409`).

Further sentences disagree with the code and are no run of their own:

* `scripts/build-agent-rootfs.sh:6-8` defers the child "until the host hands over
  the model API key via the Secrets vsock message", and `docs/protocol.md:36-43`
  until the handshake that delivers the secrets. guestd takes any first vsock
  handshake for it (`guestd.rs:256-270`). A daemon without a key makes none at
  boot (`registry.rs:214-223`), and the first one is then a move's, with an empty
  set (`migrate.rs:308`): the drain starts the child, with no secrets.
  `ChildHasItsSecrets` without its `vm.key` shows it. A VM moved over TCP never
  starts its child.

* `docs/protocol.md:104` calls the turn id a monotonic per-VM counter. `run_turn`
  behind the gate counts the turn and forgets its id (`guest.rs:185`);
  `replay_next` starts it under the guest's own counter, which may repeat an id
  the host has used.
* `registry.rs:41` promises networked VMs distinct taps, MACs and addresses. The
  index is drawn from a counter of the daemon (`registry.rs:159`), so the first
  networked VM of every host has the same, and moving one onto another's host
  fails after its source was torn down.
* `migrate.rs:198-200` says a busy VM is left intact on the source, but the
  `abort` beside it kills the private VM (`StandDownShot`); and the `?` at
  `migrate.rs:229` leaves the attempt's work directory (`FailShot`).
* `guestload.rs:47-50` (also `:66-67` and `:103-104`) says that the router drops
  every outstanding waiter when the link closes. Its `break` drops its own
  handle of the map; the driver holds the other, so the waiters stay and their
  deadlines end them (`RouterEnds`). A turn whose send fails is recorded with
  its latency and counted neither as served nor as dropped (`SendFails`).

* `transfer.rs:10-11` says the snapshot stays on the source until cutover, but
  `migrate_running` removes it with the work directory when the last byte is
  written.
* `ids.rs:14` calls a VM id stable across migration, but the target gives the
  VM a new one (`migrate.rs:537`).
* `docs/protocol.md:84` makes `Resumed` the first message after a restore. In
  wrap mode it is sent on every vsock connection but the first
  (`guestd.rs:277`), moved or not; after a restore vsock is dead and the TCP
  loop does not send it.
* `docs/protocol.md:129-131` lets a busy guest have `deadline_ms` to finish. The
  guest answers at once and hostd stands down at once (`migrate.rs:310`).
* `registry.rs:214` calls the delivery of boot secrets reliable; hostd drops the
  connection once they are written, and a TCP move begun before the guest read
  them may leave a waiting child without them for good.
* `rebalance.rs:126-127` sleeps "so the next step sees the new placement"; a
  restore that takes longer than five seconds is not seen, and its port still
  refuses the next `recv`, which ends the process.
* `placement.rs:102` says a VM without an idleness reading is never chosen; it
  is, when no VM of the host has one.
* `rebalance.rs:6-7` repeats until no host is over the watermark or no cooler
  host remains; only the hottest host is ever relieved, so one that has nowhere
  to send its guests ends the process while another could be helped.
* `placement.rs:14-15` returns no move rather than one that does not help; the
  size of the guest plays no part, so a heavy one makes its target hotter than
  its source was and comes back in the next step, until `max_steps`.

Two things no sentence covers. A restore that fails after the send's 200 is
known to the target's log only: the target looks cool and is sent the next
guest. And the TSC tolerance (`compat.rs:70`) is not transitive: it is checked
between the two hosts of a move, so a guest moved twice may end where one move
would not have been allowed to take it.

The exceptions in `LeavesNothingBehind` are the code's: a dropped handler kills
only the process; a failing spawn keeps its tap; a `create_tap` whose second or
third command fails leaves the tap (`net.rs:82-83`), as neither `spawn`
(`registry.rs:160`) nor the restore (`migrate.rs:462-465`, which removes only the
work directory) takes it away; and the two `?`s from the page server to the
process (`migrate.rs:486`) skip the clean-up that a failing load has.

## 5. Proofs

The theorems hold for every value of the constants under the named
assumptions: the sentinels differ from the values they stand beside, the bounds
are naturals (`MaxIdx` may be -1), `Faults` is a set of the known kinds. Every
safety invariant and action property that a passing run checks, and both
refinements, are theorems as well.

`GuestProofs.tla`:

* `GuestTypeOK`: `Spec => []TypeOK`.
* `GuestConservesTurns`: `Spec => []ZeroDroppedTurns`. Inductive with
  `TypeOK`; the work is in `HandleRunTurn`'s four outcomes.
* `GuestViewConverges`: `Spec => []ViewConverges`. Lemmas about a FIFO do it:
  what appending a message that bears on turns, one that does not, or taking
  the head does to "the last message that bears on turns".
* `GuestQuietIsTrue`: `Spec => []QuietViewIsTrue`, for any number of attempts on a
  channel. A quiet view says nothing by itself: it is the fold of an ack and of
  what came before it. `OneAttempt` says that an attempt has one request, one ack
  and no cancel before that ack, under way or read, and that none of an earlier
  attempt is left; `Settled` that, from the ack on, the wire holds no further
  beginning of a turn, so that whatever is left of it can only make the view
  idle when the guest is.
* `GuestGateHolds`: `Spec => NoStartWhileGated`, from `TypeOK` and one case per
  action: only a wrapped child's turn may begin behind the gate. No run checks
  it; it is a guard in each action and shown here once.

`MigrationProofs.tla`:

* `MigrationTypeOK`: `Spec => []TypeOK`.
* `NoGuestRunsTwice`: `Spec => []AtMostOneRunning`, for any number of hosts,
  handlers, ids and any faults. `AtMostOneRunning` is not inductive: a load
  could start a second copy if the state allowed the source to run while a
  receiver holds its snapshot. `IInv` adds
  - `HandlersHold`: what each program counter says of the process of the VM its
    handler owns, and that no two handlers own one VM;
  - `RegistryHolds`: a registered VM runs, on that host, and no handler owns it;
  - `TasksHold`: a restoring task owns a VM of its host that nobody else holds;
  - `IdsAreFresh`: an id not given out has no process, and every VM that
    executes has a guest;
  - `StreamsMatch`: a handler that is sending and the task that reads from it
    name each other, and a task past receiving has the whole snapshot;
  - `OneCarrier`: of one guest, at most one running VM, paused VM still to be
    handed over, or task that may restore it exists.

  The last is what one would argue about: it says that the source has
  lost the power to run a guest before the target gains it, though neither
  knows of the other. The proof has one lemma per action.
* `ListedVmsAreWhole`: `Spec => []RegisteredIsWhole`, with `Owned`: the living VMs
  of a host have a tap each that no other VM there has, the one a receiving
  task has plumbed included (`TapsHold`); a restored VM has its page server from
  before the load until it is dead (`ServersHold`); and a task at each of its
  stages names what it restores from and into (`TasksMatch`). The name of a tap
  travels inside the snapshot, so `TapsHold` has to speak of the source's VM when
  it speaks of the target's taps.
* `MovesTidyUp`: `Spec => LeavesNothingBehind`, an action property, from `IInv`
  and `Owned`. The operator `Tidy` says what one step does: a VM that had an
  owner is passed on whole or released with its process, server and tap; what
  begins to execute, a new page server and a new tap have an owner after it.
  Every action outside the exits that skip the clean-up, `SpawnHalfway` and
  `ReplumbHalfway` among them, is tidy.
* `DaemonsKeepCustody`: `Spec => KeepsCustody`, the refinement of `Custody`. Each
  action moves the place of one guest at most, along one of the abstract steps
  (`Born`, `Depart`, `Arrive`, `Lose`); with `OneCarrier` the place of a guest is
  read off one VM, paused VM or task.

`SessionsProofs.tla`, for any number of connections, turns and unread lines:

* `SessionsTypeOK`: `Spec => []TypeOK`, with `HostHolds` for what the host's
  program counter says of its link.
* `TrackerFollows`: `Spec => []TrackerFollowsChild`, which is inductive with the
  types: a printed line extends the chain, a read one shortens it.
* `CountedTurnsAreSpared`: `Spec => []SeenTurnWins`. `Later` orders turn states;
  `Ordered` says the states along the unread lines are in that order, so that
  what is over for the tracker is over for the child; `AcksHold` says that every
  answer in flight that names no turn told the truth then, and `SeenHolds`
  carries that to the host's decision.
* `WaitersGetTheirSecrets`: `Spec => []ChildHasItsSecrets`. `BootFirst`, which
  needs the key, follows the first connection: until the first vsock handshake, either no host has
  connected, or link 1 is the boot's and holds nothing but its messages, or a
  restore has closed vsock for good.

`RebalanceProofs.tla`:

* `SendsFindTheirVm`: `Spec => []VictimIsThere`, for any fleet and any
  readings. `ReadingHolds` says that what was read is still registered until
  the send is answered, which receiving tasks keep because they only add;
  `IdsDiffer` makes the id name one guest; `MoveWasRead` carries it to the
  send.
* `FleetIsTyped`: `Spec => []TypeOK`. A daemon's reading is a sum over the guests
  it has, so its range is an induction over a finite set. The library's
  induction theorems take an operator as a parameter, which the provers cannot
  instantiate; the same argument is made with the least element of a set of
  naturals (`Least`, from the well-ordering of the naturals): the smallest number
  of guests with a sum that is not a natural has none below it, and there is
  none.
* `DecisionsHold`: `Spec => []DecisionsAreTrue`. `ReadingIsTrue` says that in a step
  that began settled nothing has moved and every host read so far is read as it
  is, `DecidedOnAll` that a decision rests on every host. The rest is about
  `pick_victim`: the tie-breaks by host and id leave one coolest target and one
  victim (`OneChoice`), and each early return is true of the loads.

`DriveProofs.tla`, for any number of samples and any wire:

* `DriveFollowsFsm`: `DriveSpec => FollowsFsm`, the refinement. `HoldsPhase`
  says which phase the driver holds at each call, and each step is one
  transition of the typestate or none.
* `TurnsAreNeverCut`: `DriveSpec => []TurnNeverCut`. `BeliefCatchesUp` says that
  the last signal on the wire, or the belief when there is none, tells the
  guest's turn; `AckIsLast` that after the ack nothing but an end is sent; so a
  gated and idle belief leaves nothing on the wire that could contradict it.
  `HeldQuiet` keeps that to the cutover, and `Placed` says where the VM is.
* `OutcomesAreTrue`: `DriveSpec => []OutcomeIsTrue`, with `Ending`: what may be
  in the guest's inbox at each end of a drive.
* `VerdictsAreEarned`: `DriveSpec => []VerdictIsEarned`, with `CalmCovers`, the
  cool readings at the end of the window are no more than the history counts,
  and, for the guest, `BeliefCatchesUp` and `AckIsLast` (`VerdictIsTrue`). That
  the storage was synced is how `Verdict` is defined, and no part of it.

`RestoreProofs.tla`, for any number of cycles, pages, writes and crashes:

* `MemoryAlwaysSurvives`: `CycleSpec => []MemorySurvives`. `CycleOrder` relates
  the live VM to the cycle, `OneRuns` says that only the holder can run and
  nobody between the pause and the load, `Intact` that the holder sees the
  truth, and `FileIsRight` that the part of a snapshot that is written agrees
  with it, and all of it at the load.
* `SpawnedAlwaysListens`: `CycleSpec => []SpawnedListens`, with `OwnSocket`: from
  the spawn on the socket file is absent or the new process's.
* `NothingIsLeftBehind`: `CycleSpec => []NothingLeftBehind`, with `Tidy`: the VMs
  before the live one are over, those after the cycle's have not begun.

`TurnLoadProofs.tla`, for every schedule, deadline and freeze:

* `WaitersWait`: `Spec => []WaitersAreWaiting`, with `MapInv`.
* `ReportsAreTrue`: `Spec => []ReportIsTrue`. `DoneInv` follows a completion
  from the guest over the wire to the waiter, `TimeInv` orders the times of a
  turn, `FreezeInv` says that what came through a freeze came after it, and
  `CountInv` that the counter is the number of drops.
* `LoadIsTyped`: `Spec => []TypeOK`, with `RangeInv`: the clock and what is derived
  from it stay within the horizon, and `TimeInv` keeps a latency from being
  negative.

`PartsProofs.tla`, for the components that share nothing:

* `ShotsAreApart`: `ShotSpec => []ShotsStayApart`, for any number of runs and
  tries. `TriesInv` bounds the attempts by the tries of the runs so far,
  `AttemptInv` ties an attempt's VM and stream to where its sender is, `SentInv`
  sets the count beside the attempts that are over, `QueueInv` says that no
  attempt reaches the receiver twice, and `RestoreInv` what the receiver holds.
* `RecordsAreReal`: `LifeSpec => []RecordIsReal`. `RecordInv` says that the call
  under way is one the record allows, and that the VM does what the record says
  it does or, once Firecracker has answered, what it will say.
* `PartsAreTyped`, `PartsKeepPromises`: `MCParts`' specification has the types of
  all four components and keeps their eight safety promises. Each component's
  invariant (`DriveAll`, `RecordInv`, `ShotAll`, `CycleAll`) is kept by its own
  steps and by stuttering, and a step of `MCParts` is one or the other for each
  of the four (`EachSteps`). The types of `Restore` need `WithoutTypes`: what is
  left of the kernel's queue when events are withdrawn is a queue. `Without` is a
  recursive function of the model, the prover knowing nothing of `SelectSeq`, and
  what it returns is again shown with a least element, over the length.

Only model-checked: liveness under fairness, which is out of the prover's reach.
These are `PortIsFreed`, `HandlersAnswer`, `MoveEnds`, `RestingChildLooksQuiet`,
`CommandsEnd`, `FaultsAreServed` and `LoadEnds`. The five runs that expect a violation are refutations, and TLC's
alone.

## 6. Plan

In order of what matters most. Done: 1 to 9.

1. `Guest` and its runs. 2. `Custody`, `Migration` and its runs.
3. `GuestProofs`. 4. `MigrationProofs` up to `NoGuestRunsTwice`.
5. `Sessions`, its runs and `SessionsProofs`.
6. `Rebalance`, its runs and `RebalanceProofs`.
7. `Fsm`, `Quiesce`, `Drive`, `Lifecycle`; `OneShot`; `Restore`; `MCParts`; their
   proofs.
8. `TurnLoad` and its proofs.
9. Proofs of every safety property the runs check: custody and clean-up in
   `MigrationProofs`, `QuietViewIsTrue`, `DecisionsAreTrue`, `RecordIsReal`, and type
   correctness of each module.
10. The TCP loop beside host-driven mode, which answers a drain from a tracker
    nobody writes. `Guest` has the vsock side of that mode, its fresh supervisor
    for each connection included.
11. The framing of `transfer.rs` over a stream that may end or be altered
    anywhere.

## 7. Not modelled

* `guestd/src/clock.rs`: a pure correction of a time stamp. Nothing calls it
  but its own tests.
* Metrics and state directories (`telemetry.rs`, `statedir.rs`), reading
  `/proc/meminfo`, the quantiles and pictures of `harness/src/report.rs`, the
  command line's printing and its settings file: I/O and arithmetic on results.
* `harness/src/chaos.rs`: a randomised test of the supervisor that `Guest` models
  with every interleaving.
* The frames and checksums of `transfer.rs`, of the control channel and of the
  page server's handshake: a message or a file arrives whole, or the stream ends.
* HTTP, its parsing and the tables of routes.
* Contents of disks and clocks; of memory, everything but whether a page holds
  what was last written to it.
