----------------------------- MODULE Migration -----------------------------
(***************************************************************************)
(* The hostd daemons of a fleet: the registry of running VMs               *)
(* (crates/hostd/src/registry.rs), the source and target halves of a       *)
(* migration (migrate.rs, transfer.rs) and the HTTP handlers that run them *)
(* (bin/hostd.rs), with the host resources a VM owns: its Firecracker      *)
(* process, its tap and, after a restore, its page-server thread.          *)
(*                                                                         *)
(* A handler owns the VM it works on: spawn until the VM is registered, a  *)
(* send from take() until it is registered again or torn down.  The steps  *)
(* of a handler are the stretches between its awaits; at an await its      *)
(* client may hang up, and hyper drops the handler with all it owns.  The  *)
(* receiving task is spawned apart from its request and cannot be dropped. *)
(*                                                                         *)
(* How the guest decides that it is quiescent is module Guest; here the    *)
(* drain either succeeds or the handler stands down.                       *)
(***************************************************************************)
EXTENDS Integers, FiniteSets

CONSTANTS
  Hosts,     \* hosts, each running one hostd with one data port
  Vm,        \* VM ids that VmId::new() may return (bound: their number)
  Handlers,  \* HTTP handlers in progress at once (bound)
  MaxIdx,    \* the last tap index net::create accepts; -1: no networked VMs
  NoVm, NoHost, NoTap, NoHandler,
  Faults     \* the kinds of failure the environment may produce

FaultKinds == {"hangup", "boot", "plumb", "metadata", "pause", "network",
               "receive", "uffd", "load"}

ASSUME FaultsAssumption == Faults \subseteq FaultKinds
ASSUME MaxIdxAssumption == MaxIdx \in Int /\ MaxIdx >= -1
ASSUME SentinelsAssumption ==
  NoVm \notin Vm /\ NoHost \notin Hosts /\ NoTap \notin Nat
    /\ NoHandler \notin Handlers

VARIABLES
  proc,      \* each VM's Firecracker process
  guest,     \* history: the VM id the guest inside was first booted under
  at,        \* the host a VM id was allocated on
  tap,       \* RunningVm.net: the tap index a VM carries
  snap,      \* VMs whose snapshot files are in their work directory
  registry,  \* VmRegistry.vms of each host
  taps,      \* tap indices that exist on each host
  servers,   \* VMs with a page-server thread
  netSeq,    \* NET_SEQ of each host's daemon
  job,       \* the handlers: spawns and sends
  rx         \* the receiving task of each host

vmVars == <<proc, guest, at, tap, snap>>
hostVars == <<registry, taps, servers, netSeq>>
vars == <<vmVars, hostVars, job, rx>>

Idx == 0..MaxIdx
ProcStates == {"none", "running", "paused", "killed"}
SpawnPcs == {"booting", "booted"}
SendPcs == {"draining", "pausing", "paused", "snapped", "queued", "sending",
            "reset", "sent"}
RxPcs == {"idle", "listening", "receiving", "received", "plumbed", "loading",
          "loaded"}
Streams == {"none", "open", "flushed", "cut"}

JobPcs == {"idle"} \cup SpawnPcs \cup SendPcs
JobRecords == [pc : JobPcs, vm : Vm \cup {NoVm}, to : Hosts \cup {NoHost}]
RxRecords == [pc : RxPcs, stream : Streams, from : Handlers \cup {NoHandler},
              src : Vm \cup {NoVm}, into : Vm \cup {NoVm}]

IdleJob == [pc |-> "idle", vm |-> NoVm, to |-> NoHost]
IdleRx == [pc |-> "idle", stream |-> "none", from |-> NoHandler,
           src |-> NoVm, into |-> NoVm]

Fresh(v) == at[v] = NoHost

\* Bound: a request is let in only while every receiving task that has not
\* allocated its VM yet still finds an id.
IdsLeft ==
  Cardinality({v \in Vm : Fresh(v)})
    > Cardinality({h \in Hosts :
                     rx[h].pc \notin {"idle", "loading", "loaded"}})

Networked(v) == tap[v] # NoTap

----------------------------------------------------------------------------
(* Resources                                                               *)

\* Mutant: the page-server thread is not told to stop.
TeardownKeepsServer(v) ==
  /\ proc' = [proc EXCEPT ![v] = "killed"]
  /\ taps' = [taps EXCEPT ![at[v]] = @ \ {tap[v]}]
  /\ snap' = snap \ {v}
  /\ UNCHANGED servers

\* RunningVm::teardown: process, page server, tap, work directory.
Teardown(v) ==
  /\ proc' = [proc EXCEPT ![v] = "killed"]
  /\ servers' = servers \ {v}
  /\ taps' = [taps EXCEPT ![at[v]] = @ \ {tap[v]}]
  /\ snap' = snap \ {v}

\* net::create has an address left for the daemon's next index.
\* (Mutant: the range of the index is not checked.)
IndexUnchecked(h) == TRUE
IndexLeft(h) == netSeq[h] \in Idx

\* create_tap's `ip tuntap add` fails on a name the host already has.
\* (Mutant: an existing tap is taken over.)
TapTakenOver(h, i) == TRUE
TapFree(h, i) == i \notin taps[h]

\* A receiving task whose sender has written all it will.
Unlinked(r, stream) == [pc |-> r.pc, stream |-> stream, from |-> NoHandler,
                        src |-> r.src, into |-> r.into]

\* The connection of handler j, if its receiver still reads it, is cut.
CutStream(j) ==
  rx' = [h \in Hosts |->
           IF rx[h].from = j THEN Unlinked(rx[h], "cut") ELSE rx[h]]

\* Mutant: a sender that waits in the backlog is not told.
EndRxForgetsBacklog(h) ==
  /\ rx' = [rx EXCEPT ![h] = IdleRx]
  /\ job' = [j \in Handlers |->
               IF rx[h].from = j
               THEN [pc |-> "reset", vm |-> job[j].vm, to |-> job[j].to]
               ELSE job[j]]

\* The receiving task of h ends: its listener closes, and every sender that
\* is connected to it, accepted or in the backlog, is reset.
EndRx(h) ==
  /\ rx' = [rx EXCEPT ![h] = IdleRx]
  /\ job' = [j \in Handlers |->
               IF \/ rx[h].from = j
                  \/ job[j].pc = "queued" /\ job[j].to = h
               THEN [pc |-> "reset", vm |-> job[j].vm, to |-> job[j].to]
               ELSE job[j]]

Goto(j, pc) == job' = [job EXCEPT ![j].pc = pc]
RxGoto(h, pc) == rx' = [rx EXCEPT ![h].pc = pc]
EndJob(j) == job' = [job EXCEPT ![j] = IdleJob]

----------------------------------------------------------------------------
(* POST /vms/spawn: VmRegistry::spawn                                      *)

\* The network first: the next index, if a tap can be made for it.
SpawnPlumb(j, h, v) ==
  /\ job[j].pc = "idle" /\ Fresh(v) /\ IdsLeft
  /\ IndexLeft(h) /\ TapFree(h, netSeq[h])
  /\ netSeq' = [netSeq EXCEPT ![h] = @ + 1]
  /\ taps' = [taps EXCEPT ![h] = @ \cup {netSeq[h]}]
  /\ tap' = [tap EXCEPT ![v] = netSeq[h]]
  /\ at' = [at EXCEPT ![v] = h]
  /\ job' = [job EXCEPT ![j] = [pc |-> "booting", vm |-> v, to |-> NoHost]]
  /\ UNCHANGED <<proc, guest, snap, registry, servers, rx>>

\* The index is used up even when the request is refused because the host has
\* a tap of that name.  (Past MaxIdx every request is refused, and the count
\* no longer matters.)
SpawnRefused(h) ==
  /\ IndexLeft(h) /\ ~TapFree(h, netSeq[h])
  /\ netSeq' = [netSeq EXCEPT ![h] = @ + 1]
  /\ UNCHANGED <<vmVars, registry, taps, servers, job, rx>>

\* create_tap's second or third command, the bridge or the link up, fails with
\* the tap already made: net::create and spawn return, and it stays.
SpawnHalfway(h) ==
  /\ "plumb" \in Faults
  /\ IndexLeft(h) /\ TapFree(h, netSeq[h])
  /\ netSeq' = [netSeq EXCEPT ![h] = @ + 1]
  /\ taps' = [taps EXCEPT ![h] = @ \cup {netSeq[h]}]
  /\ UNCHANGED <<vmVars, registry, servers, job, rx>>

\* Without a network there is nothing to plumb.
SpawnPlain(j, h, v) ==
  /\ job[j].pc = "idle" /\ Fresh(v) /\ IdsLeft
  /\ at' = [at EXCEPT ![v] = h]
  /\ job' = [job EXCEPT ![j] = [pc |-> "booting", vm |-> v, to |-> NoHost]]
  /\ UNCHANGED <<proc, guest, tap, snap, hostVars, rx>>

Boot(j) ==
  /\ job[j].pc = "booting"
  /\ proc' = [proc EXCEPT ![job[j].vm] = "running"]
  /\ guest' = [guest EXCEPT ![job[j].vm] = job[j].vm]
  /\ Goto(j, "booted")
  /\ UNCHANGED <<at, tap, snap, hostVars, rx>>

\* A step of spawn fails, or its client hangs up: dropping FcProcess kills
\* the VM; the tap stays.  An id that was never given out is fresh again, so
\* that failures do not use up the bounded supply.
SpawnFail(j) ==
  LET v == job[j].vm IN
  /\ {"boot", "hangup"} \cap Faults # {}
  /\ \/ /\ job[j].pc = "booting"
        /\ at' = [at EXCEPT ![v] = NoHost]
        /\ tap' = [tap EXCEPT ![v] = NoTap]
        /\ UNCHANGED proc
     \/ /\ job[j].pc = "booted"
        /\ proc' = [proc EXCEPT ![v] = "killed"]
        /\ UNCHANGED <<at, tap>>
  /\ EndJob(j)
  /\ UNCHANGED <<guest, snap, hostVars, rx>>

\* insert, here and in the other two places a VM is registered.
Insert(v) == registry' = [registry EXCEPT ![at[v]] = @ \cup {v}]

SpawnInsert(j) ==
  /\ job[j].pc = "booted"
  /\ Insert(job[j].vm)
  /\ EndJob(j)
  /\ UNCHANGED <<vmVars, taps, servers, netSeq, rx>>

----------------------------------------------------------------------------
(* POST /migrate/send: take, migrate_running                               *)

Take(j, v, d) ==
  /\ job[j].pc = "idle"
  /\ at[v] # d                     \* the rebalancer never sends a VM home
  /\ \E h \in Hosts :
       /\ v \in registry[h]
       /\ registry' = [registry EXCEPT ![h] = @ \ {v}]
  /\ job' = [job EXCEPT ![j] = [pc |-> "draining", vm |-> v, to |-> d]]
  /\ UNCHANGED <<vmVars, taps, servers, netSeq, rx>>

\* The guest could not be reached, failed to answer, or was busy.
StandDown(j) ==
  /\ job[j].pc = "draining"
  /\ Insert(job[j].vm)
  /\ EndJob(j)
  /\ UNCHANGED <<vmVars, taps, servers, netSeq, rx>>

\* The guest is quiescent and the metadata files are written.
Drained(j) ==
  /\ job[j].pc = "draining"
  /\ Goto(j, "pausing")
  /\ UNCHANGED <<vmVars, hostVars, rx>>

\* Every later failure ends in teardown: a metadata file that cannot be
\* written, a failing pause or snapshot, a refused or broken connection.
MayFail(j) ==
  \/ job[j].pc = "draining" /\ "metadata" \in Faults
  \/ job[j].pc \in {"pausing", "paused"} /\ "pause" \in Faults
  \/ job[j].pc \in {"snapped", "queued", "sending", "sent"}
       /\ "network" \in Faults
  \/ job[j].pc = "snapped" /\ rx[job[j].to].pc = "idle"
  \/ job[j].pc = "reset"

\* Mutant: the failover the documents promise, done without asking whether
\* the receiver already has the whole snapshot.
SendFailResumes(j) ==
  /\ MayFail(j)
  /\ proc' = [proc EXCEPT ![job[j].vm] = "running"]
  /\ Insert(job[j].vm)
  /\ CutStream(j)
  /\ EndJob(j)
  /\ UNCHANGED <<guest, at, tap, snap, taps, servers, netSeq>>

SendFail(j) ==
  /\ MayFail(j)
  /\ Teardown(job[j].vm)
  /\ CutStream(j)
  /\ EndJob(j)
  /\ UNCHANGED <<guest, at, tap, registry, netSeq>>

Pause(j) ==
  /\ job[j].pc = "pausing"
  /\ proc' = [proc EXCEPT ![job[j].vm] = "paused"]
  /\ Goto(j, "paused")
  /\ UNCHANGED <<guest, at, tap, snap, hostVars, rx>>

CreateSnapshot(j) ==
  /\ job[j].pc = "paused"
  /\ snap' = snap \cup {job[j].vm}
  /\ Goto(j, "snapped")
  /\ UNCHANGED <<proc, guest, at, tap, hostVars, rx>>

\* TcpStream::connect succeeds against any listener, busy or not.
Connect(j) ==
  /\ job[j].pc = "snapped"
  /\ rx[job[j].to].pc # "idle"
  /\ Goto(j, "queued")
  /\ UNCHANGED <<vmVars, hostVars, rx>>

\* send_files wrote its last byte.  A memory image is far larger than the
\* socket buffers, so this takes a receiver that reads.
Flush(j) ==
  /\ job[j].pc = "sending"
  /\ rx' = [rx EXCEPT ![job[j].to] = Unlinked(@, "flushed")]
  /\ Goto(j, "sent")
  /\ UNCHANGED <<vmVars, hostVars>>

\* send_snapshot returned: the source is torn down and the VM reported moved.
Moved(j) ==
  /\ job[j].pc = "sent"
  /\ Teardown(job[j].vm)
  /\ EndJob(j)
  /\ UNCHANGED <<guest, at, tap, registry, netSeq, rx>>

\* The client hangs up: the handler is dropped, and FcProcess's Drop kills
\* the VM.  Its tap, page server and files stay.
Hangup(j) ==
  /\ "hangup" \in Faults
  /\ job[j].pc \in SendPcs
  /\ proc' = [proc EXCEPT ![job[j].vm] = "killed"]
  /\ CutStream(j)
  /\ EndJob(j)
  /\ UNCHANGED <<guest, at, tap, snap, hostVars>>

----------------------------------------------------------------------------
(* POST /migrate/recv: receive_and_restore                                 *)

Bind(h) ==
  /\ rx[h].pc = "idle" /\ IdsLeft
  /\ RxGoto(h, "listening")
  /\ UNCHANGED <<vmVars, hostVars, job>>

\* Mutant: accept has no deadline.
AcceptForever(h) == FALSE

\* A sender that connected and went away is accepted too, and fails at once;
\* that ends the task as the timeout does.
AcceptTimeout(h) ==
  /\ rx[h].pc = "listening"
  /\ \A j \in Handlers : ~(job[j].pc = "queued" /\ job[j].to = h)
  /\ EndRx(h)
  /\ UNCHANGED <<vmVars, hostVars>>

Accept(h, j) ==
  /\ rx[h].pc = "listening"
  /\ job[j].pc = "queued" /\ job[j].to = h
  /\ rx' = [rx EXCEPT ![h] = [pc |-> "receiving", stream |-> "open",
                              from |-> j, src |-> job[j].vm, into |-> NoVm]]
  /\ Goto(j, "sending")
  /\ UNCHANGED <<vmVars, hostVars>>

\* Mutant: a stream that ends early passes for a whole one.
RecvDoneAtEof(h) ==
  /\ rx[h].pc = "receiving" /\ rx[h].stream # "open"
  /\ RxGoto(h, "received")
  /\ UNCHANGED <<vmVars, hostVars, job>>

RecvDone(h) ==
  /\ rx[h].pc = "receiving" /\ rx[h].stream = "flushed"
  /\ RxGoto(h, "received")
  /\ UNCHANGED <<vmVars, hostVars, job>>

\* The stream broke off, a checksum did not match or the disk was full.
RecvFail(h) ==
  /\ rx[h].pc = "receiving"
  /\ rx[h].stream = "cut" \/ "receive" \in Faults
  /\ EndRx(h)
  /\ UNCHANGED <<vmVars, hostVars>>

\* create_tap under the name in the snapshot, if the VM has a network.
Replumb(h) ==
  LET i == tap[rx[h].src] IN
  /\ rx[h].pc = "received"
  /\ TapFree(h, i)
  /\ taps' = [taps EXCEPT ![h] = @ \cup ({i} \ {NoTap})]
  /\ RxGoto(h, "plumbed")
  /\ UNCHANGED <<vmVars, registry, servers, netSeq, job>>

\* A tap of that name is there already, or none can be made.
ReplumbFail(h) ==
  /\ rx[h].pc = "received"
  /\ Networked(rx[h].src)
  /\ ~TapFree(h, tap[rx[h].src]) \/ "plumb" \in Faults
  /\ EndRx(h)
  /\ UNCHANGED <<vmVars, hostVars>>

\* The tap is made but cannot be put on the bridge or brought up: only the work
\* directory is removed.
ReplumbHalfway(h) ==
  /\ "plumb" \in Faults
  /\ rx[h].pc = "received"
  /\ Networked(rx[h].src) /\ TapFree(h, tap[rx[h].src])
  /\ taps' = [taps EXCEPT ![h] = @ \cup {tap[rx[h].src]}]
  /\ EndRx(h)
  /\ UNCHANGED <<vmVars, registry, servers, netSeq>>

\* The page-server thread is started, then Firecracker.
Serve(h, v) ==
  /\ rx[h].pc = "plumbed" /\ Fresh(v)
  /\ at' = [at EXCEPT ![v] = h]
  /\ tap' = [tap EXCEPT ![v] = tap[rx[h].src]]
  /\ servers' = servers \cup {v}
  /\ rx' = [rx EXCEPT ![h] = [pc |-> "loading", stream |-> @.stream,
                              from |-> @.from, src |-> @.src, into |-> v]]
  /\ UNCHANGED <<proc, guest, snap, registry, taps, netSeq, job>>

\* Binding the page-server socket or starting Firecracker fails with `?`:
\* the tap stays and, in the second case, the thread does.
ServeFail(h, v) ==
  /\ "uffd" \in Faults
  /\ rx[h].pc = "plumbed" /\ Fresh(v)
  /\ \/ UNCHANGED <<at, tap, proc, servers>>
     \/ /\ at' = [at EXCEPT ![v] = h]
        /\ tap' = [tap EXCEPT ![v] = tap[rx[h].src]]
        /\ proc' = [proc EXCEPT ![v] = "killed"]
        /\ servers' = servers \cup {v}
  /\ EndRx(h)
  /\ UNCHANGED <<guest, snap, registry, taps, netSeq>>

\* load_snapshot with resume: the guest executes here from now on.
Load(h) ==
  LET v == rx[h].into IN
  /\ rx[h].pc = "loading"
  /\ proc' = [proc EXCEPT ![v] = "running"]
  /\ guest' = [guest EXCEPT ![v] = guest[rx[h].src]]
  /\ RxGoto(h, "loaded")
  /\ UNCHANGED <<at, tap, snap, hostVars, job>>

\* load_snapshot failed: everything the task built is taken down, and the id
\* was never given out.
LoadFail(h) ==
  LET v == rx[h].into IN
  /\ "load" \in Faults
  /\ rx[h].pc = "loading"
  /\ servers' = servers \ {v}
  /\ taps' = [taps EXCEPT ![h] = @ \ {tap[v]}]
  /\ at' = [at EXCEPT ![v] = NoHost]
  /\ tap' = [tap EXCEPT ![v] = NoTap]
  /\ EndRx(h)
  /\ UNCHANGED <<proc, guest, snap, registry, netSeq>>

Register(h) ==
  /\ rx[h].pc = "loaded"
  /\ Insert(rx[h].into)
  /\ EndRx(h)
  /\ UNCHANGED <<vmVars, taps, servers, netSeq>>

----------------------------------------------------------------------------
Init ==
  /\ proc = [v \in Vm |-> "none"] /\ guest = [v \in Vm |-> NoVm]
  /\ at = [v \in Vm |-> NoHost] /\ tap = [v \in Vm |-> NoTap]
  /\ snap = {} /\ servers = {}
  /\ registry = [h \in Hosts |-> {}] /\ taps = [h \in Hosts |-> {}]
  /\ netSeq = [h \in Hosts |-> 0]
  /\ job = [j \in Handlers |-> IdleJob]
  /\ rx = [h \in Hosts |-> IdleRx]

\* The steps by which a handler in progress goes on, and a receiving task.
JobStep(j) ==
  \/ Boot(j) \/ SpawnInsert(j) \/ StandDown(j) \/ Drained(j) \/ SendFail(j)
  \/ Pause(j) \/ CreateSnapshot(j) \/ Connect(j) \/ Flush(j) \/ Moved(j)
RxStep(h) ==
  \/ AcceptTimeout(h) \/ RecvDone(h) \/ RecvFail(h) \/ Replumb(h)
  \/ ReplumbFail(h) \/ ReplumbHalfway(h) \/ Load(h) \/ LoadFail(h)
  \/ Register(h)
  \/ \E j \in Handlers : Accept(h, j)
  \/ \E v \in Vm : Serve(h, v) \/ ServeFail(h, v)

Next ==
  \/ \E j \in Handlers :
       \/ JobStep(j) \/ SpawnFail(j) \/ Hangup(j)
       \/ \E h \in Hosts, v \in Vm :
            SpawnPlumb(j, h, v) \/ SpawnPlain(j, h, v) \/ Take(j, v, h)
  \/ \E h \in Hosts :
       RxStep(h) \/ Bind(h) \/ SpawnRefused(h) \/ SpawnHalfway(h)

Spec == Init /\ [][Next]_vars

\* The runtime keeps polling a handler and a receiving task; the guest
\* answers its handshake and the peer's kernel keeps reading or fails.
Fairness ==
  /\ \A j \in Handlers : WF_vars(JobStep(j))
  /\ \A h \in Hosts : WF_vars(RxStep(h))

FairSpec == Spec /\ Fairness

----------------------------------------------------------------------------
(* Properties                                                              *)

\* Every variable stays in its type.
TypeOK ==
  /\ proc \in [Vm -> ProcStates] /\ guest \in [Vm -> Vm \cup {NoVm}]
  /\ at \in [Vm -> Hosts \cup {NoHost}] /\ tap \in [Vm -> Idx \cup {NoTap}]
  /\ snap \subseteq Vm /\ servers \subseteq Vm
  /\ registry \in [Hosts -> SUBSET Vm] /\ taps \in [Hosts -> SUBSET Idx]
  /\ netSeq \in [Hosts -> 0..(MaxIdx + 1)]
  /\ job \in [Handlers -> JobRecords] /\ rx \in [Hosts -> RxRecords]

Running(v) == proc[v] = "running"
Restored(v) == guest[v] # v
RunsSomewhere(g) == \E v \in Vm : Running(v) /\ guest[v] = g

\* No guest executes twice, whatever requests race for it, hang up or fail,
\* and whether or not its source has been torn down yet.
AtMostOneRunning ==
  \A v, w \in Vm : (Running(v) /\ Running(w) /\ guest[v] = guest[w]) => v = w

\* Every VM a registry lists is whole: it runs on that host and on no other
\* handler's account, its tap exists and is no other live VM's, and its pages
\* are served.
RegisteredIsWhole ==
  \A h \in Hosts : \A v \in registry[h] :
    /\ Running(v) /\ at[v] = h
    /\ \A j \in Handlers : job[j].vm # v
    /\ Networked(v) => tap[v] \in taps[h]
    /\ \A w \in Vm : (w # v /\ Running(w) /\ at[w] = h /\ Networked(w))
                      => tap[w] # tap[v]
    /\ Restored(v) => v \in servers

\* VMs that something still owns.
Held == (UNION {registry[h] : h \in Hosts})
          \cup {job[j].vm : j \in Handlers} \cup {rx[h].into : h \in Hosts}

\* Processes, page-server threads and taps that nothing owns any more.
UnownedTaps(h) ==
  {i \in taps[h] :
     /\ \A v \in Held \ {NoVm} : ~(at[v] = h /\ tap[v] = i)
     /\ ~(rx[h].pc = "plumbed" /\ tap[rx[h].src] = i)}
Orphans ==
  {<<"process", v>> : v \in {w \in Vm \ Held :
                               proc[w] \in {"running", "paused"}}}
    \cup {<<"server", v>> : v \in servers \ Held}
    \cup UNION {{<<"tap", h, i>> : i \in UnownedTaps(h)} : h \in Hosts}

\* Nothing is left behind by a move, whether it succeeds, stands down or fails
\* on either host, except at the exits that skip their clean-up: a spawn that
\* fails or is dropped, a send that is dropped, a tap that is made but cannot
\* be brought up, at a spawn or a restore, and the two `?`s between the tap and
\* the load.
LeavesNothingBehind ==
  [][\/ Orphans' \subseteq Orphans
     \/ \E j \in Handlers : SpawnFail(j) \/ Hangup(j)
     \/ \E h \in Hosts : SpawnHalfway(h) \/ ReplumbHalfway(h)
     \/ \E h \in Hosts, v \in Vm : ServeFail(h, v)]_vars

\* A receiving task ends and frees the host's data port, whether its sender
\* stood down, was refused, broke off or was served.
PortIsFreed == \A h \in Hosts : (rx[h].pc # "idle") ~> (rx[h].pc = "idle")

\* Every request that a handler started is answered.
HandlersAnswer ==
  \A j \in Handlers : (job[j].pc # "idle") ~> (job[j].pc = "idle")

\* Where each guest is, read off the daemons' state: on the host of its
\* running VM, else under way while a paused VM or a receiving task has it.
Carries(h, g) ==
  /\ rx[h].src # NoVm /\ rx[h].stream # "cut"
  /\ guest[rx[h].src] = g
PlaceOf(g) ==
  IF RunsSomewhere(g)
    THEN at[CHOOSE v \in Vm : Running(v) /\ guest[v] = g]
  ELSE IF \/ \E v \in Vm : proc[v] = "paused" /\ guest[v] = g
          \/ \E h \in Hosts : Carries(h, g)
    THEN "moving"
  ELSE IF guest[g] = g THEN "lost" ELSE "unborn"

custody == INSTANCE Custody WITH
             Guests <- Vm, place <- [g \in Vm |-> PlaceOf(g)]

\* The daemons implement Custody: a guest changes hosts only by way of the
\* wire, and a guest given up for lost never turns up again.
KeepsCustody == custody!Spec

\* fsm.rs: once memory has been dumped a migration runs to completion or
\* fails over to resume-on-source; either way the guest runs again.
CompletesOrResumes ==
  \A v \in Vm : (v \in snap) ~> RunsSomewhere(guest[v])

\* migrate.rs: pre-snapshot failures must not destroy the VM.
PreSnapshotFailureKeepsVm ==
  [][\A j \in Handlers : job[j].pc = "draining" =>
        proc'[job[j].vm] = "running"]_vars

============================================================================
