------------------------------ MODULE Restore ------------------------------
(***************************************************************************)
(* Lazy restore: the page-fault server (crates/hostd/src/uffd.rs), the     *)
(* Firecracker process (process.rs) and the ping-pong benchmark that       *)
(* drives both (bin/migrate_bench.rs).  Each cycle pauses the live VM,     *)
(* snapshots it and resumes the snapshot on a fresh Firecracker whose      *)
(* memory is empty: every page is brought in by that VM's own server       *)
(* thread when somebody touches it.                                        *)
(*                                                                         *)
(* VM 0 is booted; VM g is restored by cycle g.  External: Firecracker and *)
(* the kernel's userfaultfd.  A thread that touches a missing page traps,  *)
(* puts an event in the queue, looks at the page once more and sleeps;     *)
(* UFFDIO_COPY fills a missing page, wakes who waits for it and takes      *)
(* their unread events back, and fails on a page that is there.            *)
(***************************************************************************)
EXTENDS Integers, Sequences

CONSTANTS
  Cycles,     \* SLEEPWALK_BENCH_CYCLES
  NumPages,   \* pages of guest memory (bound)
  QueuePages, \* those a device's queues are on (bound)
  MaxWrites,  \* values the guest writes (bound)
  MaxCrashes, \* Firecracker processes that die by themselves (bound)
  Missing,    \* a page that is not mapped
  Hole        \* a part of a memory file nothing was written to

ASSUME CyclesAssumption == Cycles \in Nat
ASSUME PagesAssumption ==
  /\ NumPages \in Nat \ {0}
  /\ QueuePages \subseteq 1..NumPages
ASSUME BoundsAssumption == MaxWrites \in Nat /\ MaxCrashes \in Nat
ASSUME MarksAssumption == Missing \notin Nat /\ Hole \notin Nat

Vms == 0..Cycles
Pages == 1..NumPages
Values == 0..MaxWrites
NoPage == 0

\* vcpu_count is 1; Firecracker's own thread emulates the devices and writes
\* the snapshot.
Threads == {"vcpu", "vmm"}

VARIABLES
  pc,       \* where the benchmark is
  cycle,    \* the cycle under way
  live,     \* the VM the benchmark holds as live
  fc,       \* each VM's Firecracker
  sock,     \* each API socket file
  memory,   \* each VM's guest memory
  touch,    \* the missing page a thread wants
  queued,   \* threads whose fault is in the kernel's list
  unread,   \* the events of a VM's userfaultfd, oldest first
  server,   \* each VM's page server thread
  serving,  \* the page a server is about to copy
  stop,     \* VMs whose server is told to stop
  file,     \* the memory files
  truth,    \* history: what the guest last wrote to each page
  crashes   \* history: Firecrackers that died by themselves

benchVars == <<pc, cycle, live>>
fcVars == <<fc, sock, crashes>>
kernelVars == <<memory, touch, queued, unread>>
serverVars == <<server, serving, stop>>
cycleVars == <<benchVars, fcVars, kernelVars, serverVars, file, truth>>

Pcs == {"spawn", "appear", "boot", "bind", "pause", "snapshot", "writing",
        "load", "kill", "join", "done", "panicked"}
Processes == {"none", "starting", "ready", "running", "paused", "dead"}
Servers == {"none", "listening", "connected", "polling", "copying",
            "ended", "failed"}
Finished == {"ended", "failed"}

Alive(v) == fc[v] \notin {"none", "dead"}
Asleep(v, t) == touch[v][t] # NoPage

-----------------------------------------------------------------------------
(* What becomes of a VM's memory, threads and userfaultfd.                 *)

NoTouch == [t \in Threads |-> NoPage]

\* The process is gone: nobody waits for a page any more.
Gone(vs) ==
  /\ fc' = [v \in Vms |-> IF v \in vs /\ Alive(v) THEN "dead" ELSE fc[v]]
  /\ touch' = [v \in Vms |-> IF v \in vs THEN NoTouch ELSE touch[v]]
  /\ queued' = [v \in Vms |-> IF v \in vs THEN {} ELSE queued[v]]
  /\ unread' = [v \in Vms |-> IF v \in vs THEN <<>> ELSE unread[v]]
  /\ UNCHANGED memory

\* expect() panics: the unwinding drops every FcProcess, and the process ends
\* with its server threads.
Panic ==
  /\ pc' = "panicked"
  /\ Gone(Vms)
  /\ server' = [v \in Vms |->
                  IF server[v] \in {"none", "failed"} THEN server[v]
                  ELSE "ended"]
  /\ UNCHANGED <<cycle, live, sock, serving, stop, file, truth, crashes>>

-----------------------------------------------------------------------------
(* The client's calls (firecracker.rs), as far as what they make           *)
(* Firecracker do (external).                                              *)

\* configure_machine, configure_boot_source, configure_drive, boot.
ConfigureAndBoot(v) ==
  /\ fc[v] = "ready"
  /\ fc' = [fc EXCEPT ![v] = "running"]
  /\ memory' = [memory EXCEPT ![v] = [p \in Pages |-> 0]]

\* Firecracker's thread takes the call, and the vCPU has to leave the page it
\* waits for before it can stop.
PauseVm(v) ==
  /\ fc[v] = "running"
  /\ \A t \in Threads : ~Asleep(v, t)
  /\ fc' = [fc EXCEPT ![v] = "paused"]

\* The file f is truncated first.
BeginSnapshot(v, f) ==
  /\ Alive(v) /\ ~Asleep(v, "vmm")
  /\ file' = [file EXCEPT ![f] = [p \in Pages |-> Hole]]

\* load_snapshot with the Uffd backend and resume_vm: Firecracker connects to
\* the handler's socket, sends its layout and userfaultfd, and resumes.
LoadVm(v) ==
  /\ fc[v] = "ready" /\ server[v] = "listening"
  /\ fc' = [fc EXCEPT ![v] = "running"]
  /\ memory' = [memory EXCEPT ![v] = [p \in Pages |-> Missing]]
  /\ server' = [server EXCEPT ![v] = "connected"]

-----------------------------------------------------------------------------
(* The benchmark.                                                          *)

\* The process the benchmark starts next: VM 0 first, then a target a cycle.
Target == cycle

\* Mutant: the stale socket file is left where it is.
SpawnBesideStale ==
  /\ pc = "spawn"
  /\ fc' = [fc EXCEPT ![Target] = "starting"]
  /\ pc' = "appear"
  /\ UNCHANGED <<cycle, live, sock, crashes, kernelVars, serverVars, file,
                 truth>>

\* FcProcess::spawn, up to the wait.  A socket file of an earlier run goes.
Spawn ==
  /\ pc = "spawn"
  /\ sock' = [sock EXCEPT ![Target] = "absent"]
  /\ fc' = [fc EXCEPT ![Target] = "starting"]
  /\ pc' = "appear"
  /\ UNCHANGED <<cycle, live, crashes, kernelVars, serverVars, file, truth>>

\* wait_for_socket: the file is there.
SocketAppears ==
  /\ pc = "appear" /\ sock[Target] # "absent"
  /\ pc' = IF Target = 0 THEN "boot" ELSE "pause"
  /\ UNCHANGED <<cycle, live, fcVars, kernelVars, serverVars, file, truth>>

\* wait_for_socket: Firecracker exited, or the deadline passed.
SocketNeverAppears ==
  /\ pc = "appear" /\ sock[Target] = "absent"
  /\ Panic

\* Mutant: one cycle too many.
NextCycleTooMany ==
  /\ cycle' = IF cycle <= Cycles THEN cycle + 1 ELSE cycle
  /\ pc' = IF cycle <= Cycles THEN "bind" ELSE "kill"

\* The for loop: one more cycle, or the live VM is retired as well.
NextCycle ==
  /\ cycle' = IF cycle < Cycles THEN cycle + 1 ELSE cycle
  /\ pc' = IF cycle < Cycles THEN "bind" ELSE "kill"

\* boot_initial: the first VM, up to its login prompt.
BootInitial ==
  /\ pc = "boot" /\ ConfigureAndBoot(0)
  /\ NextCycle
  /\ UNCHANGED <<live, sock, crashes, touch, queued, unread, serverVars, file,
                 truth>>

\* The prompt does not come within 20 seconds.
NoPrompt == pc = "boot" /\ Panic

\* A new cycle: bind the handler's socket, start its thread, spawn a target.
BindHandler ==
  /\ pc = "bind"
  /\ server' = [server EXCEPT ![cycle] = "listening"]
  /\ pc' = "spawn"
  /\ UNCHANGED <<cycle, live, fcVars, kernelVars, serving, stop, file, truth>>

PauseLive ==
  /\ pc = "pause" /\ PauseVm(live)
  /\ pc' = "snapshot"
  /\ UNCHANGED <<cycle, live, sock, crashes, kernelVars, serverVars, file,
                 truth>>

\* Mutant: every cycle uses the one path.
OneMemFile(c) == 1

\* The file a cycle's snapshot is written to and its server reads.
MemFile(c) == c

CreateSnapshot ==
  /\ pc = "snapshot" /\ BeginSnapshot(live, MemFile(cycle))
  /\ pc' = "writing"
  /\ UNCHANGED <<cycle, live, fcVars, kernelVars, serverVars, truth>>

\* External: Firecracker writes the file in page order, reading the guest's
\* memory on its own thread.
NextPage == {p \in Pages :
               /\ file[MemFile(cycle)][p] = Hole
               /\ \A q \in 1..(p - 1) : file[MemFile(cycle)][q] # Hole}

WritePage(p) ==
  /\ pc = "writing" /\ Alive(live) /\ p \in NextPage
  /\ memory[live][p] # Missing /\ ~Asleep(live, "vmm")
  /\ file' = [file EXCEPT ![MemFile(cycle)][p] = memory[live][p]]
  /\ UNCHANGED <<benchVars, fcVars, kernelVars, serverVars, truth>>

SnapshotWritten ==
  /\ pc = "writing" /\ Alive(live)
  /\ \A p \in Pages : file[MemFile(cycle)][p] # Hole
  /\ pc' = "load"
  /\ UNCHANGED <<cycle, live, fcVars, kernelVars, serverVars, file, truth>>

LoadSnapshot ==
  /\ pc = "load" /\ LoadVm(cycle)
  /\ pc' = "kill"
  /\ UNCHANGED <<cycle, live, sock, crashes, touch, queued, unread, serving,
                 stop, file, truth>>

\* retire: FcProcess::kill.
KillRetired ==
  /\ pc = "kill"
  /\ Gone({live})
  /\ pc' = "join"
  /\ UNCHANGED <<cycle, live, sock, crashes, serverVars, file, truth>>

\* Handler::stop, when the VM has one: raise the flag, then join the thread.
StopHandler ==
  /\ pc = "join" /\ live # 0 /\ live \notin stop
  /\ stop' = stop \cup {live}
  /\ UNCHANGED <<benchVars, fcVars, kernelVars, server, serving, file, truth>>

\* Mutant: the handler is dropped with its VM.
HandlerDropped == TRUE

HandlerEnded == live = 0 \/ (live \in stop /\ server[live] \in Finished)

\* The retired VM is through: either the cycle's target is live now, or it was
\* the last one and the benchmark reports.
Retired ==
  /\ pc = "join" /\ HandlerEnded
  /\ IF live < cycle THEN live' = cycle /\ NextCycle
     ELSE pc' = "done" /\ UNCHANGED <<cycle, live>>
  /\ UNCHANGED <<fcVars, kernelVars, serverVars, file, truth>>

\* A call whose Firecracker is not there: Unreachable, and expect() panics.
ApiUnreachable ==
  /\ \/ pc \in {"boot", "load"} /\ fc[Target] = "dead"
     \/ pc \in {"pause", "snapshot", "writing"} /\ ~Alive(live)
  /\ Panic

Bench ==
  \/ Spawn \/ SocketAppears \/ SocketNeverAppears
  \/ BootInitial \/ NoPrompt
  \/ BindHandler \/ PauseLive \/ CreateSnapshot \/ SnapshotWritten
  \/ LoadSnapshot \/ KillRetired \/ StopHandler \/ Retired
  \/ ApiUnreachable
  \/ \E p \in Pages : WritePage(p)

-----------------------------------------------------------------------------
(* Firecracker and the guest (external).                                   *)

\* Firecracker binds its API socket.
Listen(v) ==
  /\ fc[v] = "starting"
  /\ fc' = [fc EXCEPT ![v] = "ready"]
  /\ sock' = [sock EXCEPT ![v] = "bound"]
  /\ UNCHANGED <<benchVars, crashes, kernelVars, serverVars, file, truth>>

Die(v) ==
  /\ Alive(v) /\ crashes < MaxCrashes
  /\ crashes' = crashes + 1
  /\ Gone({v})
  /\ UNCHANGED <<benchVars, sock, serverVars, file, truth>>

\* The guest writes a page it has.
Write(v, p) ==
  /\ fc[v] = "running" /\ ~Asleep(v, "vcpu")
  /\ memory[v][p] # Missing /\ truth[p] < MaxWrites
  /\ truth' = [truth EXCEPT ![p] = @ + 1]
  /\ memory' = [memory EXCEPT ![v][p] = truth'[p]]
  /\ UNCHANGED <<benchVars, fcVars, touch, queued, unread, serverVars, file>>

\* Who touches a page: the vCPU; the device emulation, on behalf of a running
\* guest; and the writer of the snapshot.
Wants(v, t, p) ==
  \/ fc[v] = "running" /\ (t = "vcpu" \/ p \in QueuePages)
  \/ t = "vmm" /\ pc = "writing" /\ v = live /\ p \in NextPage

Trap(v, t, p) ==
  /\ Alive(v) /\ Wants(v, t, p) /\ ~Asleep(v, t) /\ memory[v][p] = Missing
  /\ touch' = [touch EXCEPT ![v][t] = p]
  /\ UNCHANGED <<benchVars, fcVars, memory, queued, unread, serverVars, file,
                 truth>>

Queue(v, t) ==
  /\ Asleep(v, t) /\ t \notin queued[v]
  /\ queued' = [queued EXCEPT ![v] = @ \cup {t}]
  /\ unread' = [unread EXCEPT ![v] = Append(@, t)]
  /\ UNCHANGED <<benchVars, fcVars, memory, touch, serverVars, file, truth>>

\* The events but those of ts.
Without(events, ts) ==
  LET upTo[n \in 0..Len(events)] ==
        IF n = 0 THEN <<>>
        ELSE IF events[n] \in ts THEN upTo[n - 1]
        ELSE Append(upTo[n - 1], events[n])
  IN  upTo[Len(events)]

\* The threads ts of v go on, and the events of theirs that are unread vanish.
WakeUp(v, ts) ==
  /\ touch' = [touch EXCEPT
                ![v] = [t \in Threads |-> IF t \in ts THEN NoPage ELSE @[t]]]
  /\ queued' = [queued EXCEPT ![v] = @ \ ts]
  /\ unread' = [unread EXCEPT ![v] = Without(@, ts)]

\* The second look: the page came in before the thread was in the list.
LookAgain(v, t) ==
  /\ t \in queued[v] /\ memory[v][touch[v][t]] # Missing
  /\ WakeUp(v, {t})
  /\ UNCHANGED <<benchVars, fcVars, memory, serverVars, file, truth>>

-----------------------------------------------------------------------------
(* The page server of a restored VM.                                       *)

Serve(v, from, to) ==
  /\ server[v] = from
  /\ server' = [server EXCEPT ![v] = to]

\* accept, the one message with the layout and the userfaultfd, and the open
\* of the memory file.
ReceiveUffd(v) ==
  /\ Serve(v, "connected", "polling")
  /\ UNCHANGED <<benchVars, fcVars, kernelVars, serving, stop, file, truth>>

\* Mutant: the flag is looked at in accept only.
SeeStopInAccept(v) ==
  /\ v \in stop
  /\ Serve(v, "listening", "ended")
  /\ UNCHANGED <<benchVars, fcVars, kernelVars, serving, stop, file, truth>>

\* The stop flag is seen: while waiting for Firecracker, or between polls.
SeeStop(v) ==
  /\ v \in stop
  /\ \E from \in {"listening", "connected", "polling"} :
       Serve(v, from, "ended")
  /\ UNCHANGED <<benchVars, fcVars, kernelVars, serving, stop, file, truth>>

\* Mutant: the whole queue is read and its head served.
ReadEvents(v) ==
  /\ unread[v] # <<>> /\ Serve(v, "polling", "copying")
  /\ serving' = [serving EXCEPT ![v] = touch[v][Head(unread[v])]]
  /\ unread' = [unread EXCEPT ![v] = <<>>]
  /\ UNCHANGED <<benchVars, fcVars, memory, touch, queued, stop, file, truth>>

ReadEvent(v) ==
  /\ unread[v] # <<>> /\ Serve(v, "polling", "copying")
  /\ serving' = [serving EXCEPT ![v] = touch[v][Head(unread[v])]]
  /\ unread' = [unread EXCEPT ![v] = Tail(@)]
  /\ UNCHANGED <<benchVars, fcVars, memory, touch, queued, stop, file, truth>>

\* read_at, the tail of a short read zeroed.
Content(v, p) ==
  IF file[MemFile(v)][p] = Hole THEN 0 ELSE file[MemFile(v)][p]

\* serve_fault: read the page and UFFDIO_COPY it.
CopyPage(v) ==
  /\ Serve(v, "copying", "polling")
  /\ Alive(v) /\ memory[v][serving[v]] = Missing
  /\ memory' = [memory EXCEPT ![v][serving[v]] = Content(v, serving[v])]
  /\ WakeUp(v, {t \in queued[v] : touch[v][t] = serving[v]})
  /\ serving' = [serving EXCEPT ![v] = NoPage]
  /\ UNCHANGED <<benchVars, fcVars, stop, file, truth>>

\* The copy fails, the page being there already or its process gone, and ?
\* ends the thread.
CopyFails(v) ==
  /\ Serve(v, "copying", "failed")
  /\ ~Alive(v) \/ memory[v][serving[v]] # Missing
  /\ serving' = [serving EXCEPT ![v] = NoPage]
  /\ UNCHANGED <<benchVars, fcVars, kernelVars, stop, file, truth>>

ServerStep(v) ==
  \/ ReceiveUffd(v) \/ SeeStop(v)
  \/ ReadEvent(v) \/ CopyPage(v) \/ CopyFails(v)

KernelStep(v, t) == Queue(v, t) \/ LookAgain(v, t)

-----------------------------------------------------------------------------
CycleInit ==
  /\ pc = "spawn" /\ cycle = 0 /\ live = 0
  /\ fc = [v \in Vms |-> "none"]
  /\ \E left \in {"absent", "stale"} : sock = [v \in Vms |-> left]
  /\ memory = [v \in Vms |-> [p \in Pages |-> Missing]]
  /\ touch = [v \in Vms |-> NoTouch]
  /\ queued = [v \in Vms |-> {}]
  /\ unread = [v \in Vms |-> <<>>]
  /\ server = [v \in Vms |-> "none"]
  /\ serving = [v \in Vms |-> NoPage]
  /\ stop = {}
  /\ file = [v \in Vms |-> [p \in Pages |-> Hole]]
  /\ truth = [p \in Pages |-> 0]
  /\ crashes = 0

CycleNext ==
  \/ Bench
  \/ \E v \in Vms :
       \/ Listen(v) \/ Die(v) \/ ServerStep(v)
       \/ \E p \in Pages : Write(v, p)
       \/ \E t \in Threads : KernelStep(v, t)
       \/ \E t \in Threads, p \in Pages : Trap(v, t, p)

CycleSpec == CycleInit /\ [][CycleNext]_cycleVars

\* The benchmark and each server are threads that keep running, Firecracker
\* answers, and the kernel goes on; what the guest touches is its own affair.
\* The snapshot's writer touches what it wants, page after page.
CycleFairness ==
  /\ WF_cycleVars(Bench)
  /\ \A v \in Vms :
       /\ WF_cycleVars(Listen(v) \/ ServerStep(v))
       /\ \A t \in Threads : WF_cycleVars(KernelStep(v, t))
  /\ WF_cycleVars(pc = "writing" /\ \E p \in Pages : Trap(live, "vmm", p))

CycleLive == CycleSpec /\ CycleFairness

-----------------------------------------------------------------------------
(* Properties.                                                             *)

CycleTypes ==
  /\ pc \in Pcs /\ cycle \in Vms /\ live \in Vms
  /\ fc \in [Vms -> Processes]
  /\ sock \in [Vms -> {"absent", "stale", "bound"}]
  /\ memory \in [Vms -> [Pages -> Values \cup {Missing}]]
  /\ touch \in [Vms -> [Threads -> Pages \cup {NoPage}]]
  /\ queued \in [Vms -> SUBSET Threads]
  /\ unread \in [Vms -> Seq(Threads)]
  /\ server \in [Vms -> Servers]
  /\ serving \in [Vms -> Pages \cup {NoPage}]
  /\ stop \in SUBSET Vms
  /\ file \in [Vms -> [Pages -> Values \cup {Hole}]]
  /\ truth \in [Pages -> Values]
  /\ crashes \in 0..MaxCrashes

\* What a guest would read from a page, now or once it is served.
Sees(v, p) ==
  IF memory[v][p] = Missing THEN Content(v, p) ELSE memory[v][p]

\* The guest runs in one incarnation at a time, and finds in every page what
\* it last wrote there, in whatever incarnation that was, and whether or not
\* the page was brought in yet (the snapshot and the servers of two cycles at
\* work at once, migrate_bench.rs).
MemorySurvives ==
  \A v \in Vms : fc[v] = "running" =>
    /\ \A p \in Pages : Sees(v, p) = truth[p]
    /\ \A w \in Vms : fc[w] = "running" => v = w

\* When spawn has returned, the socket it saw is this Firecracker's and no
\* file an earlier run left (FcProcess::spawn, wait_for_socket).
SpawnedListens ==
  pc \in {"boot", "pause", "snapshot", "writing", "load"} =>
    fc[Target] # "starting"

\* A benchmark that reports has left no Firecracker and no server thread
\* behind (retire, Handler::stop).
NothingLeftBehind ==
  pc = "done" =>
    \A v \in Vms : ~Alive(v) /\ server[v] \in {"none", "ended", "failed"}

\* Whoever waits for a page gets it, unless its server has ended on an
\* error, which nobody learns (serve's thread, `let _ =`).
FaultsAreServed ==
  \A v \in Vms :
    (touch[v] # NoTouch) ~> (touch[v] = NoTouch \/ server[v] = "failed")

\* The benchmark ends, unless a server has failed its living VM: there is no
\* deadline on a call to Firecracker, and none on the join.
BenchEnds ==
  <>(\/ pc \in {"done", "panicked"}
     \/ \E v \in Vms : Alive(v) /\ server[v] = "failed")

============================================================================
