-------------------------- MODULE MigrationProofs --------------------------
(***************************************************************************)
(* Proofs about Migration for every set of hosts, VM ids and handlers,     *)
(* every tap range and every combination of faults: types, that no guest   *)
(* executes twice, that a listed VM is whole, that a move leaves nothing   *)
(* behind, and that the daemons implement Custody.                         *)
(***************************************************************************)
EXTENDS Migration, TLAPS

USE DEF vmVars, hostVars, Running, Fresh, TapFree, IndexLeft

----------------------------------------------------------------------------
(* Types                                                                   *)

\* teardown keeps the types of the resources it releases.
LEMMA TeardownTypes ==
  ASSUME TypeOK, NEW v \in Vm, Teardown(v)
  PROVE  /\ proc' \in [Vm -> ProcStates] /\ servers' \subseteq Vm
         /\ taps' \in [Hosts -> SUBSET Idx] /\ snap' \subseteq Vm
BY DEF TypeOK, Teardown, ProcStates

\* Cutting a stream keeps the receiving tasks well typed.
LEMMA CutStreamTypes ==
  ASSUME TypeOK, NEW j \in Handlers, CutStream(j)
  PROVE  rx' \in [Hosts -> RxRecords]
<1>1. \A h \in Hosts : rx[h] \in RxRecords
  BY DEF TypeOK, RxRecords
<1>2. \A h \in Hosts : Unlinked(rx[h], "cut") \in RxRecords
  BY <1>1 DEF RxRecords, Streams, Unlinked
<1> QED
  BY <1>1, <1>2 DEF CutStream

\* The end of a receiving task leaves it idle and its senders well typed.
LEMMA EndRxTypes ==
  ASSUME TypeOK, NEW h \in Hosts, EndRx(h)
  PROVE  rx' \in [Hosts -> RxRecords] /\ job' \in [Handlers -> JobRecords]
<1>1. IdleRx \in RxRecords
  BY DEF IdleRx, RxRecords, RxPcs, Streams
<1>2. rx' \in [Hosts -> RxRecords]
  BY <1>1 DEF EndRx, TypeOK, RxRecords
<1>3. \A j \in Handlers : job[j] \in JobRecords
  BY DEF TypeOK, JobRecords, JobPcs
<1>4. \A j \in Handlers :
        [pc |-> "reset", vm |-> job[j].vm, to |-> job[j].to] \in JobRecords
  BY <1>3 DEF JobRecords, JobPcs, SendPcs
<1> QED
  BY <1>2, <1>3, <1>4 DEF EndRx

\* A handler's next step, or its end, keeps the handlers well typed.
LEMMA JobTypes ==
  ASSUME TypeOK, NEW j \in Handlers, NEW pc \in JobPcs,
         Goto(j, pc) \/ EndJob(j)
  PROVE  job' \in [Handlers -> JobRecords]
<1>1. \A i \in Handlers : job[i] \in JobRecords
  BY DEF TypeOK, JobRecords, JobPcs
<1>2. IdleJob \in JobRecords
  BY DEF IdleJob, JobRecords, JobPcs
<1>3. CASE Goto(j, pc)
  BY <1>1, <1>3 DEF Goto, TypeOK, JobRecords, JobPcs
<1>4. CASE EndJob(j)
  BY <1>1, <1>2, <1>4 DEF EndJob, TypeOK, JobRecords, JobPcs
<1> QED
  BY <1>3, <1>4

\* So does a receiving task's next step keep those.
LEMMA RxTypes ==
  ASSUME TypeOK, NEW h \in Hosts, NEW pc \in RxPcs, RxGoto(h, pc)
  PROVE  rx' \in [Hosts -> RxRecords]
BY DEF TypeOK, RxGoto, RxRecords

----------------------------------------------------------------------------
(* The inductive invariant                                                 *)

\* A handler at work holds a VM of its host in the state its pc says, and no
\* two handlers hold the same one.
HandlersHold ==
  /\ \A j \in Handlers :
       /\ job[j].pc = "idle" => job[j].vm = NoVm
       /\ job[j].pc # "idle" => job[j].vm \in Vm /\ at[job[j].vm] \in Hosts
       /\ job[j].pc \in SendPcs => job[j].to \in Hosts
       /\ job[j].pc = "booting" => proc[job[j].vm] = "none"
       /\ job[j].pc \in {"booted", "draining", "pausing"} => Running(job[j].vm)
       /\ job[j].pc \in {"paused", "snapped", "queued", "sending", "reset",
                         "sent"} => proc[job[j].vm] = "paused"
  /\ \A i, j \in Handlers :
       (job[i].vm = job[j].vm /\ job[i].pc # "idle") => i = j

\* What a registry lists runs there and is no handler's.
RegistryHolds ==
  \A h \in Hosts : \A v \in registry[h] :
    Running(v) /\ at[v] = h /\ \A j \in Handlers : job[j].vm # v

\* A receiving task that restores holds a VM of its own host that nobody else
\* holds.
Restoring(h) == rx[h].pc \in {"loading", "loaded"}
TasksHold ==
  \A h \in Hosts :
    /\ rx[h].pc \notin {"idle", "listening"}
         => rx[h].src \in Vm /\ guest[rx[h].src] \in Vm
    /\ Restoring(h) =>
         LET v == rx[h].into IN
         /\ v \in Vm /\ at[v] = h /\ v \notin registry[h]
         /\ \A j \in Handlers : job[j].vm # v
    /\ rx[h].pc = "loading" => proc[rx[h].into] = "none"
    /\ rx[h].pc = "loaded"  => Running(rx[h].into)

\* An id not given out is unused, and a guest has an id once it has executed.
IdsAreFresh ==
  \A v \in Vm :
    /\ Fresh(v) => proc[v] = "none"
    /\ proc[v] = "none" => guest[v] = NoVm
    /\ proc[v] \in {"running", "paused"} => guest[v] \in Vm
    /\ guest[v] \in Vm => guest[guest[v]] = guest[v]

\* A handler that is sending and the task that reads from it name each other.
StreamsMatch ==
  /\ \A j \in Handlers : job[j].pc = "sending" => rx[job[j].to].from = j
  /\ \A h \in Hosts :
       /\ rx[h].from # NoHandler =>
            /\ rx[h].from \in Handlers
            /\ rx[h].pc = "receiving" /\ rx[h].stream = "open"
            /\ job[rx[h].from].pc = "sending" /\ job[rx[h].from].to = h
       /\ rx[h].pc \in {"received", "plumbed", "loading"}
            => rx[h].stream = "flushed"

\* What can make a guest execute: a running VM, a handler that has paused it
\* and may still hand it to a receiver, a receiving task that may restore it.
Pending(j) == job[j].pc \in {"paused", "snapped", "queued"}
Active(h) == rx[h].pc \in {"receiving", "received", "plumbed", "loading"}
               /\ rx[h].stream # "cut"

\* No guest has two of those.
OneCarrier ==
  /\ \A i, j \in Handlers :
       (Pending(i) /\ Pending(j) /\ guest[job[i].vm] = guest[job[j].vm])
         => i = j
  /\ \A g, h \in Hosts :
       (Active(g) /\ Active(h) /\ guest[rx[g].src] = guest[rx[h].src]) => g = h
  /\ \A v \in Vm, j \in Handlers :
       (Running(v) /\ Pending(j)) => guest[v] # guest[job[j].vm]
  /\ \A v \in Vm, h \in Hosts :
       (Running(v) /\ Active(h)) => guest[v] # guest[rx[h].src]
  /\ \A j \in Handlers, h \in Hosts :
       (Pending(j) /\ Active(h)) => guest[job[j].vm] # guest[rx[h].src]

USE DEF Restoring

IInv ==
  /\ TypeOK
  /\ HandlersHold /\ RegistryHolds /\ TasksHold /\ IdsAreFresh /\ StreamsMatch
  /\ AtMostOneRunning /\ OneCarrier

----------------------------------------------------------------------------
(* Every step keeps the invariant                                         *)

\* The invariant survives plumbing a tap for a VM whose id is new.
LEMMA SpawnPlumbKeeps ==
  ASSUME IInv, NEW j \in Handlers, NEW h \in Hosts, NEW v \in Vm,
         SpawnPlumb(j, h, v)
  PROVE  IInv'
<1> USE SentinelsAssumption, MaxIdxAssumption DEF IInv, SpawnPlumb
<1>1. TypeOK'
  BY DEF TypeOK, Idx, JobRecords, JobPcs, SpawnPcs
<1>2. HandlersHold'
  BY DEF TypeOK, HandlersHold, RegistryHolds, TasksHold, IdsAreFresh,
     StreamsMatch, SendPcs
<1>3. RegistryHolds'
  BY DEF TypeOK, HandlersHold, RegistryHolds, TasksHold, IdsAreFresh
<1>4. TasksHold'
  BY DEF TypeOK, HandlersHold, RegistryHolds, TasksHold, IdsAreFresh,
     StreamsMatch, SendPcs
<1>5. IdsAreFresh'
  BY DEF TypeOK, HandlersHold, TasksHold, IdsAreFresh
<1>6. StreamsMatch'
  BY DEF TypeOK, HandlersHold, StreamsMatch
<1>7. AtMostOneRunning'
  BY DEF TypeOK, HandlersHold, TasksHold, IdsAreFresh, StreamsMatch,
     AtMostOneRunning, OneCarrier, Active
<1>8. OneCarrier'
  BY DEF TypeOK, HandlersHold, TasksHold, IdsAreFresh, StreamsMatch,
     AtMostOneRunning, OneCarrier, Pending, Active
<1> QED
  BY <1>1, <1>2, <1>3, <1>4, <1>5, <1>6, <1>7, <1>8

\* The invariant survives starting a VM without a network.
LEMMA SpawnPlainKeeps ==
  ASSUME IInv, NEW j \in Handlers, NEW h \in Hosts, NEW v \in Vm,
         SpawnPlain(j, h, v)
  PROVE  IInv'
<1> USE SentinelsAssumption DEF IInv, SpawnPlain
<1>1. TypeOK'
  BY DEF TypeOK, JobRecords, JobPcs, SpawnPcs
<1>2. HandlersHold'
  BY DEF TypeOK, HandlersHold, RegistryHolds, TasksHold, IdsAreFresh,
     StreamsMatch, SendPcs
<1>3. RegistryHolds'
  BY DEF TypeOK, HandlersHold, RegistryHolds, TasksHold, IdsAreFresh
<1>4. TasksHold'
  BY DEF TypeOK, HandlersHold, RegistryHolds, TasksHold, IdsAreFresh,
     StreamsMatch, SendPcs
<1>5. IdsAreFresh'
  BY DEF TypeOK, HandlersHold, TasksHold, IdsAreFresh
<1>6. StreamsMatch'
  BY DEF TypeOK, HandlersHold, StreamsMatch
<1>7. AtMostOneRunning'
  BY DEF TypeOK, HandlersHold, TasksHold, IdsAreFresh, StreamsMatch,
     AtMostOneRunning, OneCarrier, Active
<1>8. OneCarrier'
  BY DEF TypeOK, HandlersHold, TasksHold, IdsAreFresh, StreamsMatch,
     AtMostOneRunning, OneCarrier, Pending, Active
<1> QED
  BY <1>1, <1>2, <1>3, <1>4, <1>5, <1>6, <1>7, <1>8

\* The invariant survives refusing a spawn whose tap name is taken.
LEMMA SpawnRefusedKeeps ==
  ASSUME IInv, NEW h \in Hosts, SpawnRefused(h)
  PROVE  IInv'
<1> USE SentinelsAssumption, MaxIdxAssumption DEF IInv, SpawnRefused
<1>1. TypeOK'
  BY DEF TypeOK, Idx
<1>2. HandlersHold'
  BY DEF TypeOK, HandlersHold, RegistryHolds, TasksHold, IdsAreFresh,
     StreamsMatch, SendPcs
<1>3. RegistryHolds'
  BY DEF TypeOK, HandlersHold, RegistryHolds, TasksHold, IdsAreFresh
<1>4. TasksHold'
  BY DEF TypeOK, HandlersHold, RegistryHolds, TasksHold, IdsAreFresh,
     StreamsMatch, SendPcs
<1>5. IdsAreFresh'
  BY DEF TypeOK, HandlersHold, TasksHold, IdsAreFresh
<1>6. StreamsMatch'
  BY DEF TypeOK, HandlersHold, StreamsMatch
<1>7. AtMostOneRunning'
  BY DEF TypeOK, HandlersHold, TasksHold, IdsAreFresh, StreamsMatch,
     AtMostOneRunning, OneCarrier, Active
<1>8. OneCarrier'
  BY DEF TypeOK, HandlersHold, TasksHold, IdsAreFresh, StreamsMatch,
     AtMostOneRunning, OneCarrier, Pending, Active
<1> QED
  BY <1>1, <1>2, <1>3, <1>4, <1>5, <1>6, <1>7, <1>8

\* The invariant survives a spawn whose tap cannot be brought up.
LEMMA SpawnHalfwayKeeps ==
  ASSUME IInv, NEW h \in Hosts, SpawnHalfway(h)
  PROVE  IInv'
<1> USE SentinelsAssumption, MaxIdxAssumption DEF IInv, SpawnHalfway
<1>1. TypeOK'
  BY DEF TypeOK, Idx
<1>2. HandlersHold'
  BY DEF TypeOK, HandlersHold, RegistryHolds, TasksHold, IdsAreFresh,
     StreamsMatch, SendPcs
<1>3. RegistryHolds'
  BY DEF TypeOK, HandlersHold, RegistryHolds, TasksHold, IdsAreFresh
<1>4. TasksHold'
  BY DEF TypeOK, HandlersHold, RegistryHolds, TasksHold, IdsAreFresh,
     StreamsMatch, SendPcs
<1>5. IdsAreFresh'
  BY DEF TypeOK, HandlersHold, TasksHold, IdsAreFresh
<1>6. StreamsMatch'
  BY DEF TypeOK, HandlersHold, StreamsMatch
<1>7. AtMostOneRunning'
  BY DEF TypeOK, HandlersHold, TasksHold, IdsAreFresh, StreamsMatch,
     AtMostOneRunning, OneCarrier, Active
<1>8. OneCarrier'
  BY DEF TypeOK, HandlersHold, TasksHold, IdsAreFresh, StreamsMatch,
     AtMostOneRunning, OneCarrier, Pending, Active
<1> QED
  BY <1>1, <1>2, <1>3, <1>4, <1>5, <1>6, <1>7, <1>8

\* The invariant survives booting: a guest nobody has ever run starts.
LEMMA BootKeeps ==
  ASSUME IInv, NEW j \in Handlers, Boot(j)
  PROVE  IInv'
<1> USE SentinelsAssumption DEF IInv, Boot
<1>1. TypeOK'
  BY JobTypes DEF Goto, TypeOK, HandlersHold, ProcStates, JobPcs, SpawnPcs
<1>2. HandlersHold'
  BY DEF TypeOK, HandlersHold, RegistryHolds, TasksHold, IdsAreFresh,
     StreamsMatch, SendPcs, Goto
<1>3. RegistryHolds'
  BY DEF TypeOK, HandlersHold, RegistryHolds, TasksHold, IdsAreFresh, Goto
<1>4. TasksHold'
  BY DEF TypeOK, HandlersHold, RegistryHolds, TasksHold, IdsAreFresh,
     StreamsMatch, SendPcs, Goto
<1>5. IdsAreFresh'
  BY DEF TypeOK, HandlersHold, TasksHold, IdsAreFresh, Goto
<1>6. StreamsMatch'
  BY DEF TypeOK, HandlersHold, StreamsMatch, Goto
<1>7. AtMostOneRunning'
  BY DEF TypeOK, HandlersHold, TasksHold, IdsAreFresh, StreamsMatch,
     AtMostOneRunning, OneCarrier, Active, Goto
<1>8. OneCarrier'
  BY DEF TypeOK, HandlersHold, TasksHold, IdsAreFresh, StreamsMatch,
     AtMostOneRunning, OneCarrier, Pending, Active, Goto
<1> QED
  BY <1>1, <1>2, <1>3, <1>4, <1>5, <1>6, <1>7, <1>8

\* The invariant survives failing spawn, which kills what it had booted.
LEMMA SpawnFailKeeps ==
  ASSUME IInv, NEW j \in Handlers, SpawnFail(j)
  PROVE  IInv'
<1> USE SentinelsAssumption DEF IInv, SpawnFail
<1>1. TypeOK'
  BY JobTypes DEF EndJob, TypeOK, ProcStates, JobPcs
<1>2. HandlersHold'
  BY DEF TypeOK, HandlersHold, RegistryHolds, TasksHold, IdsAreFresh,
     StreamsMatch, SendPcs, EndJob, IdleJob
<1>3. RegistryHolds'
  BY DEF TypeOK, HandlersHold, RegistryHolds, TasksHold, IdsAreFresh, EndJob,
     IdleJob
<1>4. TasksHold'
  BY DEF TypeOK, HandlersHold, RegistryHolds, TasksHold, IdsAreFresh,
     StreamsMatch, SendPcs, EndJob, IdleJob
<1>5. IdsAreFresh'
  BY DEF TypeOK, HandlersHold, TasksHold, IdsAreFresh, EndJob, IdleJob
<1>6. StreamsMatch'
  BY DEF TypeOK, HandlersHold, StreamsMatch, EndJob, IdleJob
<1>7. AtMostOneRunning'
  BY DEF TypeOK, HandlersHold, TasksHold, IdsAreFresh, StreamsMatch,
     AtMostOneRunning, OneCarrier, Active, EndJob, IdleJob
<1>8. OneCarrier'
  BY DEF TypeOK, HandlersHold, TasksHold, IdsAreFresh, StreamsMatch,
     AtMostOneRunning, OneCarrier, Pending, Active, EndJob, IdleJob
<1> QED
  BY <1>1, <1>2, <1>3, <1>4, <1>5, <1>6, <1>7, <1>8

\* The invariant survives registering a spawned VM.
LEMMA SpawnInsertKeeps ==
  ASSUME IInv, NEW j \in Handlers, SpawnInsert(j)
  PROVE  IInv'
<1> USE SentinelsAssumption DEF IInv, SpawnInsert
<1>1. TypeOK'
  BY JobTypes DEF Insert, EndJob, TypeOK, HandlersHold, JobPcs
<1>2. HandlersHold'
  BY DEF TypeOK, HandlersHold, RegistryHolds, TasksHold, IdsAreFresh,
     StreamsMatch, SendPcs, Insert, EndJob, IdleJob
<1>3. RegistryHolds'
  BY DEF TypeOK, HandlersHold, RegistryHolds, TasksHold, IdsAreFresh, Insert,
     EndJob, IdleJob
<1>4. TasksHold'
  BY DEF TypeOK, HandlersHold, RegistryHolds, TasksHold, IdsAreFresh,
     StreamsMatch, SendPcs, Insert, EndJob, IdleJob
<1>5. IdsAreFresh'
  BY DEF TypeOK, HandlersHold, TasksHold, IdsAreFresh, Insert, EndJob, IdleJob
<1>6. StreamsMatch'
  BY DEF TypeOK, HandlersHold, StreamsMatch, Insert, EndJob, IdleJob
<1>7. AtMostOneRunning'
  BY DEF TypeOK, HandlersHold, TasksHold, IdsAreFresh, StreamsMatch,
     AtMostOneRunning, OneCarrier, Active, Insert, EndJob, IdleJob
<1>8. OneCarrier'
  BY DEF TypeOK, HandlersHold, TasksHold, IdsAreFresh, StreamsMatch,
     AtMostOneRunning, OneCarrier, Pending, Active, Insert, EndJob, IdleJob
<1> QED
  BY <1>1, <1>2, <1>3, <1>4, <1>5, <1>6, <1>7, <1>8

\* The invariant survives take(), which moves a VM from the registry to one
\* handler.
LEMMA TakeKeeps ==
  ASSUME IInv, NEW j \in Handlers, NEW v \in Vm, NEW d \in Hosts, Take(j, v, d)
  PROVE  IInv'
<1> USE SentinelsAssumption DEF IInv, Take
<1>1. TypeOK'
  BY DEF TypeOK, JobRecords, JobPcs, SendPcs
<1>2. HandlersHold'
  BY DEF TypeOK, HandlersHold, RegistryHolds, TasksHold, IdsAreFresh,
     StreamsMatch, SendPcs
<1>3. RegistryHolds'
  BY DEF TypeOK, HandlersHold, RegistryHolds, TasksHold, IdsAreFresh
<1>4. TasksHold'
  BY DEF TypeOK, HandlersHold, RegistryHolds, TasksHold, IdsAreFresh,
     StreamsMatch, SendPcs
<1>5. IdsAreFresh'
  BY DEF TypeOK, HandlersHold, TasksHold, IdsAreFresh
<1>6. StreamsMatch'
  BY DEF TypeOK, HandlersHold, StreamsMatch
<1>7. AtMostOneRunning'
  BY DEF TypeOK, HandlersHold, TasksHold, IdsAreFresh, StreamsMatch,
     AtMostOneRunning, OneCarrier, Active
<1>8. OneCarrier'
  BY DEF TypeOK, HandlersHold, TasksHold, IdsAreFresh, StreamsMatch,
     AtMostOneRunning, OneCarrier, Pending, Active
<1> QED
  BY <1>1, <1>2, <1>3, <1>4, <1>5, <1>6, <1>7, <1>8

\* The invariant survives standing down, which moves it back.
LEMMA StandDownKeeps ==
  ASSUME IInv, NEW j \in Handlers, StandDown(j)
  PROVE  IInv'
<1> USE SentinelsAssumption DEF IInv, StandDown
<1>1. TypeOK'
  BY JobTypes DEF Insert, EndJob, TypeOK, HandlersHold, JobPcs
<1>2. HandlersHold'
  BY DEF TypeOK, HandlersHold, RegistryHolds, TasksHold, IdsAreFresh,
     StreamsMatch, SendPcs, Insert, EndJob, IdleJob
<1>3. RegistryHolds'
  BY DEF TypeOK, HandlersHold, RegistryHolds, TasksHold, IdsAreFresh, Insert,
     EndJob, IdleJob
<1>4. TasksHold'
  BY DEF TypeOK, HandlersHold, RegistryHolds, TasksHold, IdsAreFresh,
     StreamsMatch, SendPcs, Insert, EndJob, IdleJob
<1>5. IdsAreFresh'
  BY DEF TypeOK, HandlersHold, TasksHold, IdsAreFresh, Insert, EndJob, IdleJob
<1>6. StreamsMatch'
  BY DEF TypeOK, HandlersHold, StreamsMatch, Insert, EndJob, IdleJob
<1>7. AtMostOneRunning'
  BY DEF TypeOK, HandlersHold, TasksHold, IdsAreFresh, StreamsMatch,
     AtMostOneRunning, OneCarrier, Active, Insert, EndJob, IdleJob
<1>8. OneCarrier'
  BY DEF TypeOK, HandlersHold, TasksHold, IdsAreFresh, StreamsMatch,
     AtMostOneRunning, OneCarrier, Pending, Active, Insert, EndJob, IdleJob
<1> QED
  BY <1>1, <1>2, <1>3, <1>4, <1>5, <1>6, <1>7, <1>8

\* The invariant survives the end of a drain.
LEMMA DrainedKeeps ==
  ASSUME IInv, NEW j \in Handlers, Drained(j)
  PROVE  IInv'
<1> USE SentinelsAssumption DEF IInv, Drained
<1>1. TypeOK'
  BY JobTypes DEF Goto, TypeOK, JobPcs, SendPcs
<1>2. HandlersHold'
  BY DEF TypeOK, HandlersHold, RegistryHolds, TasksHold, IdsAreFresh,
     StreamsMatch, SendPcs, Goto
<1>3. RegistryHolds'
  BY DEF TypeOK, HandlersHold, RegistryHolds, TasksHold, IdsAreFresh, Goto
<1>4. TasksHold'
  BY DEF TypeOK, HandlersHold, RegistryHolds, TasksHold, IdsAreFresh,
     StreamsMatch, SendPcs, Goto
<1>5. IdsAreFresh'
  BY DEF TypeOK, HandlersHold, TasksHold, IdsAreFresh, Goto
<1>6. StreamsMatch'
  BY DEF TypeOK, HandlersHold, StreamsMatch, Goto
<1>7. AtMostOneRunning'
  BY DEF TypeOK, HandlersHold, TasksHold, IdsAreFresh, StreamsMatch,
     AtMostOneRunning, OneCarrier, Active, Goto
<1>8. OneCarrier'
  BY DEF TypeOK, HandlersHold, TasksHold, IdsAreFresh, StreamsMatch,
     AtMostOneRunning, OneCarrier, Pending, Active, Goto
<1> QED
  BY <1>1, <1>2, <1>3, <1>4, <1>5, <1>6, <1>7, <1>8

\* The invariant survives a failed send, which tears the source down.
LEMMA SendFailKeeps ==
  ASSUME IInv, NEW j \in Handlers, SendFail(j)
  PROVE  IInv'
<1> USE SentinelsAssumption DEF IInv, SendFail
<1>1. job[j].vm \in Vm
  BY DEF TypeOK, HandlersHold, JobRecords, MayFail, SendPcs
<1>2. TypeOK'
  BY <1>1, JobTypes, TeardownTypes, CutStreamTypes DEF TypeOK, JobPcs, EndJob
<1>3. HandlersHold'
  BY DEF TypeOK, HandlersHold, RegistryHolds, TasksHold, IdsAreFresh,
     StreamsMatch, SendPcs, Teardown, CutStream, Unlinked, EndJob, MayFail,
     IdleJob
<1>4. RegistryHolds'
  BY DEF TypeOK, HandlersHold, RegistryHolds, TasksHold, IdsAreFresh, Teardown,
     CutStream, Unlinked, EndJob, MayFail, IdleJob
<1>5. TasksHold'
  BY DEF TypeOK, HandlersHold, RegistryHolds, TasksHold, IdsAreFresh,
     StreamsMatch, SendPcs, Teardown, CutStream, Unlinked, EndJob, MayFail,
     IdleJob
<1>6. IdsAreFresh'
  BY DEF TypeOK, HandlersHold, TasksHold, IdsAreFresh, Teardown, CutStream,
     Unlinked, EndJob, MayFail, IdleJob
<1>7. StreamsMatch'
  <2>1. \A i \in Handlers \ {j} : job'[i] = job[i]
    BY DEF TypeOK, Teardown, CutStream, Unlinked, EndJob
  <2>2. job'[j].pc = "idle"
    BY DEF TypeOK, Teardown, CutStream, Unlinked, EndJob, IdleJob
  <2>3. \A h \in Hosts : rx[h].from # j => rx'[h] = rx[h]
    BY DEF Teardown, CutStream, Unlinked, EndJob
  <2>4. \A h \in Hosts : rx[h].from = j =>
          rx'[h].from = NoHandler /\ rx'[h].pc = rx[h].pc
    BY DEF Teardown, CutStream, Unlinked, EndJob
  <2>5. \A i \in Handlers : job'[i].pc = "sending" => rx'[job'[i].to].from = i
    BY <2>1, <2>2, <2>3 DEF HandlersHold, StreamsMatch, SendPcs
  <2>6. \A h \in Hosts : rx[h].from = j => rx[h].pc = "receiving"
    BY DEF StreamsMatch
  <2>7. \A h \in Hosts :
          rx[h].from = j => rx'[h].from = NoHandler /\ rx'[h].pc = "receiving"
    BY <2>4, <2>6
  <2> QED
    BY <2>1, <2>3, <2>5, <2>7 DEF StreamsMatch
<1>8. AtMostOneRunning'
  BY DEF TypeOK, HandlersHold, TasksHold, IdsAreFresh, StreamsMatch,
     AtMostOneRunning, OneCarrier, Active, Teardown, CutStream, Unlinked,
     EndJob, MayFail, IdleJob
<1>9. OneCarrier'
  BY DEF TypeOK, HandlersHold, TasksHold, IdsAreFresh, StreamsMatch,
     AtMostOneRunning, OneCarrier, Pending, Active, Teardown, CutStream,
     Unlinked, EndJob, MayFail, IdleJob
<1> QED
  BY <1>2, <1>3, <1>4, <1>5, <1>6, <1>7, <1>8, <1>9

\* The invariant survives pausing: the guest stops executing, its handler
\* may hand it on.
LEMMA PauseKeeps ==
  ASSUME IInv, NEW j \in Handlers, Pause(j)
  PROVE  IInv'
<1> USE SentinelsAssumption DEF IInv, Pause
<1>1. TypeOK'
  BY JobTypes DEF Goto, TypeOK, ProcStates, JobPcs, SendPcs
<1>2. HandlersHold'
  BY DEF TypeOK, HandlersHold, RegistryHolds, TasksHold, IdsAreFresh,
     StreamsMatch, SendPcs, Goto
<1>3. RegistryHolds'
  BY DEF TypeOK, HandlersHold, RegistryHolds, TasksHold, IdsAreFresh, Goto
<1>4. TasksHold'
  BY DEF TypeOK, HandlersHold, RegistryHolds, TasksHold, IdsAreFresh,
     StreamsMatch, SendPcs, Goto
<1>5. IdsAreFresh'
  BY DEF TypeOK, HandlersHold, TasksHold, IdsAreFresh, Goto
<1>6. StreamsMatch'
  BY DEF TypeOK, HandlersHold, StreamsMatch, Goto
<1>7. AtMostOneRunning'
  BY DEF TypeOK, HandlersHold, TasksHold, IdsAreFresh, StreamsMatch,
     AtMostOneRunning, OneCarrier, Active, Goto
<1>8. OneCarrier'
  BY DEF TypeOK, HandlersHold, TasksHold, IdsAreFresh, StreamsMatch,
     AtMostOneRunning, OneCarrier, Pending, Active, Goto
<1> QED
  BY <1>1, <1>2, <1>3, <1>4, <1>5, <1>6, <1>7, <1>8

\* The invariant survives writing the snapshot.
LEMMA CreateSnapshotKeeps ==
  ASSUME IInv, NEW j \in Handlers, CreateSnapshot(j)
  PROVE  IInv'
<1> USE SentinelsAssumption DEF IInv, CreateSnapshot
<1>1. TypeOK'
  BY JobTypes DEF Goto, TypeOK, HandlersHold, JobPcs, SendPcs
<1>2. HandlersHold'
  BY DEF TypeOK, HandlersHold, RegistryHolds, TasksHold, IdsAreFresh,
     StreamsMatch, SendPcs, Goto
<1>3. RegistryHolds'
  BY DEF TypeOK, HandlersHold, RegistryHolds, TasksHold, IdsAreFresh, Goto
<1>4. TasksHold'
  BY DEF TypeOK, HandlersHold, RegistryHolds, TasksHold, IdsAreFresh,
     StreamsMatch, SendPcs, Goto
<1>5. IdsAreFresh'
  BY DEF TypeOK, HandlersHold, TasksHold, IdsAreFresh, Goto
<1>6. StreamsMatch'
  BY DEF TypeOK, HandlersHold, StreamsMatch, Goto
<1>7. AtMostOneRunning'
  BY DEF TypeOK, HandlersHold, TasksHold, IdsAreFresh, StreamsMatch,
     AtMostOneRunning, OneCarrier, Active, Goto
<1>8. OneCarrier'
  BY DEF TypeOK, HandlersHold, TasksHold, IdsAreFresh, StreamsMatch,
     AtMostOneRunning, OneCarrier, Pending, Active, Goto
<1> QED
  BY <1>1, <1>2, <1>3, <1>4, <1>5, <1>6, <1>7, <1>8

\* The invariant survives connecting to the receiver.
LEMMA ConnectKeeps ==
  ASSUME IInv, NEW j \in Handlers, Connect(j)
  PROVE  IInv'
<1> USE SentinelsAssumption DEF IInv, Connect
<1>1. TypeOK'
  BY JobTypes DEF Goto, TypeOK, JobPcs, SendPcs
<1>2. HandlersHold'
  BY DEF TypeOK, HandlersHold, RegistryHolds, TasksHold, IdsAreFresh,
     StreamsMatch, SendPcs, Goto
<1>3. RegistryHolds'
  BY DEF TypeOK, HandlersHold, RegistryHolds, TasksHold, IdsAreFresh, Goto
<1>4. TasksHold'
  BY DEF TypeOK, HandlersHold, RegistryHolds, TasksHold, IdsAreFresh,
     StreamsMatch, SendPcs, Goto
<1>5. IdsAreFresh'
  BY DEF TypeOK, HandlersHold, TasksHold, IdsAreFresh, Goto
<1>6. StreamsMatch'
  BY DEF TypeOK, HandlersHold, StreamsMatch, Goto
<1>7. AtMostOneRunning'
  BY DEF TypeOK, HandlersHold, TasksHold, IdsAreFresh, StreamsMatch,
     AtMostOneRunning, OneCarrier, Active, Goto
<1>8. OneCarrier'
  BY DEF TypeOK, HandlersHold, TasksHold, IdsAreFresh, StreamsMatch,
     AtMostOneRunning, OneCarrier, Pending, Active, Goto
<1> QED
  BY <1>1, <1>2, <1>3, <1>4, <1>5, <1>6, <1>7, <1>8

\* The invariant survives the last byte of the stream.
LEMMA FlushKeeps ==
  ASSUME IInv, NEW j \in Handlers, Flush(j)
  PROVE  IInv'
<1> USE SentinelsAssumption DEF IInv, Flush
<1>1. TypeOK'
  BY JobTypes DEF Goto, Unlinked, TypeOK, RxRecords, Streams, JobPcs, SendPcs
<1>2. HandlersHold'
  BY DEF TypeOK, HandlersHold, RegistryHolds, TasksHold, IdsAreFresh,
     StreamsMatch, SendPcs, Goto, Unlinked
<1>3. RegistryHolds'
  BY DEF TypeOK, HandlersHold, RegistryHolds, TasksHold, IdsAreFresh, Goto,
     Unlinked
<1>4. TasksHold'
  BY DEF TypeOK, HandlersHold, RegistryHolds, TasksHold, IdsAreFresh,
     StreamsMatch, SendPcs, Goto, Unlinked
<1>5. IdsAreFresh'
  BY DEF TypeOK, HandlersHold, TasksHold, IdsAreFresh, Goto, Unlinked
<1>6. StreamsMatch'
  BY DEF TypeOK, HandlersHold, StreamsMatch, Goto, Unlinked
<1>7. AtMostOneRunning'
  BY DEF TypeOK, HandlersHold, TasksHold, IdsAreFresh, StreamsMatch,
     AtMostOneRunning, OneCarrier, Active, Goto, Unlinked
<1>8. OneCarrier'
  BY DEF TypeOK, HandlersHold, TasksHold, IdsAreFresh, StreamsMatch,
     AtMostOneRunning, OneCarrier, Pending, Active, Goto, Unlinked
<1> QED
  BY <1>1, <1>2, <1>3, <1>4, <1>5, <1>6, <1>7, <1>8

\* The invariant survives tearing the source down after the stream.
LEMMA MovedKeeps ==
  ASSUME IInv, NEW j \in Handlers, Moved(j)
  PROVE  IInv'
<1> USE SentinelsAssumption DEF IInv, Moved
<1>1. job[j].vm \in Vm
  BY DEF TypeOK, HandlersHold, JobRecords, MayFail, SendPcs
<1>2. TypeOK'
  BY <1>1, JobTypes, TeardownTypes DEF TypeOK, JobPcs, EndJob
<1>3. HandlersHold'
  BY DEF TypeOK, HandlersHold, RegistryHolds, TasksHold, IdsAreFresh,
     StreamsMatch, SendPcs, Teardown, EndJob, IdleJob
<1>4. RegistryHolds'
  BY DEF TypeOK, HandlersHold, RegistryHolds, TasksHold, IdsAreFresh, Teardown,
     EndJob, IdleJob
<1>5. TasksHold'
  BY DEF TypeOK, HandlersHold, RegistryHolds, TasksHold, IdsAreFresh,
     StreamsMatch, SendPcs, Teardown, EndJob, IdleJob
<1>6. IdsAreFresh'
  BY DEF TypeOK, HandlersHold, TasksHold, IdsAreFresh, Teardown, EndJob,
     IdleJob
<1>7. StreamsMatch'
  BY DEF TypeOK, HandlersHold, StreamsMatch, Teardown, EndJob, IdleJob
<1>8. AtMostOneRunning'
  BY DEF TypeOK, HandlersHold, TasksHold, IdsAreFresh, StreamsMatch,
     AtMostOneRunning, OneCarrier, Active, Teardown, EndJob, IdleJob
<1>9. OneCarrier'
  BY DEF TypeOK, HandlersHold, TasksHold, IdsAreFresh, StreamsMatch,
     AtMostOneRunning, OneCarrier, Pending, Active, Teardown, EndJob, IdleJob
<1> QED
  BY <1>2, <1>3, <1>4, <1>5, <1>6, <1>7, <1>8, <1>9

\* The invariant survives dropping a handler at an await.
LEMMA HangupKeeps ==
  ASSUME IInv, NEW j \in Handlers, Hangup(j)
  PROVE  IInv'
<1> USE SentinelsAssumption DEF IInv, Hangup
<1>1. TypeOK'
  BY JobTypes, CutStreamTypes DEF TypeOK, ProcStates, JobPcs, EndJob
<1>2. HandlersHold'
  BY DEF TypeOK, HandlersHold, RegistryHolds, TasksHold, IdsAreFresh,
     StreamsMatch, SendPcs, CutStream, Unlinked, EndJob, IdleJob
<1>3. RegistryHolds'
  BY DEF TypeOK, HandlersHold, RegistryHolds, TasksHold, IdsAreFresh,
     CutStream, Unlinked, EndJob, IdleJob
<1>4. TasksHold'
  BY DEF TypeOK, HandlersHold, RegistryHolds, TasksHold, IdsAreFresh,
     StreamsMatch, SendPcs, CutStream, Unlinked, EndJob, IdleJob
<1>5. IdsAreFresh'
  BY DEF TypeOK, HandlersHold, TasksHold, IdsAreFresh, CutStream, Unlinked,
     EndJob, IdleJob
<1>6. StreamsMatch'
  <2>1. \A i \in Handlers \ {j} : job'[i] = job[i]
    BY DEF TypeOK, CutStream, Unlinked, EndJob
  <2>2. job'[j].pc = "idle"
    BY DEF TypeOK, CutStream, Unlinked, EndJob, IdleJob
  <2>3. \A h \in Hosts : rx[h].from # j => rx'[h] = rx[h]
    BY DEF CutStream, Unlinked, EndJob
  <2>4. \A h \in Hosts : rx[h].from = j =>
          rx'[h].from = NoHandler /\ rx'[h].pc = rx[h].pc
    BY DEF CutStream, Unlinked, EndJob
  <2>5. \A i \in Handlers : job'[i].pc = "sending" => rx'[job'[i].to].from = i
    BY <2>1, <2>2, <2>3 DEF HandlersHold, StreamsMatch, SendPcs
  <2>6. \A h \in Hosts : rx[h].from = j => rx[h].pc = "receiving"
    BY DEF StreamsMatch
  <2>7. \A h \in Hosts :
          rx[h].from = j => rx'[h].from = NoHandler /\ rx'[h].pc = "receiving"
    BY <2>4, <2>6
  <2> QED
    BY <2>1, <2>3, <2>5, <2>7 DEF StreamsMatch
<1>7. AtMostOneRunning'
  BY DEF TypeOK, HandlersHold, TasksHold, IdsAreFresh, StreamsMatch,
     AtMostOneRunning, OneCarrier, Active, CutStream, Unlinked, EndJob, IdleJob
<1>8. OneCarrier'
  BY DEF TypeOK, HandlersHold, TasksHold, IdsAreFresh, StreamsMatch,
     AtMostOneRunning, OneCarrier, Pending, Active, CutStream, Unlinked,
     EndJob, IdleJob
<1> QED
  BY <1>1, <1>2, <1>3, <1>4, <1>5, <1>6, <1>7, <1>8

\* The invariant survives binding the data port.
LEMMA BindKeeps ==
  ASSUME IInv, NEW h \in Hosts, Bind(h)
  PROVE  IInv'
<1> USE SentinelsAssumption DEF IInv, Bind
<1>1. TypeOK'
  BY RxTypes DEF RxGoto, TypeOK, RxPcs
<1>2. HandlersHold'
  BY DEF TypeOK, HandlersHold, RegistryHolds, TasksHold, IdsAreFresh,
     StreamsMatch, SendPcs, RxGoto
<1>3. RegistryHolds'
  BY DEF TypeOK, HandlersHold, RegistryHolds, TasksHold, IdsAreFresh, RxGoto
<1>4. TasksHold'
  BY DEF TypeOK, HandlersHold, RegistryHolds, TasksHold, IdsAreFresh,
     StreamsMatch, SendPcs, RxGoto
<1>5. IdsAreFresh'
  BY DEF TypeOK, HandlersHold, TasksHold, IdsAreFresh, RxGoto
<1>6. StreamsMatch'
  BY DEF TypeOK, HandlersHold, StreamsMatch, RxGoto
<1>7. AtMostOneRunning'
  BY DEF TypeOK, HandlersHold, TasksHold, IdsAreFresh, StreamsMatch,
     AtMostOneRunning, OneCarrier, Active, RxGoto
<1>8. OneCarrier'
  BY DEF TypeOK, HandlersHold, TasksHold, IdsAreFresh, StreamsMatch,
     AtMostOneRunning, OneCarrier, Pending, Active, RxGoto
<1> QED
  BY <1>1, <1>2, <1>3, <1>4, <1>5, <1>6, <1>7, <1>8

\* The invariant survives giving up the wait for a sender.
LEMMA AcceptTimeoutKeeps ==
  ASSUME IInv, NEW h \in Hosts, AcceptTimeout(h)
  PROVE  IInv'
<1> USE SentinelsAssumption DEF IInv, AcceptTimeout
<1>1. TypeOK'
  BY EndRxTypes DEF TypeOK
<1>2. HandlersHold'
  BY DEF TypeOK, HandlersHold, RegistryHolds, TasksHold, IdsAreFresh,
     StreamsMatch, SendPcs, EndRx, IdleRx
<1>3. RegistryHolds'
  BY DEF TypeOK, HandlersHold, RegistryHolds, TasksHold, IdsAreFresh, EndRx,
     IdleRx
<1>4. TasksHold'
  BY DEF TypeOK, HandlersHold, RegistryHolds, TasksHold, IdsAreFresh,
     StreamsMatch, SendPcs, EndRx, IdleRx
<1>5. IdsAreFresh'
  BY DEF TypeOK, HandlersHold, TasksHold, IdsAreFresh, EndRx, IdleRx
<1>6. StreamsMatch'
  BY DEF TypeOK, HandlersHold, StreamsMatch, EndRx, IdleRx
<1>7. AtMostOneRunning'
  BY DEF TypeOK, HandlersHold, TasksHold, IdsAreFresh, StreamsMatch,
     AtMostOneRunning, OneCarrier, Active, EndRx, IdleRx
<1>8. OneCarrier'
  BY DEF TypeOK, HandlersHold, TasksHold, IdsAreFresh, StreamsMatch,
     AtMostOneRunning, OneCarrier, Pending, Active, EndRx, IdleRx
<1> QED
  BY <1>1, <1>2, <1>3, <1>4, <1>5, <1>6, <1>7, <1>8

\* The invariant survives accepting: the guest passes from the handler to
\* the receiving task.
LEMMA AcceptKeeps ==
  ASSUME IInv, NEW h \in Hosts, NEW j \in Handlers, Accept(h, j)
  PROVE  IInv'
<1> USE SentinelsAssumption DEF IInv, Accept
<1>1. TypeOK'
  BY JobTypes DEF Goto, TypeOK, HandlersHold, RxRecords, RxPcs, Streams,
     JobPcs, SendPcs
<1>2. HandlersHold'
  BY DEF TypeOK, HandlersHold, RegistryHolds, TasksHold, IdsAreFresh,
     StreamsMatch, SendPcs, Goto
<1>3. RegistryHolds'
  BY DEF TypeOK, HandlersHold, RegistryHolds, TasksHold, IdsAreFresh, Goto
<1>4. TasksHold'
  BY DEF TypeOK, HandlersHold, RegistryHolds, TasksHold, IdsAreFresh,
     StreamsMatch, SendPcs, Goto
<1>5. IdsAreFresh'
  BY DEF TypeOK, HandlersHold, TasksHold, IdsAreFresh, Goto
<1>6. StreamsMatch'
  BY DEF TypeOK, HandlersHold, StreamsMatch, Goto
<1>7. AtMostOneRunning'
  BY DEF TypeOK, HandlersHold, TasksHold, IdsAreFresh, StreamsMatch,
     AtMostOneRunning, OneCarrier, Active, Goto
<1>8. OneCarrier'
  BY DEF TypeOK, HandlersHold, TasksHold, IdsAreFresh, StreamsMatch,
     AtMostOneRunning, OneCarrier, Pending, Active, Goto
<1> QED
  BY <1>1, <1>2, <1>3, <1>4, <1>5, <1>6, <1>7, <1>8

\* The invariant survives receiving the whole stream.
LEMMA RecvDoneKeeps ==
  ASSUME IInv, NEW h \in Hosts, RecvDone(h)
  PROVE  IInv'
<1> USE SentinelsAssumption DEF IInv, RecvDone
<1>1. TypeOK'
  BY RxTypes DEF RxGoto, TypeOK, RxPcs
<1>2. HandlersHold'
  BY DEF TypeOK, HandlersHold, RegistryHolds, TasksHold, IdsAreFresh,
     StreamsMatch, SendPcs, RxGoto
<1>3. RegistryHolds'
  BY DEF TypeOK, HandlersHold, RegistryHolds, TasksHold, IdsAreFresh, RxGoto
<1>4. TasksHold'
  BY DEF TypeOK, HandlersHold, RegistryHolds, TasksHold, IdsAreFresh,
     StreamsMatch, SendPcs, RxGoto
<1>5. IdsAreFresh'
  BY DEF TypeOK, HandlersHold, TasksHold, IdsAreFresh, RxGoto
<1>6. StreamsMatch'
  BY DEF TypeOK, HandlersHold, StreamsMatch, RxGoto
<1>7. AtMostOneRunning'
  BY DEF TypeOK, HandlersHold, TasksHold, IdsAreFresh, StreamsMatch,
     AtMostOneRunning, OneCarrier, Active, RxGoto
<1>8. OneCarrier'
  BY DEF TypeOK, HandlersHold, TasksHold, IdsAreFresh, StreamsMatch,
     AtMostOneRunning, OneCarrier, Pending, Active, RxGoto
<1> QED
  BY <1>1, <1>2, <1>3, <1>4, <1>5, <1>6, <1>7, <1>8

\* The invariant survives failing to receive, which resets the senders.
LEMMA RecvFailKeeps ==
  ASSUME IInv, NEW h \in Hosts, RecvFail(h)
  PROVE  IInv'
<1> USE SentinelsAssumption DEF IInv, RecvFail
<1>1. TypeOK'
  BY EndRxTypes DEF TypeOK
<1>2. HandlersHold'
  BY DEF TypeOK, HandlersHold, RegistryHolds, TasksHold, IdsAreFresh,
     StreamsMatch, SendPcs, EndRx, IdleRx
<1>3. RegistryHolds'
  BY DEF TypeOK, HandlersHold, RegistryHolds, TasksHold, IdsAreFresh, EndRx,
     IdleRx
<1>4. TasksHold'
  BY DEF TypeOK, HandlersHold, RegistryHolds, TasksHold, IdsAreFresh,
     StreamsMatch, SendPcs, EndRx, IdleRx
<1>5. IdsAreFresh'
  BY DEF TypeOK, HandlersHold, TasksHold, IdsAreFresh, EndRx, IdleRx
<1>6. StreamsMatch'
  BY DEF TypeOK, HandlersHold, StreamsMatch, EndRx, IdleRx
<1>7. AtMostOneRunning'
  BY DEF TypeOK, HandlersHold, TasksHold, IdsAreFresh, StreamsMatch,
     AtMostOneRunning, OneCarrier, Active, EndRx, IdleRx
<1>8. OneCarrier'
  BY DEF TypeOK, HandlersHold, TasksHold, IdsAreFresh, StreamsMatch,
     AtMostOneRunning, OneCarrier, Pending, Active, EndRx, IdleRx
<1> QED
  BY <1>1, <1>2, <1>3, <1>4, <1>5, <1>6, <1>7, <1>8

\* The invariant survives re-plumbing the tap.
LEMMA ReplumbKeeps ==
  ASSUME IInv, NEW h \in Hosts, Replumb(h)
  PROVE  IInv'
<1> USE SentinelsAssumption DEF IInv, Replumb
<1>1. TypeOK'
  <2>1. rx' \in [Hosts -> RxRecords]
    BY RxTypes DEF RxPcs
  <2>2. tap[rx[h].src] \in Idx \cup {NoTap}
    BY DEF TypeOK, TasksHold
  <2>3. taps' \in [Hosts -> SUBSET Idx]
    BY <2>2 DEF TypeOK
  <2> QED
    BY <2>1, <2>3 DEF TypeOK
<1>2. HandlersHold'
  BY DEF TypeOK, HandlersHold, RegistryHolds, TasksHold, IdsAreFresh,
     StreamsMatch, SendPcs, RxGoto
<1>3. RegistryHolds'
  BY DEF TypeOK, HandlersHold, RegistryHolds, TasksHold, IdsAreFresh, RxGoto
<1>4. TasksHold'
  BY DEF TypeOK, HandlersHold, RegistryHolds, TasksHold, IdsAreFresh,
     StreamsMatch, SendPcs, RxGoto
<1>5. IdsAreFresh'
  BY DEF TypeOK, HandlersHold, TasksHold, IdsAreFresh, RxGoto
<1>6. StreamsMatch'
  BY DEF TypeOK, HandlersHold, StreamsMatch, RxGoto
<1>7. AtMostOneRunning'
  BY DEF TypeOK, HandlersHold, TasksHold, IdsAreFresh, StreamsMatch,
     AtMostOneRunning, OneCarrier, Active, RxGoto
<1>8. OneCarrier'
  BY DEF TypeOK, HandlersHold, TasksHold, IdsAreFresh, StreamsMatch,
     AtMostOneRunning, OneCarrier, Pending, Active, RxGoto
<1> QED
  BY <1>1, <1>2, <1>3, <1>4, <1>5, <1>6, <1>7, <1>8

\* The invariant survives a tap name that is taken on the target.
LEMMA ReplumbFailKeeps ==
  ASSUME IInv, NEW h \in Hosts, ReplumbFail(h)
  PROVE  IInv'
<1> USE SentinelsAssumption DEF IInv, ReplumbFail
<1>1. TypeOK'
  BY EndRxTypes DEF TypeOK
<1>2. HandlersHold'
  BY DEF TypeOK, HandlersHold, RegistryHolds, TasksHold, IdsAreFresh,
     StreamsMatch, SendPcs, EndRx, IdleRx
<1>3. RegistryHolds'
  BY DEF TypeOK, HandlersHold, RegistryHolds, TasksHold, IdsAreFresh, EndRx,
     IdleRx
<1>4. TasksHold'
  BY DEF TypeOK, HandlersHold, RegistryHolds, TasksHold, IdsAreFresh,
     StreamsMatch, SendPcs, EndRx, IdleRx
<1>5. IdsAreFresh'
  BY DEF TypeOK, HandlersHold, TasksHold, IdsAreFresh, EndRx, IdleRx
<1>6. StreamsMatch'
  BY DEF TypeOK, HandlersHold, StreamsMatch, EndRx, IdleRx
<1>7. AtMostOneRunning'
  BY DEF TypeOK, HandlersHold, TasksHold, IdsAreFresh, StreamsMatch,
     AtMostOneRunning, OneCarrier, Active, EndRx, IdleRx
<1>8. OneCarrier'
  BY DEF TypeOK, HandlersHold, TasksHold, IdsAreFresh, StreamsMatch,
     AtMostOneRunning, OneCarrier, Pending, Active, EndRx, IdleRx
<1> QED
  BY <1>1, <1>2, <1>3, <1>4, <1>5, <1>6, <1>7, <1>8

\* The invariant survives a restore whose tap cannot be brought up.
LEMMA ReplumbHalfwayKeeps ==
  ASSUME IInv, NEW h \in Hosts, ReplumbHalfway(h)
  PROVE  IInv'
<1> USE SentinelsAssumption DEF IInv, ReplumbHalfway
<1>1. TypeOK'
  <2>1. rx' \in [Hosts -> RxRecords] /\ job' \in [Handlers -> JobRecords]
    BY EndRxTypes
  <2>2. tap[rx[h].src] \in Idx
    BY DEF TypeOK, TasksHold, Networked
  <2>3. taps' \in [Hosts -> SUBSET Idx]
    BY <2>2 DEF TypeOK
  <2> QED
    BY <2>1, <2>3 DEF TypeOK
<1>2. HandlersHold'
  BY DEF TypeOK, HandlersHold, RegistryHolds, TasksHold, IdsAreFresh,
     StreamsMatch, SendPcs, EndRx, IdleRx
<1>3. RegistryHolds'
  BY DEF TypeOK, HandlersHold, RegistryHolds, TasksHold, IdsAreFresh, EndRx,
     IdleRx
<1>4. TasksHold'
  BY DEF TypeOK, HandlersHold, RegistryHolds, TasksHold, IdsAreFresh,
     StreamsMatch, SendPcs, EndRx, IdleRx
<1>5. IdsAreFresh'
  BY DEF TypeOK, HandlersHold, TasksHold, IdsAreFresh, EndRx, IdleRx
<1>6. StreamsMatch'
  BY DEF TypeOK, HandlersHold, StreamsMatch, EndRx, IdleRx
<1>7. AtMostOneRunning'
  BY DEF TypeOK, HandlersHold, TasksHold, IdsAreFresh, StreamsMatch,
     AtMostOneRunning, OneCarrier, Active, EndRx, IdleRx
<1>8. OneCarrier'
  BY DEF TypeOK, HandlersHold, TasksHold, IdsAreFresh, StreamsMatch,
     AtMostOneRunning, OneCarrier, Pending, Active, EndRx, IdleRx
<1> QED
  BY <1>1, <1>2, <1>3, <1>4, <1>5, <1>6, <1>7, <1>8

\* The invariant survives starting the page server for a VM whose id is
\* new.
LEMMA ServeKeeps ==
  ASSUME IInv, NEW h \in Hosts, NEW v \in Vm, Serve(h, v)
  PROVE  IInv'
<1> USE SentinelsAssumption DEF IInv, Serve
<1>1. TypeOK'
  BY DEF TypeOK, TasksHold, RxRecords, RxPcs
<1>2. HandlersHold'
  BY DEF TypeOK, HandlersHold, RegistryHolds, TasksHold, IdsAreFresh,
     StreamsMatch, SendPcs
<1>3. RegistryHolds'
  BY DEF TypeOK, HandlersHold, RegistryHolds, TasksHold, IdsAreFresh
<1>4. TasksHold'
  BY DEF TypeOK, HandlersHold, RegistryHolds, TasksHold, IdsAreFresh,
     StreamsMatch, SendPcs
<1>5. IdsAreFresh'
  BY DEF TypeOK, HandlersHold, TasksHold, IdsAreFresh
<1>6. StreamsMatch'
  BY DEF TypeOK, HandlersHold, StreamsMatch
<1>7. AtMostOneRunning'
  BY DEF TypeOK, HandlersHold, TasksHold, IdsAreFresh, StreamsMatch,
     AtMostOneRunning, OneCarrier, Active
<1>8. OneCarrier'
  BY DEF TypeOK, HandlersHold, TasksHold, IdsAreFresh, StreamsMatch,
     AtMostOneRunning, OneCarrier, Pending, Active
<1> QED
  BY <1>1, <1>2, <1>3, <1>4, <1>5, <1>6, <1>7, <1>8

\* The invariant survives failing to start the page server or Firecracker.
LEMMA ServeFailKeeps ==
  ASSUME IInv, NEW h \in Hosts, NEW v \in Vm, ServeFail(h, v)
  PROVE  IInv'
<1> USE SentinelsAssumption DEF IInv, ServeFail
<1>1. TypeOK'
  BY EndRxTypes DEF TypeOK, TasksHold, ProcStates
<1>2. HandlersHold'
  BY DEF TypeOK, HandlersHold, RegistryHolds, TasksHold, IdsAreFresh,
     StreamsMatch, SendPcs, EndRx, IdleRx
<1>3. RegistryHolds'
  BY DEF TypeOK, HandlersHold, RegistryHolds, TasksHold, IdsAreFresh, EndRx,
     IdleRx
<1>4. TasksHold'
  BY DEF TypeOK, HandlersHold, RegistryHolds, TasksHold, IdsAreFresh,
     StreamsMatch, SendPcs, EndRx, IdleRx
<1>5. IdsAreFresh'
  BY DEF TypeOK, HandlersHold, TasksHold, IdsAreFresh, EndRx, IdleRx
<1>6. StreamsMatch'
  BY DEF TypeOK, HandlersHold, StreamsMatch, EndRx, IdleRx
<1>7. AtMostOneRunning'
  BY DEF TypeOK, HandlersHold, TasksHold, IdsAreFresh, StreamsMatch,
     AtMostOneRunning, OneCarrier, Active, EndRx, IdleRx
<1>8. OneCarrier'
  BY DEF TypeOK, HandlersHold, TasksHold, IdsAreFresh, StreamsMatch,
     AtMostOneRunning, OneCarrier, Pending, Active, EndRx, IdleRx
<1> QED
  BY <1>1, <1>2, <1>3, <1>4, <1>5, <1>6, <1>7, <1>8

\* The invariant survives loading: the guest passes from the receiving task
\* to a running VM.
LEMMA LoadKeeps ==
  ASSUME IInv, NEW h \in Hosts, Load(h)
  PROVE  IInv'
<1> USE SentinelsAssumption DEF IInv, Load
<1>1. TypeOK'
  BY RxTypes DEF RxGoto, TypeOK, TasksHold, ProcStates, RxPcs
<1>2. HandlersHold'
  BY DEF TypeOK, HandlersHold, RegistryHolds, TasksHold, IdsAreFresh,
     StreamsMatch, SendPcs, RxGoto
<1>3. RegistryHolds'
  BY DEF TypeOK, HandlersHold, RegistryHolds, TasksHold, IdsAreFresh, RxGoto
<1>4. TasksHold'
  BY DEF TypeOK, HandlersHold, RegistryHolds, TasksHold, IdsAreFresh,
     StreamsMatch, SendPcs, RxGoto
<1>5. IdsAreFresh'
  BY DEF TypeOK, HandlersHold, TasksHold, IdsAreFresh, RxGoto
<1>6. StreamsMatch'
  BY DEF TypeOK, HandlersHold, StreamsMatch, RxGoto
<1>7. AtMostOneRunning'
  BY DEF TypeOK, HandlersHold, TasksHold, IdsAreFresh, StreamsMatch,
     AtMostOneRunning, OneCarrier, Active, RxGoto
<1>8. OneCarrier'
  <2> DEFINE v == rx[h].into
  <2>1. /\ v \in Vm /\ guest[v] = NoVm
        /\ guest'[v] = guest[rx[h].src] /\ Active(h)
    BY DEF TypeOK, TasksHold, IdsAreFresh, StreamsMatch, Active
  <2>2. \A w \in Vm \ {v} : guest'[w] = guest[w] /\ proc'[w] = proc[w]
    BY DEF TypeOK
  <2>3. \A i \in Handlers : Pending(i) => job[i].vm \in Vm \ {v}
    BY DEF HandlersHold, TasksHold, Pending
  <2>4. \A k \in Hosts : Active(k) => rx[k].src \in Vm \ {v}
    BY <2>1 DEF TasksHold, Active
  <2>5. \A k \in Hosts \ {h} : rx'[k] = rx[k]
    BY DEF RxGoto, TypeOK
  <2>6. rx'[h].pc = "loaded" /\ job' = job
    BY DEF RxGoto, TypeOK, RxRecords
  <2>7. \A k \in Hosts : Active(k)' => k # h /\ Active(k)
    BY <2>5, <2>6 DEF Active
  <2> HIDE DEF v
  <2> QED
    BY <2>1, <2>2, <2>3, <2>4, <2>5, <2>6, <2>7 DEF OneCarrier, Pending
<1> QED
  BY <1>1, <1>2, <1>3, <1>4, <1>5, <1>6, <1>7, <1>8

\* The invariant survives failing to load, which undoes the restore.
LEMMA LoadFailKeeps ==
  ASSUME IInv, NEW h \in Hosts, LoadFail(h)
  PROVE  IInv'
<1> USE SentinelsAssumption DEF IInv, LoadFail
<1>1. TypeOK'
  BY EndRxTypes DEF TypeOK, TasksHold
<1>2. HandlersHold'
  BY DEF TypeOK, HandlersHold, RegistryHolds, TasksHold, IdsAreFresh,
     StreamsMatch, SendPcs, EndRx, IdleRx
<1>3. RegistryHolds'
  BY DEF TypeOK, HandlersHold, RegistryHolds, TasksHold, IdsAreFresh, EndRx,
     IdleRx
<1>4. TasksHold'
  BY DEF TypeOK, HandlersHold, RegistryHolds, TasksHold, IdsAreFresh,
     StreamsMatch, SendPcs, EndRx, IdleRx
<1>5. IdsAreFresh'
  BY DEF TypeOK, HandlersHold, TasksHold, IdsAreFresh, EndRx, IdleRx
<1>6. StreamsMatch'
  BY DEF TypeOK, HandlersHold, StreamsMatch, EndRx, IdleRx
<1>7. AtMostOneRunning'
  BY DEF TypeOK, HandlersHold, TasksHold, IdsAreFresh, StreamsMatch,
     AtMostOneRunning, OneCarrier, Active, EndRx, IdleRx
<1>8. OneCarrier'
  BY DEF TypeOK, HandlersHold, TasksHold, IdsAreFresh, StreamsMatch,
     AtMostOneRunning, OneCarrier, Pending, Active, EndRx, IdleRx
<1> QED
  BY <1>1, <1>2, <1>3, <1>4, <1>5, <1>6, <1>7, <1>8

\* The invariant survives registering the restored VM.
LEMMA RegisterKeeps ==
  ASSUME IInv, NEW h \in Hosts, Register(h)
  PROVE  IInv'
<1> USE SentinelsAssumption DEF IInv, Register
<1>1. TypeOK'
  BY EndRxTypes DEF Insert, TypeOK, TasksHold
<1>2. HandlersHold'
  BY DEF TypeOK, HandlersHold, RegistryHolds, TasksHold, IdsAreFresh,
     StreamsMatch, SendPcs, EndRx, Insert, IdleRx
<1>3. RegistryHolds'
  BY DEF TypeOK, HandlersHold, RegistryHolds, TasksHold, IdsAreFresh, EndRx,
     Insert, IdleRx
<1>4. TasksHold'
  BY DEF TypeOK, HandlersHold, RegistryHolds, TasksHold, IdsAreFresh,
     StreamsMatch, SendPcs, EndRx, Insert, IdleRx
<1>5. IdsAreFresh'
  BY DEF TypeOK, HandlersHold, TasksHold, IdsAreFresh, EndRx, Insert, IdleRx
<1>6. StreamsMatch'
  BY DEF TypeOK, HandlersHold, StreamsMatch, EndRx, Insert, IdleRx
<1>7. AtMostOneRunning'
  BY DEF TypeOK, HandlersHold, TasksHold, IdsAreFresh, StreamsMatch,
     AtMostOneRunning, OneCarrier, Active, EndRx, Insert, IdleRx
<1>8. OneCarrier'
  BY DEF TypeOK, HandlersHold, TasksHold, IdsAreFresh, StreamsMatch,
     AtMostOneRunning, OneCarrier, Pending, Active, EndRx, Insert, IdleRx
<1> QED
  BY <1>1, <1>2, <1>3, <1>4, <1>5, <1>6, <1>7, <1>8

\* Every step keeps the invariant.
LEMMA InvInductive == IInv /\ [Next]_vars => IInv'
<1> SUFFICES ASSUME IInv, [Next]_vars PROVE IInv'
  OBVIOUS
<1>1. ASSUME NEW j \in Handlers, JobStep(j) PROVE IInv'
  BY <1>1, BootKeeps, SpawnInsertKeeps, StandDownKeeps, DrainedKeeps,
     SendFailKeeps, PauseKeeps, CreateSnapshotKeeps, ConnectKeeps, FlushKeeps,
     MovedKeeps DEF JobStep
<1>2. ASSUME NEW j \in Handlers, SpawnFail(j) \/ Hangup(j) PROVE IInv'
  BY <1>2, SpawnFailKeeps, HangupKeeps
<1>3. ASSUME NEW j \in Handlers, NEW h \in Hosts, NEW v \in Vm,
             SpawnPlumb(j, h, v) \/ SpawnPlain(j, h, v) \/ Take(j, v, h)
      PROVE  IInv'
  BY <1>3, SpawnPlumbKeeps, SpawnPlainKeeps, TakeKeeps
<1>4. ASSUME NEW h \in Hosts, RxStep(h) PROVE IInv'
  BY <1>4, AcceptTimeoutKeeps, AcceptKeeps, RecvDoneKeeps, RecvFailKeeps,
     ReplumbKeeps, ReplumbFailKeeps, ReplumbHalfwayKeeps, ServeKeeps,
     ServeFailKeeps, LoadKeeps, LoadFailKeeps, RegisterKeeps DEF RxStep
<1>5. ASSUME NEW h \in Hosts, Bind(h) \/ SpawnRefused(h) \/ SpawnHalfway(h)
      PROVE  IInv'
  BY <1>5, BindKeeps, SpawnRefusedKeeps, SpawnHalfwayKeeps
<1>6. CASE UNCHANGED vars
  BY <1>6 DEF vars, IInv, TypeOK, HandlersHold, RegistryHolds, TasksHold,
              IdsAreFresh, StreamsMatch, AtMostOneRunning, OneCarrier,
              Pending, Active
<1> QED
  BY <1>1, <1>2, <1>3, <1>4, <1>5, <1>6 DEF Next

\* A fleet that has just started satisfies it.
LEMMA InitInv == Init => IInv
<1> SUFFICES ASSUME Init PROVE IInv
  OBVIOUS
<1> USE SentinelsAssumption, MaxIdxAssumption DEF Init, IdleJob, IdleRx
<1>1. TypeOK
  BY DEF TypeOK, ProcStates, JobRecords, JobPcs, RxRecords, RxPcs, Streams
<1>2. HandlersHold /\ RegistryHolds /\ TasksHold
  BY DEF HandlersHold, RegistryHolds, TasksHold, SendPcs
<1>3. IdsAreFresh /\ StreamsMatch
  BY DEF IdsAreFresh, StreamsMatch
<1>4. AtMostOneRunning /\ OneCarrier
  BY DEF AtMostOneRunning, OneCarrier, Pending, Active
<1> QED
  BY <1>1, <1>2, <1>3, <1>4 DEF IInv

\* Every reachable state satisfies it.
LEMMA InvHolds == Spec => []IInv
BY InitInv, InvInductive, PTL DEF Spec

----------------------------------------------------------------------------
(* What the VMs own                                                        *)

\* A receiving task knows nothing before it accepts, names the VM its sender
\* holds, and once the guest executes again it is the guest of the source.
TasksMatch ==
  \A h \in Hosts :
    /\ rx[h].pc \in {"idle", "listening"} => rx[h].src = NoVm
    /\ ~Restoring(h) => rx[h].into = NoVm
    /\ rx[h].from # NoHandler => rx[h].src = job[rx[h].from].vm
    /\ rx[h].pc = "loaded" => guest[rx[h].into] = guest[rx[h].src]

\* An id that was given out and not torn down: its tap is there, and neither
\* another such VM of the host nor a task that has just plumbed one uses it.
Alive(v) == ~Fresh(v) /\ proc[v] # "killed"
PlumbedFor(h) == rx[h].pc = "plumbed" /\ Networked(rx[h].src)
TapsHold ==
  /\ \A v \in Vm : Fresh(v) => tap[v] = NoTap
  /\ \A v \in Vm : (Alive(v) /\ Networked(v)) => tap[v] \in taps[at[v]]
  /\ \A v, w \in Vm :
       (Alive(v) /\ Alive(w) /\ at[v] = at[w] /\ Networked(v)
         /\ tap[v] = tap[w]) => v = w
  /\ \A h \in Hosts : PlumbedFor(h) => tap[rx[h].src] \in taps[h]
  /\ \A h \in Hosts, v \in Vm :
       (PlumbedFor(h) /\ Alive(v) /\ at[v] = h) => tap[v] # tap[rx[h].src]

\* The pages of a restored VM are served, and of one that is being restored.
ServersHold ==
  /\ \A v \in Vm :
       (proc[v] \in {"running", "paused"} /\ Restored(v)) => v \in servers
  /\ \A h \in Hosts : rx[h].pc = "loading" => rx[h].into \in servers

Owned == TasksMatch /\ TapsHold /\ ServersHold

\* Taps stay in order as long as none is made or removed, no VM comes to life
\* and no task has just plumbed.
LEMMA TapsFrame ==
  ASSUME TypeOK, TapsHold, UNCHANGED <<at, tap, taps>>,
         \A v \in Vm : proc[v] = "killed" => proc'[v] = "killed",
         \A h \in Hosts :
           rx'[h].pc = "plumbed"
             => rx[h].pc = "plumbed" /\ rx'[h].src = rx[h].src
  PROVE  TapsHold'
BY DEF TapsHold, Alive, PlumbedFor, Networked

\* Page servers stay in order as long as none starts or ends, no VM starts and
\* no task begins to load.
LEMMA ServersFrame ==
  ASSUME TypeOK, ServersHold, UNCHANGED <<guest, servers>>,
         \A v \in Vm : proc'[v] \in {"running", "paused"}
                        => proc[v] \in {"running", "paused"},
         \A h \in Hosts :
           rx'[h].pc = "loading"
             => rx[h].pc = "loading" /\ rx'[h].into = rx[h].into
  PROVE  ServersHold'
BY DEF ServersHold, Restored

\* What VMs own survives plumbing a tap for a VM whose id is new.
LEMMA SpawnPlumbOwned ==
  ASSUME IInv, Owned, NEW j \in Handlers, NEW h \in Hosts, NEW v \in Vm,
         SpawnPlumb(j, h, v)
  PROVE  Owned'
<1> USE SentinelsAssumption DEF IInv, Owned, SpawnPlumb
<1>1. TasksMatch'
  BY DEF TypeOK, HandlersHold, TasksHold, StreamsMatch, IdsAreFresh,
     TasksMatch
<1>2. TapsHold'
  BY DEF TypeOK, HandlersHold, TasksHold, IdsAreFresh, TapsHold, Alive,
     PlumbedFor, Networked
<1>3. ServersHold'
  BY DEF TypeOK, HandlersHold, TasksHold, IdsAreFresh, ServersHold,
     Restored
<1> QED
  BY <1>1, <1>2, <1>3

\* What VMs own survives starting a VM without a network.
LEMMA SpawnPlainOwned ==
  ASSUME IInv, Owned, NEW j \in Handlers, NEW h \in Hosts, NEW v \in Vm,
         SpawnPlain(j, h, v)
  PROVE  Owned'
<1> USE SentinelsAssumption DEF IInv, Owned, SpawnPlain
<1>1. TasksMatch'
  BY DEF TypeOK, HandlersHold, TasksHold, StreamsMatch, IdsAreFresh,
     TasksMatch
<1>2. TapsHold'
  BY DEF TypeOK, HandlersHold, TasksHold, IdsAreFresh, TapsHold, Alive,
     PlumbedFor, Networked
<1>3. ServersHold'
  BY DEF TypeOK, HandlersHold, TasksHold, IdsAreFresh, ServersHold,
     Restored
<1> QED
  BY <1>1, <1>2, <1>3

\* What VMs own survives refusing a spawn whose tap name is taken.
LEMMA SpawnRefusedOwned ==
  ASSUME IInv, Owned, NEW h \in Hosts, SpawnRefused(h)
  PROVE  Owned'
<1> USE SentinelsAssumption DEF IInv, Owned, SpawnRefused
<1>1. TasksMatch'
  BY DEF TypeOK, HandlersHold, TasksHold, StreamsMatch, IdsAreFresh,
     TasksMatch
<1>2. TapsHold'
  BY TapsFrame DEF TypeOK, HandlersHold, TasksHold
<1>3. ServersHold'
  BY ServersFrame DEF TypeOK, HandlersHold, TasksHold
<1> QED
  BY <1>1, <1>2, <1>3

\* What VMs own survives a tap that no VM gets.
LEMMA SpawnHalfwayOwned ==
  ASSUME IInv, Owned, NEW h \in Hosts, SpawnHalfway(h)
  PROVE  Owned'
<1> USE SentinelsAssumption DEF IInv, Owned, SpawnHalfway
<1>1. TasksMatch'
  BY DEF TypeOK, HandlersHold, TasksHold, StreamsMatch, IdsAreFresh,
     TasksMatch
<1>2. TapsHold'
  BY DEF TypeOK, TapsHold, Alive, PlumbedFor, Networked
<1>3. ServersHold'
  BY ServersFrame DEF TypeOK, HandlersHold, TasksHold
<1> QED
  BY <1>1, <1>2, <1>3

\* What VMs own survives booting.
LEMMA BootOwned ==
  ASSUME IInv, Owned, NEW j \in Handlers, Boot(j)
  PROVE  Owned'
<1> USE SentinelsAssumption DEF IInv, Owned, Boot
<1>1. TasksMatch'
  BY DEF TypeOK, HandlersHold, TasksHold, StreamsMatch, IdsAreFresh,
     TasksMatch, Goto
<1>2. TapsHold'
  BY DEF TypeOK, HandlersHold, TasksHold, IdsAreFresh, TapsHold, Alive,
     PlumbedFor, Networked, Goto
<1>3. ServersHold'
  BY DEF TypeOK, HandlersHold, TasksHold, IdsAreFresh, ServersHold,
     Restored, Goto
<1> QED
  BY <1>1, <1>2, <1>3

\* What VMs own survives failing a spawn.
LEMMA SpawnFailOwned ==
  ASSUME IInv, Owned, NEW j \in Handlers, SpawnFail(j)
  PROVE  Owned'
<1> USE SentinelsAssumption DEF IInv, Owned, SpawnFail
<1>1. TasksMatch'
  BY DEF TypeOK, HandlersHold, TasksHold, StreamsMatch, IdsAreFresh,
     TasksMatch, EndJob, IdleJob
<1> DEFINE v == job[j].vm
<1>a. v \in Vm /\ EndJob(j) /\ UNCHANGED <<rx, taps>>
  BY DEF TypeOK, HandlersHold, SpawnPcs
<1>b. ASSUME job[j].pc = "booting"
      PROVE  \A h \in Hosts : rx[h].pc = "plumbed" => rx[h].src \in Vm \ {v}
  BY <1>b DEF HandlersHold, TasksHold, IdsAreFresh
<1>2. TapsHold'
  <2>1. CASE job[j].pc = "booting"
    <3>1. /\ at'[v] = NoHost /\ tap'[v] = NoTap
          /\ \A w \in Vm \ {v} : at'[w] = at[w] /\ tap'[w] = tap[w]
          /\ UNCHANGED <<proc, taps, rx>>
      BY <1>a, <2>1 DEF TypeOK
    <3> HIDE DEF v, SpawnFail
    <3> QED
      BY <1>a, <1>b, <2>1, <3>1
      DEF TypeOK, TapsHold, Alive, PlumbedFor, Networked
  <2>2. CASE job[j].pc = "booted"
    BY <1>a, <2>2, TapsFrame DEF TypeOK
  <2> QED
    BY <2>1, <2>2
<1>3. ServersHold'
  BY DEF TypeOK, HandlersHold, TasksHold, IdsAreFresh, ServersHold,
     Restored, EndJob, IdleJob
<1> QED
  BY <1>1, <1>2, <1>3

\* What VMs own survives registering a spawned VM.
LEMMA SpawnInsertOwned ==
  ASSUME IInv, Owned, NEW j \in Handlers, SpawnInsert(j)
  PROVE  Owned'
<1> USE SentinelsAssumption DEF IInv, Owned, SpawnInsert
<1>1. TasksMatch'
  BY DEF TypeOK, HandlersHold, TasksHold, StreamsMatch, IdsAreFresh,
     TasksMatch, Insert, EndJob, IdleJob
<1>2. TapsHold'
  BY TapsFrame DEF TypeOK, HandlersHold, TasksHold, Insert, EndJob, IdleJob
<1>3. ServersHold'
  BY ServersFrame DEF TypeOK, HandlersHold, TasksHold, Insert, EndJob,
     IdleJob
<1> QED
  BY <1>1, <1>2, <1>3

\* What VMs own survives take().
LEMMA TakeOwned ==
  ASSUME IInv, Owned, NEW j \in Handlers, NEW v \in Vm, NEW d \in Hosts,
         Take(j, v, d)
  PROVE  Owned'
<1> USE SentinelsAssumption DEF IInv, Owned, Take
<1>1. TasksMatch'
  BY DEF TypeOK, HandlersHold, TasksHold, StreamsMatch, IdsAreFresh,
     TasksMatch
<1>2. TapsHold'
  BY TapsFrame DEF TypeOK, HandlersHold, TasksHold
<1>3. ServersHold'
  BY ServersFrame DEF TypeOK, HandlersHold, TasksHold
<1> QED
  BY <1>1, <1>2, <1>3

\* What VMs own survives standing down.
LEMMA StandDownOwned ==
  ASSUME IInv, Owned, NEW j \in Handlers, StandDown(j)
  PROVE  Owned'
<1> USE SentinelsAssumption DEF IInv, Owned, StandDown
<1>1. TasksMatch'
  BY DEF TypeOK, HandlersHold, TasksHold, StreamsMatch, IdsAreFresh,
     TasksMatch, Insert, EndJob, IdleJob
<1>2. TapsHold'
  BY TapsFrame DEF TypeOK, HandlersHold, TasksHold, Insert, EndJob, IdleJob
<1>3. ServersHold'
  BY ServersFrame DEF TypeOK, HandlersHold, TasksHold, Insert, EndJob,
     IdleJob
<1> QED
  BY <1>1, <1>2, <1>3

\* What VMs own survives the end of a drain.
LEMMA DrainedOwned ==
  ASSUME IInv, Owned, NEW j \in Handlers, Drained(j)
  PROVE  Owned'
<1> USE SentinelsAssumption DEF IInv, Owned, Drained
<1>1. TasksMatch'
  BY DEF TypeOK, HandlersHold, TasksHold, StreamsMatch, IdsAreFresh,
     TasksMatch, Goto
<1>2. TapsHold'
  BY TapsFrame DEF TypeOK, HandlersHold, TasksHold, Goto
<1>3. ServersHold'
  BY ServersFrame DEF TypeOK, HandlersHold, TasksHold, Goto
<1> QED
  BY <1>1, <1>2, <1>3

\* What VMs own survives a failing send, which tears the source down.
LEMMA SendFailOwned ==
  ASSUME IInv, Owned, NEW j \in Handlers, SendFail(j)
  PROVE  Owned'
<1> USE SentinelsAssumption DEF IInv, Owned, SendFail
<1>1. TasksMatch'
  BY DEF TypeOK, HandlersHold, TasksHold, StreamsMatch, IdsAreFresh,
     TasksMatch, Teardown, CutStream, Unlinked, EndJob, IdleJob
<1> DEFINE v == job[j].vm
<1>a. v \in Vm /\ Alive(v) /\ at[v] \in Hosts
  BY DEF TypeOK, HandlersHold, MayFail, SendPcs, Alive
<1>b. \A h \in Hosts : rx'[h].pc = rx[h].pc /\ rx'[h].src = rx[h].src
  BY DEF TypeOK, CutStream, Unlinked
<1>2. TapsHold'
  BY <1>a, <1>b DEF TypeOK, TasksHold, TapsHold, Alive, PlumbedFor, Networked,
                    Teardown
<1>3. ServersHold'
  BY DEF TypeOK, HandlersHold, TasksHold, IdsAreFresh, ServersHold,
     Restored, Teardown, CutStream, Unlinked, EndJob, IdleJob
<1> QED
  BY <1>1, <1>2, <1>3

\* What VMs own survives pausing the source.
LEMMA PauseOwned ==
  ASSUME IInv, Owned, NEW j \in Handlers, Pause(j)
  PROVE  Owned'
<1> USE SentinelsAssumption DEF IInv, Owned, Pause
<1>1. TasksMatch'
  BY DEF TypeOK, HandlersHold, TasksHold, StreamsMatch, IdsAreFresh,
     TasksMatch, Goto
<1>2. TapsHold'
  BY TapsFrame DEF TypeOK, HandlersHold, TasksHold, Goto
<1>3. ServersHold'
  BY ServersFrame DEF TypeOK, HandlersHold, TasksHold, Goto
<1> QED
  BY <1>1, <1>2, <1>3

\* What VMs own survives writing the snapshot.
LEMMA CreateSnapshotOwned ==
  ASSUME IInv, Owned, NEW j \in Handlers, CreateSnapshot(j)
  PROVE  Owned'
<1> USE SentinelsAssumption DEF IInv, Owned, CreateSnapshot
<1>1. TasksMatch'
  BY DEF TypeOK, HandlersHold, TasksHold, StreamsMatch, IdsAreFresh,
     TasksMatch, Goto
<1>2. TapsHold'
  BY TapsFrame DEF TypeOK, HandlersHold, TasksHold, Goto
<1>3. ServersHold'
  BY ServersFrame DEF TypeOK, HandlersHold, TasksHold, Goto
<1> QED
  BY <1>1, <1>2, <1>3

\* What VMs own survives connecting.
LEMMA ConnectOwned ==
  ASSUME IInv, Owned, NEW j \in Handlers, Connect(j)
  PROVE  Owned'
<1> USE SentinelsAssumption DEF IInv, Owned, Connect
<1>1. TasksMatch'
  BY DEF TypeOK, HandlersHold, TasksHold, StreamsMatch, IdsAreFresh,
     TasksMatch, Goto
<1>2. TapsHold'
  BY TapsFrame DEF TypeOK, HandlersHold, TasksHold, Goto
<1>3. ServersHold'
  BY ServersFrame DEF TypeOK, HandlersHold, TasksHold, Goto
<1> QED
  BY <1>1, <1>2, <1>3

\* What VMs own survives the last byte.
LEMMA FlushOwned ==
  ASSUME IInv, Owned, NEW j \in Handlers, Flush(j)
  PROVE  Owned'
<1> USE SentinelsAssumption DEF IInv, Owned, Flush
<1>1. TasksMatch'
  BY DEF TypeOK, HandlersHold, TasksHold, StreamsMatch, IdsAreFresh,
     TasksMatch, Goto, Unlinked
<1>2. TapsHold'
  BY TapsFrame DEF TypeOK, HandlersHold, TasksHold, Goto, Unlinked
<1>3. ServersHold'
  BY ServersFrame DEF TypeOK, HandlersHold, TasksHold, Goto, Unlinked
<1> QED
  BY <1>1, <1>2, <1>3

\* What VMs own survives tearing the source down after a move.
LEMMA MovedOwned ==
  ASSUME IInv, Owned, NEW j \in Handlers, Moved(j)
  PROVE  Owned'
<1> USE SentinelsAssumption DEF IInv, Owned, Moved
<1>1. TasksMatch'
  BY DEF TypeOK, HandlersHold, TasksHold, StreamsMatch, IdsAreFresh,
     TasksMatch, Teardown, EndJob, IdleJob
<1>2. TapsHold'
  BY DEF TypeOK, HandlersHold, TasksHold, IdsAreFresh, TapsHold, Alive,
     PlumbedFor, Networked, Teardown, EndJob, IdleJob
<1>3. ServersHold'
  BY DEF TypeOK, HandlersHold, TasksHold, IdsAreFresh, ServersHold,
     Restored, Teardown, EndJob, IdleJob
<1> QED
  BY <1>1, <1>2, <1>3

\* What VMs own survives a client that hangs up.
LEMMA HangupOwned ==
  ASSUME IInv, Owned, NEW j \in Handlers, Hangup(j)
  PROVE  Owned'
<1> USE SentinelsAssumption DEF IInv, Owned, Hangup
<1>1. TasksMatch'
  BY DEF TypeOK, HandlersHold, TasksHold, StreamsMatch, IdsAreFresh,
     TasksMatch, CutStream, Unlinked, EndJob, IdleJob
<1>2. TapsHold'
  BY TapsFrame DEF TypeOK, HandlersHold, TasksHold, CutStream, Unlinked,
     EndJob, IdleJob
<1>3. ServersHold'
  BY ServersFrame DEF TypeOK, HandlersHold, TasksHold, CutStream, Unlinked,
     EndJob, IdleJob
<1> QED
  BY <1>1, <1>2, <1>3

\* What VMs own survives starting to listen.
LEMMA BindOwned ==
  ASSUME IInv, Owned, NEW h \in Hosts, Bind(h)
  PROVE  Owned'
<1> USE SentinelsAssumption DEF IInv, Owned, Bind
<1>1. TasksMatch'
  BY DEF TypeOK, HandlersHold, TasksHold, StreamsMatch, IdsAreFresh,
     TasksMatch, RxGoto
<1>2. TapsHold'
  BY TapsFrame DEF TypeOK, HandlersHold, TasksHold, RxGoto
<1>3. ServersHold'
  BY ServersFrame DEF TypeOK, HandlersHold, TasksHold, RxGoto
<1> QED
  BY <1>1, <1>2, <1>3

\* What VMs own survives a deadline without a sender.
LEMMA AcceptTimeoutOwned ==
  ASSUME IInv, Owned, NEW h \in Hosts, AcceptTimeout(h)
  PROVE  Owned'
<1> USE SentinelsAssumption DEF IInv, Owned, AcceptTimeout
<1>1. TasksMatch'
  BY DEF TypeOK, HandlersHold, TasksHold, StreamsMatch, IdsAreFresh,
     TasksMatch, EndRx, IdleRx
<1>2. TapsHold'
  BY TapsFrame DEF TypeOK, HandlersHold, TasksHold, EndRx, IdleRx
<1>3. ServersHold'
  BY ServersFrame DEF TypeOK, HandlersHold, TasksHold, EndRx, IdleRx
<1> QED
  BY <1>1, <1>2, <1>3

\* What VMs own survives accepting a sender.
LEMMA AcceptOwned ==
  ASSUME IInv, Owned, NEW h \in Hosts, NEW j \in Handlers, Accept(h, j)
  PROVE  Owned'
<1> USE SentinelsAssumption DEF IInv, Owned, Accept
<1>1. TasksMatch'
  BY DEF TypeOK, HandlersHold, TasksHold, StreamsMatch, IdsAreFresh,
     TasksMatch, Goto
<1>2. TapsHold'
  BY TapsFrame DEF TypeOK, HandlersHold, TasksHold, Goto
<1>3. ServersHold'
  BY ServersFrame DEF TypeOK, HandlersHold, TasksHold, Goto
<1> QED
  BY <1>1, <1>2, <1>3

\* What VMs own survives the end of the stream.
LEMMA RecvDoneOwned ==
  ASSUME IInv, Owned, NEW h \in Hosts, RecvDone(h)
  PROVE  Owned'
<1> USE SentinelsAssumption DEF IInv, Owned, RecvDone
<1>1. TasksMatch'
  BY DEF TypeOK, HandlersHold, TasksHold, StreamsMatch, IdsAreFresh,
     TasksMatch, RxGoto
<1>2. TapsHold'
  BY TapsFrame DEF TypeOK, HandlersHold, TasksHold, RxGoto
<1>3. ServersHold'
  BY ServersFrame DEF TypeOK, HandlersHold, TasksHold, RxGoto
<1> QED
  BY <1>1, <1>2, <1>3

\* What VMs own survives a broken stream.
LEMMA RecvFailOwned ==
  ASSUME IInv, Owned, NEW h \in Hosts, RecvFail(h)
  PROVE  Owned'
<1> USE SentinelsAssumption DEF IInv, Owned, RecvFail
<1>1. TasksMatch'
  BY DEF TypeOK, HandlersHold, TasksHold, StreamsMatch, IdsAreFresh,
     TasksMatch, EndRx, IdleRx
<1>2. TapsHold'
  BY TapsFrame DEF TypeOK, HandlersHold, TasksHold, EndRx, IdleRx
<1>3. ServersHold'
  BY ServersFrame DEF TypeOK, HandlersHold, TasksHold, EndRx, IdleRx
<1> QED
  BY <1>1, <1>2, <1>3

\* What VMs own survives making the tap the snapshot names.
LEMMA ReplumbOwned ==
  ASSUME IInv, Owned, NEW h \in Hosts, Replumb(h)
  PROVE  Owned'
<1> USE SentinelsAssumption DEF IInv, Owned, Replumb
<1>1. TasksMatch'
  BY DEF TypeOK, HandlersHold, TasksHold, StreamsMatch, IdsAreFresh,
     TasksMatch, RxGoto
<1>2. TapsHold'
  BY DEF TypeOK, HandlersHold, TasksHold, IdsAreFresh, TapsHold, Alive,
     PlumbedFor, Networked, RxGoto
<1>3. ServersHold'
  BY DEF TypeOK, HandlersHold, TasksHold, IdsAreFresh, ServersHold,
     Restored, RxGoto
<1> QED
  BY <1>1, <1>2, <1>3

\* What VMs own survives a tap name that is taken on the target.
LEMMA ReplumbFailOwned ==
  ASSUME IInv, Owned, NEW h \in Hosts, ReplumbFail(h)
  PROVE  Owned'
<1> USE SentinelsAssumption DEF IInv, Owned, ReplumbFail
<1>1. TasksMatch'
  BY DEF TypeOK, HandlersHold, TasksHold, StreamsMatch, IdsAreFresh,
     TasksMatch, EndRx, IdleRx
<1>2. TapsHold'
  BY TapsFrame DEF TypeOK, HandlersHold, TasksHold, EndRx, IdleRx
<1>3. ServersHold'
  BY ServersFrame DEF TypeOK, HandlersHold, TasksHold, EndRx, IdleRx
<1> QED
  BY <1>1, <1>2, <1>3

\* What VMs own survives a tap that no task goes on with.
LEMMA ReplumbHalfwayOwned ==
  ASSUME IInv, Owned, NEW h \in Hosts, ReplumbHalfway(h)
  PROVE  Owned'
<1> USE SentinelsAssumption DEF IInv, Owned, ReplumbHalfway
<1>1. TasksMatch'
  BY DEF TypeOK, HandlersHold, TasksHold, StreamsMatch, IdsAreFresh,
     TasksMatch, EndRx, IdleRx
<1>2. TapsHold'
  BY DEF TypeOK, TapsHold, Alive, PlumbedFor, Networked, EndRx, IdleRx
<1>3. ServersHold'
  BY ServersFrame DEF TypeOK, HandlersHold, TasksHold, EndRx, IdleRx
<1> QED
  BY <1>1, <1>2, <1>3

\* What VMs own survives starting the page server.
LEMMA ServeOwned ==
  ASSUME IInv, Owned, NEW h \in Hosts, NEW v \in Vm, Serve(h, v)
  PROVE  Owned'
<1> USE SentinelsAssumption DEF IInv, Owned, Serve
<1>1. TasksMatch'
  BY DEF TypeOK, HandlersHold, TasksHold, StreamsMatch, IdsAreFresh,
     TasksMatch
<1>2. TapsHold'
  BY DEF TypeOK, HandlersHold, TasksHold, IdsAreFresh, TapsHold, Alive,
     PlumbedFor, Networked
<1>3. ServersHold'
  BY DEF TypeOK, HandlersHold, TasksHold, IdsAreFresh, ServersHold,
     Restored
<1> QED
  BY <1>1, <1>2, <1>3

\* What VMs own survives failing to start the page server or Firecracker.
LEMMA ServeFailOwned ==
  ASSUME IInv, Owned, NEW h \in Hosts, NEW v \in Vm, ServeFail(h, v)
  PROVE  Owned'
<1> USE SentinelsAssumption DEF IInv, Owned, ServeFail
<1>1. TasksMatch'
  BY DEF TypeOK, HandlersHold, TasksHold, StreamsMatch, IdsAreFresh,
     TasksMatch, EndRx, IdleRx
<1>a. rx[h].src \in Vm \ {v}
  BY DEF TasksHold, IdsAreFresh
<1>b. \A g \in Hosts : rx'[g].pc = "plumbed" => rx'[g] = rx[g]
  BY DEF TypeOK, EndRx, IdleRx
<1>2. TapsHold'
  <2>1. CASE UNCHANGED <<at, tap, proc, servers>>
    BY <1>b, <2>1, TapsFrame
  <2>2. CASE /\ at' = [at EXCEPT ![v] = h]
             /\ tap' = [tap EXCEPT ![v] = tap[rx[h].src]]
             /\ proc' = [proc EXCEPT ![v] = "killed"]
    BY <1>a, <1>b, <2>2 DEF TypeOK, TasksHold, IdsAreFresh, TapsHold, Alive,
       PlumbedFor, Networked
  <2> QED
    BY <2>1, <2>2
<1>3. ServersHold'
  BY DEF TypeOK, HandlersHold, TasksHold, IdsAreFresh, ServersHold,
     Restored, EndRx, IdleRx
<1> QED
  BY <1>1, <1>2, <1>3

\* What VMs own survives loading the snapshot.
LEMMA LoadOwned ==
  ASSUME IInv, Owned, NEW h \in Hosts, Load(h)
  PROVE  Owned'
<1> USE SentinelsAssumption DEF IInv, Owned, Load
<1>1. TasksMatch'
  BY DEF TypeOK, HandlersHold, TasksHold, StreamsMatch, IdsAreFresh,
     TasksMatch, RxGoto
<1>2. TapsHold'
  BY DEF TypeOK, HandlersHold, TasksHold, IdsAreFresh, TapsHold, Alive,
     PlumbedFor, Networked, RxGoto
<1>3. ServersHold'
  BY DEF TypeOK, HandlersHold, TasksHold, IdsAreFresh, ServersHold,
     Restored, RxGoto
<1> QED
  BY <1>1, <1>2, <1>3

\* What VMs own survives failing to load it.
LEMMA LoadFailOwned ==
  ASSUME IInv, Owned, NEW h \in Hosts, LoadFail(h)
  PROVE  Owned'
<1> USE SentinelsAssumption DEF IInv, Owned, LoadFail
<1>1. TasksMatch'
  BY DEF TypeOK, HandlersHold, TasksHold, StreamsMatch, IdsAreFresh,
     TasksMatch, EndRx, IdleRx
<1>2. TapsHold'
  BY DEF TypeOK, HandlersHold, TasksHold, IdsAreFresh, TapsHold, Alive,
     PlumbedFor, Networked, EndRx, IdleRx
<1>3. ServersHold'
  BY DEF TypeOK, HandlersHold, TasksHold, IdsAreFresh, ServersHold,
     Restored, EndRx, IdleRx
<1> QED
  BY <1>1, <1>2, <1>3

\* What VMs own survives registering the restored VM.
LEMMA RegisterOwned ==
  ASSUME IInv, Owned, NEW h \in Hosts, Register(h)
  PROVE  Owned'
<1> USE SentinelsAssumption DEF IInv, Owned, Register
<1>1. TasksMatch'
  BY DEF TypeOK, HandlersHold, TasksHold, StreamsMatch, IdsAreFresh,
     TasksMatch, Insert, EndRx, IdleRx
<1>2. TapsHold'
  BY TapsFrame DEF TypeOK, HandlersHold, TasksHold, Insert, EndRx, IdleRx
<1>3. ServersHold'
  BY ServersFrame DEF TypeOK, HandlersHold, TasksHold, Insert, EndRx,
     IdleRx
<1> QED
  BY <1>1, <1>2, <1>3

\* Every step keeps it.
LEMMA OwnedInductive == IInv /\ Owned /\ [Next]_vars => Owned'
<1> SUFFICES ASSUME IInv, Owned, [Next]_vars PROVE Owned'
  OBVIOUS
<1>1. ASSUME NEW j \in Handlers, JobStep(j) PROVE Owned'
  BY <1>1, BootOwned, SpawnInsertOwned, StandDownOwned, DrainedOwned,
     SendFailOwned, PauseOwned, CreateSnapshotOwned, ConnectOwned, FlushOwned,
     MovedOwned DEF JobStep
<1>2. ASSUME NEW j \in Handlers, SpawnFail(j) \/ Hangup(j) PROVE Owned'
  BY <1>2, SpawnFailOwned, HangupOwned
<1>3. ASSUME NEW j \in Handlers, NEW h \in Hosts, NEW v \in Vm,
             SpawnPlumb(j, h, v) \/ SpawnPlain(j, h, v) \/ Take(j, v, h)
      PROVE  Owned'
  BY <1>3, SpawnPlumbOwned, SpawnPlainOwned, TakeOwned
<1>4. ASSUME NEW h \in Hosts, RxStep(h) PROVE Owned'
  BY <1>4, AcceptTimeoutOwned, AcceptOwned, RecvDoneOwned, RecvFailOwned,
     ReplumbOwned, ReplumbFailOwned, ReplumbHalfwayOwned, ServeOwned,
     ServeFailOwned, LoadOwned, LoadFailOwned, RegisterOwned DEF RxStep
<1>5. ASSUME NEW h \in Hosts, Bind(h) \/ SpawnRefused(h) \/ SpawnHalfway(h)
      PROVE  Owned'
  BY <1>5, BindOwned, SpawnRefusedOwned, SpawnHalfwayOwned
<1>6. CASE UNCHANGED vars
  BY <1>6 DEF vars, Owned, TasksMatch, TapsHold, Alive, PlumbedFor, Networked,
              ServersHold, Restored
<1> QED
  BY <1>1, <1>2, <1>3, <1>4, <1>5, <1>6 DEF Next

\* Every reachable state satisfies both.
LEMMA OwnedHolds == Spec => [](IInv /\ Owned)
<1>1. Init => Owned
  BY SentinelsAssumption
  DEF Init, IdleJob, IdleRx, Owned, TasksMatch, TapsHold, Alive, PlumbedFor,
      Networked, ServersHold, Restored
<1> QED
  BY <1>1, InitInv, InvInductive, OwnedInductive, PTL DEF Spec

----------------------------------------------------------------------------
(* Nothing is left behind                                                  *)

\* Something owns v: a registry lists it, a handler works on it, or a
\* receiving task restores it.
Owner(v) ==
  \/ \E h \in Hosts : v \in registry[h]
  \/ \E j \in Handlers : job[j].vm = v
  \/ \E h \in Hosts : rx[h].into = v

\* Held is the set of what has an owner, before a step and after it.
LEMMA HeldHasOwner ==
  /\ \A v : v \in Held <=> Owner(v)
  /\ \A v : v \in Held' <=> Owner(v)'
<1>1. ASSUME NEW v PROVE v \in Held <=> Owner(v)
  BY DEF Held, Owner
<1>2. ASSUME NEW v PROVE v \in Held' <=> Owner(v)'
  BY DEF Held, Owner
<1> QED
  BY <1>1, <1>2

\* The tap i of host h has a user: a VM somebody owns, or a task that has
\* just plumbed it.
VmUses(h, i) == \E v \in Vm : Owner(v) /\ at[v] = h /\ tap[v] = i
InUse(h, i) ==
  VmUses(h, i) \/ (rx[h].pc = "plumbed" /\ tap[rx[h].src] = i)

\* A step that tidies up after itself: a VM keeps its owner and its place, or
\* its process, page server and tap go; only an owned VM is started or
\* served, and only a tap that is used is made.
Executes(v) == proc[v] \in {"running", "paused"}
Passed(v) == Owner(v)' /\ at'[v] = at[v] /\ tap'[v] = tap[v]
Released(v) == /\ ~Executes(v)' /\ v \notin servers'
               /\ \A h \in Hosts : at[v] = h => tap[v] \notin taps'[h]
Tidy ==
  /\ \A v \in Vm : Owner(v) => Passed(v) \/ Released(v)
  /\ \A v \in Vm : Executes(v)' => Executes(v) \/ Owner(v)'
  /\ \A v \in servers' : v \in servers \/ Owner(v)'
  /\ \A h \in Hosts : \A i \in taps'[h] : i \in taps[h] \/ InUse(h, i)'
  /\ \A h \in Hosts : \A i \in taps'[h] :
       (rx[h].pc = "plumbed" /\ tap[rx[h].src] = i) => InUse(h, i)'

\* Nothing that belongs to VMs of this fleet escapes it: an owner owns an id
\* that was given out.
LEMMA OwnersOwnVms ==
  ASSUME IInv, Owned, NEW v, Owner(v), v # NoVm
  PROVE  v \in Vm /\ at[v] \in Hosts
BY DEF IInv, TypeOK, HandlersHold, RegistryHolds, TasksHold, Owned,
       TasksMatch, Owner

\* Such a step adds no orphan.
LEMMA TidyLeavesNothing ==
  ASSUME IInv, IInv', Owned, Owned', Tidy
  PROVE  Orphans' \subseteq Orphans
<1>1. ASSUME NEW v \in Vm \ Held', Executes(v)'
      PROVE  v \in Vm \ Held /\ Executes(v)
  BY <1>1, HeldHasOwner DEF Tidy, Passed, Released
<1>2. ASSUME NEW v \in servers' \ Held'
      PROVE  v \in servers \ Held
  <2>1. v \in Vm
    BY DEF IInv, TypeOK
  <2> QED
    BY <1>2, <2>1, HeldHasOwner DEF Tidy, Passed, Released
<1>3. ASSUME NEW h \in Hosts, NEW i \in UnownedTaps(h)'
      PROVE  i \in UnownedTaps(h)
  <2>1. i \in taps'[h] /\ ~InUse(h, i)'
    <3>1. \A v \in Vm : Owner(v)' => v \in (Held \ {NoVm})'
      BY HeldHasOwner, SentinelsAssumption
    <3> QED
      BY <3>1 DEF UnownedTaps, InUse, VmUses
  <2>2. i \in taps[h] /\ ~(rx[h].pc = "plumbed" /\ tap[rx[h].src] = i)
    <3>1. i \in taps[h]
      BY <2>1 DEF Tidy
    <3>2. ASSUME rx[h].pc = "plumbed", tap[rx[h].src] = i PROVE FALSE
      BY <2>1, <3>2 DEF Tidy
    <3> QED
      BY <3>1, <3>2
  <2>3. ASSUME NEW v \in Held \ {NoVm}, at[v] = h, tap[v] = i
        PROVE  FALSE
    <3>1. v \in Vm /\ Owner(v)
      BY OwnersOwnVms, HeldHasOwner
    <3> QED
      BY <2>1, <2>3, <3>1 DEF Tidy, Passed, Released, InUse, VmUses
  <2> QED
    BY <2>2, <2>3 DEF UnownedTaps
<1>4. ASSUME NEW o \in Orphans' PROVE o \in Orphans
  <2>1. CASE \E v \in Vm \ Held' : Executes(v)' /\ o = <<"process", v>>
    BY <1>1, <2>1 DEF Orphans, Executes
  <2>2. CASE \E v \in servers' \ Held' : o = <<"server", v>>
    BY <1>2, <2>2 DEF Orphans
  <2>3. CASE \E h \in Hosts : \E i \in UnownedTaps(h)' : o = <<"tap", h, i>>
    BY <1>3, <2>3 DEF Orphans
  <2> QED
    BY <1>4, <2>1, <2>2, <2>3 DEF Orphans, Executes
<1> QED
  BY <1>4

\* A spawn owns the tap it makes.
LEMMA SpawnPlumbTidy ==
  ASSUME IInv, Owned, NEW j \in Handlers, NEW h \in Hosts, NEW v \in Vm,
         SpawnPlumb(j, h, v)
  PROVE  Tidy
<1>1. /\ \A w \in Vm : Owner(w) => w # v
      /\ \A g \in Hosts : rx[g].pc = "plumbed" => rx[g].src # v
  BY SentinelsAssumption, OwnersOwnVms
  DEF SpawnPlumb, IInv, TasksHold, IdsAreFresh
<1> QED
  BY <1>1, SentinelsAssumption DEF IInv, Owned, TypeOK, HandlersHold,
     RegistryHolds, TasksHold, TasksMatch, SpawnPlumb, Tidy, Owner, Passed,
     Released, Executes, InUse, VmUses

\* A spawn without a network makes nothing.
LEMMA SpawnPlainTidy ==
  ASSUME IInv, Owned, NEW j \in Handlers, NEW h \in Hosts, NEW v \in Vm,
         SpawnPlain(j, h, v)
  PROVE  Tidy
<1>1. \A w \in Vm : Owner(w) => w # v
  BY SentinelsAssumption, OwnersOwnVms DEF SpawnPlain
<1> QED
  BY <1>1, SentinelsAssumption DEF IInv, Owned, TypeOK, HandlersHold,
     RegistryHolds, TasksHold, TasksMatch, SpawnPlain, Tidy, Owner, Passed,
     Released, Executes, InUse, VmUses

\* Nor does a spawn that is refused.
LEMMA SpawnRefusedTidy ==
  ASSUME IInv, Owned, NEW h \in Hosts, SpawnRefused(h)
  PROVE  Tidy
BY SentinelsAssumption DEF IInv, Owned, TypeOK, HandlersHold,
   RegistryHolds, TasksHold, TasksMatch, SpawnRefused, Tidy, Owner, Passed,
   Released, Executes, InUse, VmUses

\* The process a spawn starts is its own.
LEMMA BootTidy ==
  ASSUME IInv, Owned, NEW j \in Handlers, Boot(j)
  PROVE  Tidy
BY SentinelsAssumption DEF IInv, Owned, TypeOK, HandlersHold,
   RegistryHolds, TasksHold, TasksMatch, Boot, Goto, Tidy, Owner, Passed,
   Released, Executes, InUse, VmUses

\* A spawned VM passes to the registry.
LEMMA SpawnInsertTidy ==
  ASSUME IInv, Owned, NEW j \in Handlers, SpawnInsert(j)
  PROVE  Tidy
BY SentinelsAssumption DEF IInv, Owned, TypeOK, HandlersHold,
   RegistryHolds, TasksHold, TasksMatch, SpawnInsert, Insert, EndJob,
   IdleJob, Tidy, Owner, Passed, Released, Executes, InUse, VmUses

\* take() passes a VM to the handler.
LEMMA TakeTidy ==
  ASSUME IInv, Owned, NEW j \in Handlers, NEW v \in Vm, NEW d \in Hosts,
         Take(j, v, d)
  PROVE  Tidy
BY SentinelsAssumption DEF IInv, Owned, TypeOK, HandlersHold,
   RegistryHolds, TasksHold, TasksMatch, Take, Tidy, Owner, Passed,
   Released, Executes, InUse, VmUses

\* Standing down passes it back.
LEMMA StandDownTidy ==
  ASSUME IInv, Owned, NEW j \in Handlers, StandDown(j)
  PROVE  Tidy
BY SentinelsAssumption DEF IInv, Owned, TypeOK, HandlersHold,
   RegistryHolds, TasksHold, TasksMatch, StandDown, Insert, EndJob,
   IdleJob, Tidy, Owner, Passed, Released, Executes, InUse, VmUses

\* The end of a drain leaves the owner in place.
LEMMA DrainedTidy ==
  ASSUME IInv, Owned, NEW j \in Handlers, Drained(j)
  PROVE  Tidy
BY SentinelsAssumption DEF IInv, Owned, TypeOK, HandlersHold,
   RegistryHolds, TasksHold, TasksMatch, Drained, Goto, Tidy, Owner,
   Passed, Released, Executes, InUse, VmUses

\* A failing send tears its VM down.
LEMMA SendFailTidy ==
  ASSUME IInv, Owned, NEW j \in Handlers, SendFail(j)
  PROVE  Tidy
BY SentinelsAssumption DEF IInv, Owned, TypeOK, HandlersHold,
   RegistryHolds, TasksHold, TasksMatch, SendFail, Teardown, CutStream,
   Unlinked, EndJob, IdleJob, Tidy, Owner, Passed, Released, Executes,
   InUse, VmUses

\* So does pausing leave the owner in place.
LEMMA PauseTidy ==
  ASSUME IInv, Owned, NEW j \in Handlers, Pause(j)
  PROVE  Tidy
BY SentinelsAssumption DEF IInv, Owned, TypeOK, HandlersHold,
   RegistryHolds, TasksHold, TasksMatch, Pause, Goto, Tidy, Owner, Passed,
   Released, Executes, InUse, VmUses

\* And writing the snapshot.
LEMMA CreateSnapshotTidy ==
  ASSUME IInv, Owned, NEW j \in Handlers, CreateSnapshot(j)
  PROVE  Tidy
BY SentinelsAssumption DEF IInv, Owned, TypeOK, HandlersHold,
   RegistryHolds, TasksHold, TasksMatch, CreateSnapshot, Goto, Tidy, Owner,
   Passed, Released, Executes, InUse, VmUses

\* And connecting.
LEMMA ConnectTidy ==
  ASSUME IInv, Owned, NEW j \in Handlers, Connect(j)
  PROVE  Tidy
BY SentinelsAssumption DEF IInv, Owned, TypeOK, HandlersHold,
   RegistryHolds, TasksHold, TasksMatch, Connect, Goto, Tidy, Owner,
   Passed, Released, Executes, InUse, VmUses

\* And the last byte.
LEMMA FlushTidy ==
  ASSUME IInv, Owned, NEW j \in Handlers, Flush(j)
  PROVE  Tidy
BY SentinelsAssumption DEF IInv, Owned, TypeOK, HandlersHold,
   RegistryHolds, TasksHold, TasksMatch, Flush, Goto, Unlinked, Tidy,
   Owner, Passed, Released, Executes, InUse, VmUses

\* A finished move tears its source down.
LEMMA MovedTidy ==
  ASSUME IInv, Owned, NEW j \in Handlers, Moved(j)
  PROVE  Tidy
BY SentinelsAssumption DEF IInv, Owned, TypeOK, HandlersHold,
   RegistryHolds, TasksHold, TasksMatch, Moved, Teardown, EndJob, IdleJob,
   Tidy, Owner, Passed, Released, Executes, InUse, VmUses

\* A task that starts to listen owns nothing.
LEMMA BindTidy ==
  ASSUME IInv, Owned, NEW h \in Hosts, Bind(h)
  PROVE  Tidy
BY SentinelsAssumption DEF IInv, Owned, TypeOK, HandlersHold,
   RegistryHolds, TasksHold, TasksMatch, Bind, RxGoto, Tidy, Owner, Passed,
   Released, Executes, InUse, VmUses

\* Nor did one that nobody connected to.
LEMMA AcceptTimeoutTidy ==
  ASSUME IInv, Owned, NEW h \in Hosts, AcceptTimeout(h)
  PROVE  Tidy
BY SentinelsAssumption DEF IInv, Owned, TypeOK, HandlersHold,
   RegistryHolds, TasksHold, TasksMatch, AcceptTimeout, EndRx, IdleRx,
   Tidy, Owner, Passed, Released, Executes, InUse, VmUses

\* A sender keeps its VM while it sends.
LEMMA AcceptTidy ==
  ASSUME IInv, Owned, NEW h \in Hosts, NEW j \in Handlers, Accept(h, j)
  PROVE  Tidy
BY SentinelsAssumption DEF IInv, Owned, TypeOK, HandlersHold,
   RegistryHolds, TasksHold, TasksMatch, Accept, Goto, Tidy, Owner, Passed,
   Released, Executes, InUse, VmUses

\* A whole stream changes no owner.
LEMMA RecvDoneTidy ==
  ASSUME IInv, Owned, NEW h \in Hosts, RecvDone(h)
  PROVE  Tidy
BY SentinelsAssumption DEF IInv, Owned, TypeOK, HandlersHold,
   RegistryHolds, TasksHold, TasksMatch, RecvDone, RxGoto, Tidy, Owner,
   Passed, Released, Executes, InUse, VmUses

\* A broken one neither.
LEMMA RecvFailTidy ==
  ASSUME IInv, Owned, NEW h \in Hosts, RecvFail(h)
  PROVE  Tidy
BY SentinelsAssumption DEF IInv, Owned, TypeOK, HandlersHold,
   RegistryHolds, TasksHold, TasksMatch, RecvFail, EndRx, IdleRx, Tidy,
   Owner, Passed, Released, Executes, InUse, VmUses

\* The task that makes a tap is about to use it.
LEMMA ReplumbTidy ==
  ASSUME IInv, Owned, NEW h \in Hosts, Replumb(h)
  PROVE  Tidy
BY SentinelsAssumption DEF IInv, Owned, TypeOK, HandlersHold,
   RegistryHolds, TasksHold, TasksMatch, Replumb, RxGoto, Tidy, Owner,
   Passed, Released, Executes, InUse, VmUses

\* A task that is refused a tap has made none.
LEMMA ReplumbFailTidy ==
  ASSUME IInv, Owned, NEW h \in Hosts, ReplumbFail(h)
  PROVE  Tidy
BY SentinelsAssumption DEF IInv, Owned, TypeOK, HandlersHold,
   RegistryHolds, TasksHold, TasksMatch, ReplumbFail, EndRx, IdleRx, Tidy,
   Owner, Passed, Released, Executes, InUse, VmUses

\* The restored VM takes the tap over from the task.
LEMMA ServeTidy ==
  ASSUME IInv, Owned, NEW h \in Hosts, NEW v \in Vm, Serve(h, v)
  PROVE  Tidy
<1>1. /\ \A w \in Vm : Owner(w) => w # v
      /\ \A g \in Hosts : rx[g].pc = "plumbed" => rx[g].src # v
  BY SentinelsAssumption, OwnersOwnVms
  DEF Serve, IInv, TasksHold, IdsAreFresh
<1> QED
  BY <1>1, SentinelsAssumption DEF IInv, Owned, TypeOK, HandlersHold,
     RegistryHolds, TasksHold, TasksMatch, Serve, Tidy, Owner, Passed,
     Released, Executes, InUse, VmUses

\* The process the task starts is its own.
LEMMA LoadTidy ==
  ASSUME IInv, Owned, NEW h \in Hosts, Load(h)
  PROVE  Tidy
BY SentinelsAssumption DEF IInv, Owned, TypeOK, HandlersHold,
   RegistryHolds, TasksHold, TasksMatch, Load, RxGoto, Tidy, Owner, Passed,
   Released, Executes, InUse, VmUses

\* A task that fails to load undoes what it built.
LEMMA LoadFailTidy ==
  ASSUME IInv, Owned, NEW h \in Hosts, LoadFail(h)
  PROVE  Tidy
<1>1. \A g \in Hosts : rx[g].pc = "plumbed" => rx[g].src # rx[h].into
  BY SentinelsAssumption DEF LoadFail, IInv, TasksHold, IdsAreFresh
<1> QED
  BY <1>1, SentinelsAssumption DEF IInv, Owned, TypeOK, HandlersHold,
     RegistryHolds, TasksHold, TasksMatch, LoadFail, EndRx, IdleRx, Tidy,
     Owner, Passed, Released, Executes, InUse, VmUses

\* The restored VM passes to the registry.
LEMMA RegisterTidy ==
  ASSUME IInv, Owned, NEW h \in Hosts, Register(h)
  PROVE  Tidy
BY SentinelsAssumption DEF IInv, Owned, TypeOK, HandlersHold,
   RegistryHolds, TasksHold, TasksMatch, Register, Insert, EndRx, IdleRx,
   Tidy, Owner, Passed, Released, Executes, InUse, VmUses

\* Every step but the exits that skip their clean-up tidies up.
LEMMA StepTidy ==
  ASSUME IInv, Owned, [Next]_vars,
         \A j \in Handlers : ~(SpawnFail(j) \/ Hangup(j)),
         \A h \in Hosts : ~(SpawnHalfway(h) \/ ReplumbHalfway(h)),
         \A h \in Hosts, v \in Vm : ~ServeFail(h, v)
  PROVE  Tidy
<1>1. ASSUME NEW j \in Handlers, JobStep(j) PROVE Tidy
  BY <1>1, BootTidy, SpawnInsertTidy, StandDownTidy, DrainedTidy,
     SendFailTidy, PauseTidy, CreateSnapshotTidy, ConnectTidy, FlushTidy,
     MovedTidy DEF JobStep
<1>2. ASSUME NEW j \in Handlers, NEW h \in Hosts, NEW v \in Vm,
             SpawnPlumb(j, h, v) \/ SpawnPlain(j, h, v) \/ Take(j, v, h)
      PROVE  Tidy
  BY <1>2, SpawnPlumbTidy, SpawnPlainTidy, TakeTidy
<1>3. ASSUME NEW h \in Hosts, RxStep(h) PROVE Tidy
  BY <1>3, AcceptTimeoutTidy, AcceptTidy, RecvDoneTidy, RecvFailTidy,
     ReplumbTidy, ReplumbFailTidy, ServeTidy, LoadTidy, LoadFailTidy,
     RegisterTidy DEF RxStep
<1>4. ASSUME NEW h \in Hosts, Bind(h) \/ SpawnRefused(h) PROVE Tidy
  BY <1>4, BindTidy, SpawnRefusedTidy
<1>5. CASE UNCHANGED vars
  BY <1>5 DEF vars, Tidy, Owner, Passed, Released, Executes, InUse, VmUses
<1> QED
  BY <1>1, <1>2, <1>3, <1>4, <1>5 DEF Next

----------------------------------------------------------------------------
(* The daemons keep custody of every guest                                 *)

Runs(v, g) == Running(v) /\ guest[v] = g
UnderWay(g) ==
  \/ \E v \in Vm : proc[v] = "paused" /\ guest[v] = g
  \/ \E h \in Hosts : Carries(h, g)

\* As no guest runs twice, its place is the host of the VM it runs in.
PlaceIsRead ==
  \A g \in Vm :
    /\ \A v \in Vm : Runs(v, g) => PlaceOf(g) = at[v]
    /\ (~RunsSomewhere(g) /\ UnderWay(g)) => PlaceOf(g) = "moving"
    /\ (~RunsSomewhere(g) /\ ~UnderWay(g))
         => PlaceOf(g) = IF guest[g] = g THEN "lost" ELSE "unborn"

\* The invariant gives every guest the place that the daemons' state shows.
LEMMA InvReadsPlace == IInv => PlaceIsRead
<1> SUFFICES ASSUME IInv, NEW g \in Vm
             PROVE  /\ \A v \in Vm : Runs(v, g) => PlaceOf(g) = at[v]
                    /\ (~RunsSomewhere(g) /\ UnderWay(g))
                         => PlaceOf(g) = "moving"
                    /\ (~RunsSomewhere(g) /\ ~UnderWay(g))
                         => PlaceOf(g) = IF guest[g] = g THEN "lost"
                                                         ELSE "unborn"
  BY DEF PlaceIsRead
<1>1. ASSUME NEW v \in Vm, Runs(v, g) PROVE PlaceOf(g) = at[v]
  <2>1. RunsSomewhere(g)
    BY <1>1 DEF RunsSomewhere, Runs
  <2>2. v = CHOOSE w \in Vm : Running(w) /\ guest[w] = g
    BY <1>1 DEF Runs, IInv, AtMostOneRunning
  <2> QED
    BY <2>1, <2>2 DEF PlaceOf
<1>2. ASSUME ~RunsSomewhere(g), UnderWay(g) PROVE PlaceOf(g) = "moving"
  BY <1>2 DEF PlaceOf, UnderWay
<1>3. ASSUME ~RunsSomewhere(g), ~UnderWay(g)
      PROVE  PlaceOf(g) = IF guest[g] = g THEN "lost" ELSE "unborn"
  BY <1>3 DEF PlaceOf, UnderWay
<1> QED
  BY <1>1, <1>2, <1>3

\* A guest that runs or is under way has executed, and runs on a host.
LEMMA ExecutedGuests ==
  ASSUME IInv, Owned, NEW g \in Vm
  PROVE  /\ (RunsSomewhere(g) \/ UnderWay(g)) => guest[g] = g
         /\ \A v \in Vm : Running(v) => at[v] \in Hosts /\ guest[v] \in Vm
<1>1. \A v \in Vm : Running(v) => at[v] \in Hosts /\ guest[v] \in Vm
  BY DEF IInv, TypeOK, IdsAreFresh
<1>2. \A v \in Vm : guest[v] = g => guest[g] = g
  BY DEF IInv, IdsAreFresh
<1>3. \A h \in Hosts : rx[h].src # NoVm => rx[h].src \in Vm
  BY DEF IInv, TypeOK, RxRecords
<1> QED
  BY <1>1, <1>2, <1>3 DEF RunsSomewhere, UnderWay, Carries

\* What may become of the place of one guest in one step.
PlaceMoves(g) ==
  \/ PlaceOf(g)' = PlaceOf(g)
  \/ PlaceOf(g) \in Hosts /\ PlaceOf(g)' \in {"moving", "lost"}
  \/ PlaceOf(g) = "moving" /\ PlaceOf(g)' \in Hosts \cup {"lost"}
  \/ PlaceOf(g) = "unborn" /\ PlaceOf(g)' \in Hosts

\* At most one guest moves in a step.
OneMoves ==
  \/ \A g \in Vm : PlaceOf(g)' = PlaceOf(g)
  \/ \E g \in Vm :
       PlaceMoves(g) /\ \A k \in Vm \ {g} : PlaceOf(k)' = PlaceOf(k)

Place == [g \in Vm |-> PlaceOf(g)]

\* Such a step is one of Custody's.
LEMMA OneMovesKeepsCustody ==
  ASSUME OneMoves
  PROVE  [custody!Next]_Place
<1>1. CASE \A g \in Vm : PlaceOf(g)' = PlaceOf(g)
  BY <1>1 DEF Place
<1>2. ASSUME NEW g \in Vm, PlaceMoves(g),
             \A k \in Vm \ {g} : PlaceOf(k)' = PlaceOf(k)
      PROVE  [custody!Next]_Place
  <2>1. Place' = [Place EXCEPT ![g] = PlaceOf(g)']
    BY <1>2 DEF Place
  <2>2. Place[g] = PlaceOf(g)
    BY DEF Place
  <2>3. CASE PlaceOf(g)' = PlaceOf(g)
    BY <1>2, <2>3 DEF Place
  <2>4. CASE PlaceOf(g) \in Hosts /\ PlaceOf(g)' = "moving"
    <3>1. custody!Depart(g)
      BY <2>1, <2>2, <2>4 DEF custody!Depart, Place
    <3> QED
      BY <3>1 DEF custody!Next
  <2>5. CASE PlaceOf(g) \in Hosts \cup {"moving"} /\ PlaceOf(g)' = "lost"
    <3>1. custody!Lose(g)
      BY <2>1, <2>2, <2>5 DEF custody!Lose, Place
    <3> QED
      BY <3>1 DEF custody!Next
  <2>6. CASE PlaceOf(g) = "moving" /\ PlaceOf(g)' \in Hosts
    <3>1. custody!Arrive(g, PlaceOf(g)')
      BY <2>1, <2>2, <2>6 DEF custody!Arrive, Place
    <3> QED
      BY <2>6, <3>1 DEF custody!Next
  <2>7. CASE PlaceOf(g) = "unborn" /\ PlaceOf(g)' \in Hosts
    <3>1. custody!Born(g, PlaceOf(g)')
      BY <2>1, <2>2, <2>7 DEF custody!Born, Place
    <3> QED
      BY <2>7, <3>1 DEF custody!Next
  <2> QED
    BY <1>2, <2>3, <2>4, <2>5, <2>6, <2>7 DEF PlaceMoves
<1> QED
  BY <1>1, <1>2 DEF OneMoves

\* A guest stays where it is when the VM it runs in, or else what keeps it
\* under way, does.
LEMMA PlaceStays ==
  ASSUME PlaceIsRead, PlaceIsRead', NEW g \in Vm,
         (guest[g] = g) <=> (guest'[g] = g),
         \A v \in Vm : Runs(v, g) <=> Runs(v, g)',
         \A v \in Vm : Runs(v, g) => at'[v] = at[v],
         ~RunsSomewhere(g) => (UnderWay(g) <=> UnderWay(g)')
  PROVE  PlaceOf(g)' = PlaceOf(g)
<1>1. CASE RunsSomewhere(g)
  BY <1>1 DEF PlaceIsRead, RunsSomewhere, Runs
<1>2. CASE ~RunsSomewhere(g)
  <2>1. ~RunsSomewhere(g)'
    BY <1>2 DEF RunsSomewhere, Runs
  <2> QED
    BY <1>2, <2>1 DEF PlaceIsRead
<1> QED
  BY <1>1, <1>2

\* No guest moves when none starts, stops or changes hosts.
LEMMA NobodyMoves ==
  ASSUME PlaceIsRead, PlaceIsRead', guest' = guest,
         \A v \in Vm : Running(v) <=> Running(v)',
         \A v \in Vm : Running(v) => at'[v] = at[v],
         \A g \in Vm : ~RunsSomewhere(g) => (UnderWay(g) <=> UnderWay(g)')
  PROVE  OneMoves
<1>2. ASSUME NEW g \in Vm PROVE PlaceOf(g)' = PlaceOf(g)
  <2>1. \A v \in Vm : (Runs(v, g) <=> Runs(v, g)')
                      /\ (Runs(v, g) => at'[v] = at[v])
    BY DEF Runs
  <2> QED
    BY <2>1, PlaceStays
<1> QED
  BY <1>2 DEF OneMoves

\* A step that stops VMs of one guest only, and starts none, sends that guest
\* on its way or loses it.
LEMMA GuestStops ==
  ASSUME IInv, Owned, PlaceIsRead, PlaceIsRead',
         guest' = guest, NEW g \in Vm,
         \A v \in Vm : Running(v)' => Running(v),
         \A v \in Vm : Running(v) => at'[v] = at[v],
         ~RunsSomewhere(g) => (UnderWay(g)' => UnderWay(g)),
         \A v \in Vm : (Running(v) /\ guest[v] # g) => Running(v)',
         \A k \in Vm \ {g} :
           ~RunsSomewhere(k) => (UnderWay(k) <=> UnderWay(k)')
  PROVE  OneMoves
<1>2. ASSUME NEW k \in Vm \ {g} PROVE PlaceOf(k)' = PlaceOf(k)
  <2>1. \A v \in Vm : (Runs(v, k) <=> Runs(v, k)')
                      /\ (Runs(v, k) => at'[v] = at[v])
    BY DEF Runs
  <2> QED
    BY <2>1, PlaceStays
<1>3. PlaceMoves(g)
  <2>1. CASE RunsSomewhere(g)'
    <3>1. PICK v \in Vm : Runs(v, g)'
      BY <2>1 DEF RunsSomewhere, Runs
    <3>2. Runs(v, g) /\ at'[v] = at[v]
      BY <3>1 DEF Runs
    <3> QED
      BY <3>1, <3>2 DEF PlaceIsRead, PlaceMoves
  <2>2. CASE RunsSomewhere(g) /\ ~RunsSomewhere(g)'
    <3>1. PlaceOf(g) \in Hosts /\ guest'[g] = g
      BY <2>2, ExecutedGuests DEF PlaceIsRead, RunsSomewhere, Runs
    <3>2. PlaceOf(g)' \in {"moving", "lost"}
      BY <2>2, <3>1 DEF PlaceIsRead
    <3> QED
      BY <3>1, <3>2 DEF PlaceMoves
  <2>3. CASE ~RunsSomewhere(g) /\ ~RunsSomewhere(g)'
    <3>1. UnderWay(g) => guest'[g] = g
      BY ExecutedGuests
    <3> QED
      BY <2>3, <3>1 DEF PlaceIsRead, PlaceMoves
  <2> QED
    BY <2>1, <2>2, <2>3
<1> QED
  BY <1>2, <1>3 DEF OneMoves

\* An id that is given out is nobody's place yet.
LEMMA SpawnPlumbMoves ==
  ASSUME IInv, Owned, PlaceIsRead, PlaceIsRead', NEW j \in Handlers,
         NEW h \in Hosts, NEW v \in Vm,
         SpawnPlumb(j, h, v)
  PROVE  OneMoves
<1> USE SentinelsAssumption
<1>1. /\ guest' = guest /\ proc' = proc
      /\ \A w \in Vm : Running(w) => at'[w] = at[w]
  BY DEF IInv, TypeOK, HandlersHold, RegistryHolds, TasksHold, IdsAreFresh,
     Owned, TasksMatch, SpawnPlumb
<1>2. \A k \in Hosts, g \in Vm : Carries(k, g) <=> Carries(k, g)'
  BY <1>1 DEF IInv, TypeOK, HandlersHold, RegistryHolds, TasksHold,
     IdsAreFresh, Owned, TasksMatch, SpawnPlumb, Carries
<1> QED
  BY <1>1, <1>2, NobodyMoves DEF UnderWay

\* Nor without a network.
LEMMA SpawnPlainMoves ==
  ASSUME IInv, Owned, PlaceIsRead, PlaceIsRead', NEW j \in Handlers,
         NEW h \in Hosts, NEW v \in Vm,
         SpawnPlain(j, h, v)
  PROVE  OneMoves
<1> USE SentinelsAssumption
<1>1. /\ guest' = guest /\ proc' = proc
      /\ \A w \in Vm : Running(w) => at'[w] = at[w]
  BY DEF IInv, TypeOK, HandlersHold, RegistryHolds, TasksHold, IdsAreFresh,
     Owned, TasksMatch, SpawnPlain
<1>2. \A k \in Hosts, g \in Vm : Carries(k, g) <=> Carries(k, g)'
  BY <1>1 DEF IInv, TypeOK, HandlersHold, RegistryHolds, TasksHold,
     IdsAreFresh, Owned, TasksMatch, SpawnPlain, Carries
<1> QED
  BY <1>1, <1>2, NobodyMoves DEF UnderWay

\* A refused spawn moves no guest.
LEMMA SpawnRefusedMoves ==
  ASSUME IInv, Owned, PlaceIsRead, PlaceIsRead', NEW h \in Hosts,
         SpawnRefused(h)
  PROVE  OneMoves
<1> USE SentinelsAssumption
<1>1. /\ guest' = guest /\ proc' = proc
      /\ \A w \in Vm : Running(w) => at'[w] = at[w]
  BY DEF IInv, TypeOK, HandlersHold, RegistryHolds, TasksHold, IdsAreFresh,
     Owned, TasksMatch, SpawnRefused
<1>2. \A k \in Hosts, g \in Vm : Carries(k, g) <=> Carries(k, g)'
  BY <1>1 DEF IInv, TypeOK, HandlersHold, RegistryHolds, TasksHold,
     IdsAreFresh, Owned, TasksMatch, SpawnRefused, Carries
<1> QED
  BY <1>1, <1>2, NobodyMoves DEF UnderWay

\* Nor does one whose tap cannot be brought up.
LEMMA SpawnHalfwayMoves ==
  ASSUME IInv, Owned, PlaceIsRead, PlaceIsRead', NEW h \in Hosts,
         SpawnHalfway(h)
  PROVE  OneMoves
<1> USE SentinelsAssumption
<1>1. /\ guest' = guest /\ proc' = proc
      /\ \A w \in Vm : Running(w) => at'[w] = at[w]
  BY DEF IInv, TypeOK, HandlersHold, RegistryHolds, TasksHold, IdsAreFresh,
     Owned, TasksMatch, SpawnHalfway
<1>2. \A k \in Hosts, g \in Vm : Carries(k, g) <=> Carries(k, g)'
  BY <1>1 DEF IInv, TypeOK, HandlersHold, RegistryHolds, TasksHold,
     IdsAreFresh, Owned, TasksMatch, SpawnHalfway, Carries
<1> QED
  BY <1>1, <1>2, NobodyMoves DEF UnderWay

\* Nor does registering one that runs.
LEMMA SpawnInsertMoves ==
  ASSUME IInv, Owned, PlaceIsRead, PlaceIsRead', NEW j \in Handlers,
         SpawnInsert(j)
  PROVE  OneMoves
<1> USE SentinelsAssumption
<1>1. /\ guest' = guest /\ proc' = proc
      /\ \A w \in Vm : Running(w) => at'[w] = at[w]
  BY DEF IInv, TypeOK, HandlersHold, RegistryHolds, TasksHold, IdsAreFresh,
     Owned, TasksMatch, SpawnInsert, Insert, EndJob, IdleJob
<1>2. \A k \in Hosts, g \in Vm : Carries(k, g) <=> Carries(k, g)'
  BY <1>1 DEF IInv, TypeOK, HandlersHold, RegistryHolds, TasksHold,
     IdsAreFresh, Owned, TasksMatch, SpawnInsert, Insert, EndJob, IdleJob,
     Carries
<1> QED
  BY <1>1, <1>2, NobodyMoves DEF UnderWay

\* A guest that is taken still runs.
LEMMA TakeMoves ==
  ASSUME IInv, Owned, PlaceIsRead, PlaceIsRead', NEW j \in Handlers,
         NEW v \in Vm, NEW d \in Hosts,
         Take(j, v, d)
  PROVE  OneMoves
<1> USE SentinelsAssumption
<1>1. /\ guest' = guest /\ proc' = proc
      /\ \A w \in Vm : Running(w) => at'[w] = at[w]
  BY DEF IInv, TypeOK, HandlersHold, RegistryHolds, TasksHold, IdsAreFresh,
     Owned, TasksMatch, Take
<1>2. \A k \in Hosts, g \in Vm : Carries(k, g) <=> Carries(k, g)'
  BY <1>1 DEF IInv, TypeOK, HandlersHold, RegistryHolds, TasksHold,
     IdsAreFresh, Owned, TasksMatch, Take, Carries
<1> QED
  BY <1>1, <1>2, NobodyMoves DEF UnderWay

\* And after standing down.
LEMMA StandDownMoves ==
  ASSUME IInv, Owned, PlaceIsRead, PlaceIsRead', NEW j \in Handlers,
         StandDown(j)
  PROVE  OneMoves
<1> USE SentinelsAssumption
<1>1. /\ guest' = guest /\ proc' = proc
      /\ \A w \in Vm : Running(w) => at'[w] = at[w]
  BY DEF IInv, TypeOK, HandlersHold, RegistryHolds, TasksHold, IdsAreFresh,
     Owned, TasksMatch, StandDown, Insert, EndJob, IdleJob
<1>2. \A k \in Hosts, g \in Vm : Carries(k, g) <=> Carries(k, g)'
  BY <1>1 DEF IInv, TypeOK, HandlersHold, RegistryHolds, TasksHold,
     IdsAreFresh, Owned, TasksMatch, StandDown, Insert, EndJob, IdleJob,
     Carries
<1> QED
  BY <1>1, <1>2, NobodyMoves DEF UnderWay

\* And when it is drained.
LEMMA DrainedMoves ==
  ASSUME IInv, Owned, PlaceIsRead, PlaceIsRead', NEW j \in Handlers, Drained(j)
  PROVE  OneMoves
<1> USE SentinelsAssumption
<1>1. /\ guest' = guest /\ proc' = proc
      /\ \A w \in Vm : Running(w) => at'[w] = at[w]
  BY DEF IInv, TypeOK, HandlersHold, RegistryHolds, TasksHold, IdsAreFresh,
     Owned, TasksMatch, Drained, Goto
<1>2. \A k \in Hosts, g \in Vm : Carries(k, g) <=> Carries(k, g)'
  BY <1>1 DEF IInv, TypeOK, HandlersHold, RegistryHolds, TasksHold,
     IdsAreFresh, Owned, TasksMatch, Drained, Goto, Carries
<1> QED
  BY <1>1, <1>2, NobodyMoves DEF UnderWay

\* A paused guest stays under way while it is dumped.
LEMMA CreateSnapshotMoves ==
  ASSUME IInv, Owned, PlaceIsRead, PlaceIsRead', NEW j \in Handlers,
         CreateSnapshot(j)
  PROVE  OneMoves
<1> USE SentinelsAssumption
<1>1. /\ guest' = guest /\ proc' = proc
      /\ \A w \in Vm : Running(w) => at'[w] = at[w]
  BY DEF IInv, TypeOK, HandlersHold, RegistryHolds, TasksHold, IdsAreFresh,
     Owned, TasksMatch, CreateSnapshot, Goto
<1>2. \A k \in Hosts, g \in Vm : Carries(k, g) <=> Carries(k, g)'
  BY <1>1 DEF IInv, TypeOK, HandlersHold, RegistryHolds, TasksHold,
     IdsAreFresh, Owned, TasksMatch, CreateSnapshot, Goto, Carries
<1> QED
  BY <1>1, <1>2, NobodyMoves DEF UnderWay

\* And while its handler connects.
LEMMA ConnectMoves ==
  ASSUME IInv, Owned, PlaceIsRead, PlaceIsRead', NEW j \in Handlers, Connect(j)
  PROVE  OneMoves
<1> USE SentinelsAssumption
<1>1. /\ guest' = guest /\ proc' = proc
      /\ \A w \in Vm : Running(w) => at'[w] = at[w]
  BY DEF IInv, TypeOK, HandlersHold, RegistryHolds, TasksHold, IdsAreFresh,
     Owned, TasksMatch, Connect, Goto
<1>2. \A k \in Hosts, g \in Vm : Carries(k, g) <=> Carries(k, g)'
  BY <1>1 DEF IInv, TypeOK, HandlersHold, RegistryHolds, TasksHold,
     IdsAreFresh, Owned, TasksMatch, Connect, Goto, Carries
<1> QED
  BY <1>1, <1>2, NobodyMoves DEF UnderWay

\* A stream that is written to its end still carries the guest.
LEMMA FlushMoves ==
  ASSUME IInv, Owned, PlaceIsRead, PlaceIsRead', NEW j \in Handlers, Flush(j)
  PROVE  OneMoves
<1> USE SentinelsAssumption
<1>1. /\ guest' = guest /\ proc' = proc
      /\ \A w \in Vm : Running(w) => at'[w] = at[w]
  BY DEF IInv, TypeOK, HandlersHold, RegistryHolds, TasksHold, IdsAreFresh,
     Owned, TasksMatch, Flush, Goto, Unlinked
<1>2. \A k \in Hosts, g \in Vm : Carries(k, g) <=> Carries(k, g)'
  BY <1>1 DEF IInv, TypeOK, HandlersHold, RegistryHolds, TasksHold,
     IdsAreFresh, Owned, TasksMatch, Flush, Goto, Unlinked, Carries,
     StreamsMatch, SendPcs
<1> QED
  BY <1>1, <1>2, NobodyMoves DEF UnderWay

\* A task that starts to listen carries none.
LEMMA BindMoves ==
  ASSUME IInv, Owned, PlaceIsRead, PlaceIsRead', NEW h \in Hosts, Bind(h)
  PROVE  OneMoves
<1> USE SentinelsAssumption
<1>1. /\ guest' = guest /\ proc' = proc
      /\ \A w \in Vm : Running(w) => at'[w] = at[w]
  BY DEF IInv, TypeOK, HandlersHold, RegistryHolds, TasksHold, IdsAreFresh,
     Owned, TasksMatch, Bind, RxGoto
<1>2. \A k \in Hosts, g \in Vm : Carries(k, g) <=> Carries(k, g)'
  BY <1>1 DEF IInv, TypeOK, HandlersHold, RegistryHolds, TasksHold,
     IdsAreFresh, Owned, TasksMatch, Bind, RxGoto, Carries
<1> QED
  BY <1>1, <1>2, NobodyMoves DEF UnderWay

\* Nor did one that gives up listening.
LEMMA AcceptTimeoutMoves ==
  ASSUME IInv, Owned, PlaceIsRead, PlaceIsRead', NEW h \in Hosts,
         AcceptTimeout(h)
  PROVE  OneMoves
<1> USE SentinelsAssumption
<1>1. /\ guest' = guest /\ proc' = proc
      /\ \A w \in Vm : Running(w) => at'[w] = at[w]
  BY DEF IInv, TypeOK, HandlersHold, RegistryHolds, TasksHold, IdsAreFresh,
     Owned, TasksMatch, AcceptTimeout, EndRx, IdleRx
<1>2. \A k \in Hosts, g \in Vm : Carries(k, g) <=> Carries(k, g)'
  BY <1>1 DEF IInv, TypeOK, HandlersHold, RegistryHolds, TasksHold,
     IdsAreFresh, Owned, TasksMatch, AcceptTimeout, EndRx, IdleRx, Carries
<1> QED
  BY <1>1, <1>2, NobodyMoves DEF UnderWay

\* What a sender that has paused its VM begins to send was under way.
LEMMA AcceptMoves ==
  ASSUME IInv, Owned, PlaceIsRead, PlaceIsRead', NEW h \in Hosts,
         NEW j \in Handlers,
         Accept(h, j)
  PROVE  OneMoves
<1> USE SentinelsAssumption
<1>1. /\ guest' = guest /\ proc' = proc
      /\ \A w \in Vm : Running(w) => at'[w] = at[w]
  BY DEF IInv, TypeOK, HandlersHold, RegistryHolds, TasksHold, IdsAreFresh,
     Owned, TasksMatch, Accept, Goto
<1>2. \A g \in Vm : ~RunsSomewhere(g) => (UnderWay(g) <=> UnderWay(g)')
  BY <1>1 DEF IInv, TypeOK, HandlersHold, RegistryHolds, TasksHold,
     IdsAreFresh, Owned, TasksMatch, Accept, Goto, StreamsMatch,
     RunsSomewhere, UnderWay, Carries
<1> QED
  BY <1>1, <1>2, NobodyMoves

\* A task goes on carrying its guest when the stream ends.
LEMMA RecvDoneMoves ==
  ASSUME IInv, Owned, PlaceIsRead, PlaceIsRead', NEW h \in Hosts, RecvDone(h)
  PROVE  OneMoves
<1> USE SentinelsAssumption
<1>1. /\ guest' = guest /\ proc' = proc
      /\ \A w \in Vm : Running(w) => at'[w] = at[w]
  BY DEF IInv, TypeOK, HandlersHold, RegistryHolds, TasksHold, IdsAreFresh,
     Owned, TasksMatch, RecvDone, RxGoto
<1>2. \A k \in Hosts, g \in Vm : Carries(k, g) <=> Carries(k, g)'
  BY <1>1 DEF IInv, TypeOK, HandlersHold, RegistryHolds, TasksHold,
     IdsAreFresh, Owned, TasksMatch, RecvDone, RxGoto, Carries
<1> QED
  BY <1>1, <1>2, NobodyMoves DEF UnderWay

\* And when it has made the tap.
LEMMA ReplumbMoves ==
  ASSUME IInv, Owned, PlaceIsRead, PlaceIsRead', NEW h \in Hosts, Replumb(h)
  PROVE  OneMoves
<1> USE SentinelsAssumption
<1>1. /\ guest' = guest /\ proc' = proc
      /\ \A w \in Vm : Running(w) => at'[w] = at[w]
  BY DEF IInv, TypeOK, HandlersHold, RegistryHolds, TasksHold, IdsAreFresh,
     Owned, TasksMatch, Replumb, RxGoto
<1>2. \A k \in Hosts, g \in Vm : Carries(k, g) <=> Carries(k, g)'
  BY <1>1 DEF IInv, TypeOK, HandlersHold, RegistryHolds, TasksHold,
     IdsAreFresh, Owned, TasksMatch, Replumb, RxGoto, Carries
<1> QED
  BY <1>1, <1>2, NobodyMoves DEF UnderWay

\* And when it serves the pages.
LEMMA ServeMoves ==
  ASSUME IInv, Owned, PlaceIsRead, PlaceIsRead', NEW h \in Hosts, NEW v \in Vm,
         Serve(h, v)
  PROVE  OneMoves
<1> USE SentinelsAssumption
<1>1. /\ guest' = guest /\ proc' = proc
      /\ \A w \in Vm : Running(w) => at'[w] = at[w]
  BY DEF IInv, TypeOK, HandlersHold, RegistryHolds, TasksHold, IdsAreFresh,
     Owned, TasksMatch, Serve
<1>2. \A k \in Hosts, g \in Vm : Carries(k, g) <=> Carries(k, g)'
  BY <1>1 DEF IInv, TypeOK, HandlersHold, RegistryHolds, TasksHold,
     IdsAreFresh, Owned, TasksMatch, Serve, Carries
<1> QED
  BY <1>1, <1>2, NobodyMoves DEF UnderWay

\* A restored guest runs on when its task ends.
LEMMA RegisterMoves ==
  ASSUME IInv, Owned, PlaceIsRead, PlaceIsRead', NEW h \in Hosts, Register(h)
  PROVE  OneMoves
<1> USE SentinelsAssumption
<1>1. /\ guest' = guest /\ proc' = proc
      /\ \A w \in Vm : Running(w) => at'[w] = at[w]
  BY DEF IInv, TypeOK, HandlersHold, RegistryHolds, TasksHold, IdsAreFresh,
     Owned, TasksMatch, Register, Insert, EndRx, IdleRx
<1>2. \A g \in Vm : ~RunsSomewhere(g) => (UnderWay(g) <=> UnderWay(g)')
  BY <1>1 DEF IInv, TypeOK, HandlersHold, RegistryHolds, TasksHold,
     IdsAreFresh, Owned, TasksMatch, Register, Insert, EndRx, IdleRx,
     StreamsMatch, RunsSomewhere, UnderWay, Carries
<1> QED
  BY <1>1, <1>2, NobodyMoves

\* A spawn that fails loses the guest it booted.
LEMMA SpawnFailMoves ==
  ASSUME IInv, Owned, PlaceIsRead, PlaceIsRead', NEW j \in Handlers,
         SpawnFail(j)
  PROVE  OneMoves
<1> USE SentinelsAssumption
<1>1. CASE job[j].pc = "booting"
  <2>1. /\ guest' = guest /\ proc' = proc /\ rx' = rx
        /\ \A w \in Vm : Running(w) => at'[w] = at[w]
    BY <1>1 DEF IInv, TypeOK, HandlersHold, RegistryHolds, TasksHold,
       IdsAreFresh, Owned, TasksMatch, SpawnFail, EndJob, IdleJob,
       SpawnPcs
  <2> QED
    BY <2>1, NobodyMoves DEF UnderWay, Carries
<1>2. CASE job[j].pc = "booted"
  <2>1. job[j].vm \in Vm /\ guest[job[j].vm] \in Vm /\ guest' = guest 
        /\ at' = at /\ rx' = rx
    BY <1>2 DEF IInv, TypeOK, HandlersHold, RegistryHolds, TasksHold,
       IdsAreFresh, Owned, TasksMatch, SpawnFail, EndJob, IdleJob,
       SpawnPcs
  <2> PICK s \in Vm : s = job[j].vm
    BY <2>1
  <2> PICK g \in Vm : g = guest[s]
    BY <2>1
  <2>2. \A w \in Vm : (Running(w)' => Running(w))
                      /\ (w # s => proc'[w] = proc[w])
                      /\ (proc'[w] = "paused" <=> proc[w] = "paused")
    BY <1>2, <2>1 DEF IInv, TypeOK, HandlersHold, RegistryHolds,
       TasksHold, IdsAreFresh, Owned, TasksMatch, SpawnFail, EndJob,
       IdleJob, SpawnPcs
  <2> QED
    BY <2>1, <2>2, GuestStops DEF UnderWay, Carries
<1> QED
  BY <1>1, <1>2 DEF SpawnFail

\* A guest that is paused is under way.
LEMMA PauseMoves ==
  ASSUME IInv, Owned, PlaceIsRead, PlaceIsRead', NEW j \in Handlers, Pause(j)
  PROVE  OneMoves
<1> USE SentinelsAssumption
<1>1. job[j].vm \in Vm /\ guest[job[j].vm] \in Vm /\ guest' = guest
  BY DEF IInv, TypeOK, HandlersHold, RegistryHolds, TasksHold, IdsAreFresh,
     Owned, TasksMatch, Pause, Goto
<1> PICK s \in Vm : s = job[j].vm
  BY <1>1
<1> PICK g \in Vm : g = guest[s]
  BY <1>1
<1>2. \A w \in Vm :
        /\ Running(w)' => Running(w)
        /\ Running(w) => at'[w] = at[w]
        /\ (Running(w) /\ guest[w] # g) => Running(w)'
        /\ proc'[w] = "paused"
             => (proc[w] = "paused" \/ (Running(w) /\ w = s))
        /\ (proc[w] = "paused" /\ guest[w] # g) => proc'[w] = "paused"
  BY <1>1 DEF IInv, TypeOK, HandlersHold, RegistryHolds, TasksHold,
     IdsAreFresh, Owned, TasksMatch, Pause, Goto
<1>3. \A k \in Hosts, i \in Vm :
        /\ Carries(k, i)' => Carries(k, i)
        /\ (Carries(k, i) /\ i # g) => Carries(k, i)'
  BY <1>1 DEF IInv, TypeOK, HandlersHold, RegistryHolds, TasksHold,
     IdsAreFresh, Owned, TasksMatch, Pause, Goto, StreamsMatch, Carries
<1> QED
  BY <1>1, <1>2, <1>3, GuestStops DEF UnderWay, RunsSomewhere

\* A send that fails loses its guest, unless the target has all of it.
LEMMA SendFailMoves ==
  ASSUME IInv, Owned, PlaceIsRead, PlaceIsRead', NEW j \in Handlers,
         SendFail(j)
  PROVE  OneMoves
<1> USE SentinelsAssumption
<1>1. job[j].vm \in Vm /\ guest[job[j].vm] \in Vm /\ guest' = guest
  BY DEF IInv, TypeOK, HandlersHold, RegistryHolds, TasksHold, IdsAreFresh,
     Owned, TasksMatch, SendFail, Teardown, CutStream, Unlinked, EndJob,
     IdleJob, MayFail, SendPcs
<1> PICK s \in Vm : s = job[j].vm
  BY <1>1
<1> PICK g \in Vm : g = guest[s]
  BY <1>1
<1>2. \A w \in Vm :
        /\ Running(w)' => Running(w)
        /\ Running(w) => at'[w] = at[w]
        /\ (Running(w) /\ guest[w] # g) => Running(w)'
        /\ proc'[w] = "paused"
             => (proc[w] = "paused" \/ (Running(w) /\ w = s))
        /\ (proc[w] = "paused" /\ guest[w] # g) => proc'[w] = "paused"
  BY <1>1 DEF IInv, TypeOK, HandlersHold, RegistryHolds, TasksHold,
     IdsAreFresh, Owned, TasksMatch, SendFail, Teardown, CutStream,
     Unlinked, EndJob, IdleJob, MayFail, SendPcs
<1>3. \A k \in Hosts, i \in Vm :
        /\ Carries(k, i)' => Carries(k, i)
        /\ (Carries(k, i) /\ i # g) => Carries(k, i)'
  BY <1>1 DEF IInv, TypeOK, HandlersHold, RegistryHolds, TasksHold,
     IdsAreFresh, Owned, TasksMatch, SendFail, Teardown, CutStream,
     Unlinked, EndJob, IdleJob, MayFail, SendPcs, StreamsMatch, Carries
<1> QED
  BY <1>1, <1>2, <1>3, GuestStops DEF UnderWay, RunsSomewhere

\* Tearing the source down leaves the guest to the target.
LEMMA MovedMoves ==
  ASSUME IInv, Owned, PlaceIsRead, PlaceIsRead', NEW j \in Handlers, Moved(j)
  PROVE  OneMoves
<1> USE SentinelsAssumption
<1>1. job[j].vm \in Vm /\ guest[job[j].vm] \in Vm /\ guest' = guest
  BY DEF IInv, TypeOK, HandlersHold, RegistryHolds, TasksHold, IdsAreFresh,
     Owned, TasksMatch, Moved, Teardown, EndJob, IdleJob, SendPcs
<1> PICK s \in Vm : s = job[j].vm
  BY <1>1
<1> PICK g \in Vm : g = guest[s]
  BY <1>1
<1>2. \A w \in Vm :
        /\ Running(w)' => Running(w)
        /\ Running(w) => at'[w] = at[w]
        /\ (Running(w) /\ guest[w] # g) => Running(w)'
        /\ proc'[w] = "paused"
             => (proc[w] = "paused" \/ (Running(w) /\ w = s))
        /\ (proc[w] = "paused" /\ guest[w] # g) => proc'[w] = "paused"
  BY <1>1 DEF IInv, TypeOK, HandlersHold, RegistryHolds, TasksHold,
     IdsAreFresh, Owned, TasksMatch, Moved, Teardown, EndJob, IdleJob,
     SendPcs
<1>3. \A k \in Hosts, i \in Vm :
        /\ Carries(k, i)' => Carries(k, i)
        /\ (Carries(k, i) /\ i # g) => Carries(k, i)'
  BY <1>1 DEF IInv, TypeOK, HandlersHold, RegistryHolds, TasksHold,
     IdsAreFresh, Owned, TasksMatch, Moved, Teardown, EndJob, IdleJob,
     SendPcs, StreamsMatch, Carries
<1> QED
  BY <1>1, <1>2, <1>3, GuestStops DEF UnderWay, RunsSomewhere

\* A client that hangs up loses the guest, unless the target has all of it.
LEMMA HangupMoves ==
  ASSUME IInv, Owned, PlaceIsRead, PlaceIsRead', NEW j \in Handlers, Hangup(j)
  PROVE  OneMoves
<1> USE SentinelsAssumption
<1>1. job[j].vm \in Vm /\ guest[job[j].vm] \in Vm /\ guest' = guest
  BY DEF IInv, TypeOK, HandlersHold, RegistryHolds, TasksHold, IdsAreFresh,
     Owned, TasksMatch, Hangup, CutStream, Unlinked, EndJob, IdleJob,
     SendPcs
<1> PICK s \in Vm : s = job[j].vm
  BY <1>1
<1> PICK g \in Vm : g = guest[s]
  BY <1>1
<1>2. \A w \in Vm :
        /\ Running(w)' => Running(w)
        /\ Running(w) => at'[w] = at[w]
        /\ (Running(w) /\ guest[w] # g) => Running(w)'
        /\ proc'[w] = "paused"
             => (proc[w] = "paused" \/ (Running(w) /\ w = s))
        /\ (proc[w] = "paused" /\ guest[w] # g) => proc'[w] = "paused"
  BY <1>1 DEF IInv, TypeOK, HandlersHold, RegistryHolds, TasksHold,
     IdsAreFresh, Owned, TasksMatch, Hangup, CutStream, Unlinked, EndJob,
     IdleJob, SendPcs
<1>3. \A k \in Hosts, i \in Vm :
        /\ Carries(k, i)' => Carries(k, i)
        /\ (Carries(k, i) /\ i # g) => Carries(k, i)'
  BY <1>1 DEF IInv, TypeOK, HandlersHold, RegistryHolds, TasksHold,
     IdsAreFresh, Owned, TasksMatch, Hangup, CutStream, Unlinked, EndJob,
     IdleJob, SendPcs, StreamsMatch, Carries
<1> QED
  BY <1>1, <1>2, <1>3, GuestStops DEF UnderWay, RunsSomewhere

\* A broken stream loses its guest.
LEMMA RecvFailMoves ==
  ASSUME IInv, Owned, PlaceIsRead, PlaceIsRead', NEW h \in Hosts, RecvFail(h)
  PROVE  OneMoves
<1> USE SentinelsAssumption
<1>1. rx[h].src \in Vm /\ guest[rx[h].src] \in Vm /\ guest' = guest
  BY DEF IInv, TypeOK, HandlersHold, RegistryHolds, TasksHold, IdsAreFresh,
     Owned, TasksMatch, RecvFail, EndRx, IdleRx
<1> PICK s \in Vm : s = rx[h].src
  BY <1>1
<1> PICK g \in Vm : g = guest[s]
  BY <1>1
<1>2. \A w \in Vm :
        /\ Running(w)' => Running(w)
        /\ Running(w) => at'[w] = at[w]
        /\ (Running(w) /\ guest[w] # g) => Running(w)'
        /\ proc'[w] = "paused"
             => (proc[w] = "paused" \/ (Running(w) /\ w = s))
        /\ (proc[w] = "paused" /\ guest[w] # g) => proc'[w] = "paused"
  BY <1>1 DEF IInv, TypeOK, HandlersHold, RegistryHolds, TasksHold,
     IdsAreFresh, Owned, TasksMatch, RecvFail, EndRx, IdleRx
<1>3. \A k \in Hosts, i \in Vm :
        /\ Carries(k, i)' => Carries(k, i)
        /\ (Carries(k, i) /\ i # g) => Carries(k, i)'
  BY <1>1 DEF IInv, TypeOK, HandlersHold, RegistryHolds, TasksHold,
     IdsAreFresh, Owned, TasksMatch, RecvFail, EndRx, IdleRx, StreamsMatch,
     Carries
<1> QED
  BY <1>1, <1>2, <1>3, GuestStops DEF UnderWay, RunsSomewhere

\* So does a tap name that is taken.
LEMMA ReplumbFailMoves ==
  ASSUME IInv, Owned, PlaceIsRead, PlaceIsRead', NEW h \in Hosts,
         ReplumbFail(h)
  PROVE  OneMoves
<1> USE SentinelsAssumption
<1>1. rx[h].src \in Vm /\ guest[rx[h].src] \in Vm /\ guest' = guest
  BY DEF IInv, TypeOK, HandlersHold, RegistryHolds, TasksHold, IdsAreFresh,
     Owned, TasksMatch, ReplumbFail, EndRx, IdleRx
<1> PICK s \in Vm : s = rx[h].src
  BY <1>1
<1> PICK g \in Vm : g = guest[s]
  BY <1>1
<1>2. \A w \in Vm :
        /\ Running(w)' => Running(w)
        /\ Running(w) => at'[w] = at[w]
        /\ (Running(w) /\ guest[w] # g) => Running(w)'
        /\ proc'[w] = "paused"
             => (proc[w] = "paused" \/ (Running(w) /\ w = s))
        /\ (proc[w] = "paused" /\ guest[w] # g) => proc'[w] = "paused"
  BY <1>1 DEF IInv, TypeOK, HandlersHold, RegistryHolds, TasksHold,
     IdsAreFresh, Owned, TasksMatch, ReplumbFail, EndRx, IdleRx
<1>3. \A k \in Hosts, i \in Vm :
        /\ Carries(k, i)' => Carries(k, i)
        /\ (Carries(k, i) /\ i # g) => Carries(k, i)'
  BY <1>1 DEF IInv, TypeOK, HandlersHold, RegistryHolds, TasksHold,
     IdsAreFresh, Owned, TasksMatch, ReplumbFail, EndRx, IdleRx,
     StreamsMatch, Carries
<1> QED
  BY <1>1, <1>2, <1>3, GuestStops DEF UnderWay, RunsSomewhere

\* Or that cannot be brought up.
LEMMA ReplumbHalfwayMoves ==
  ASSUME IInv, Owned, PlaceIsRead, PlaceIsRead', NEW h \in Hosts,
         ReplumbHalfway(h)
  PROVE  OneMoves
<1> USE SentinelsAssumption
<1>1. rx[h].src \in Vm /\ guest[rx[h].src] \in Vm /\ guest' = guest
  BY DEF IInv, TypeOK, HandlersHold, RegistryHolds, TasksHold, IdsAreFresh,
     Owned, TasksMatch, ReplumbHalfway, EndRx, IdleRx
<1> PICK s \in Vm : s = rx[h].src
  BY <1>1
<1> PICK g \in Vm : g = guest[s]
  BY <1>1
<1>2. \A w \in Vm :
        /\ Running(w)' => Running(w)
        /\ Running(w) => at'[w] = at[w]
        /\ (Running(w) /\ guest[w] # g) => Running(w)'
        /\ proc'[w] = "paused"
             => (proc[w] = "paused" \/ (Running(w) /\ w = s))
        /\ (proc[w] = "paused" /\ guest[w] # g) => proc'[w] = "paused"
  BY <1>1 DEF IInv, TypeOK, HandlersHold, RegistryHolds, TasksHold,
     IdsAreFresh, Owned, TasksMatch, ReplumbHalfway, EndRx, IdleRx
<1>3. \A k \in Hosts, i \in Vm :
        /\ Carries(k, i)' => Carries(k, i)
        /\ (Carries(k, i) /\ i # g) => Carries(k, i)'
  BY <1>1 DEF IInv, TypeOK, HandlersHold, RegistryHolds, TasksHold,
     IdsAreFresh, Owned, TasksMatch, ReplumbHalfway, EndRx, IdleRx,
     StreamsMatch, Carries
<1> QED
  BY <1>1, <1>2, <1>3, GuestStops DEF UnderWay, RunsSomewhere

\* And a page server or process that does not start.
LEMMA ServeFailMoves ==
  ASSUME IInv, Owned, PlaceIsRead, PlaceIsRead', NEW h \in Hosts, NEW v \in Vm,
         ServeFail(h, v)
  PROVE  OneMoves
<1> USE SentinelsAssumption
<1>1. rx[h].src \in Vm /\ guest[rx[h].src] \in Vm /\ guest' = guest
  BY DEF IInv, TypeOK, HandlersHold, RegistryHolds, TasksHold, IdsAreFresh,
     Owned, TasksMatch, ServeFail, EndRx, IdleRx
<1> PICK s \in Vm : s = rx[h].src
  BY <1>1
<1> PICK g \in Vm : g = guest[s]
  BY <1>1
<1>2. \A w \in Vm :
        /\ Running(w)' => Running(w)
        /\ Running(w) => at'[w] = at[w]
        /\ (Running(w) /\ guest[w] # g) => Running(w)'
        /\ proc'[w] = "paused"
             => (proc[w] = "paused" \/ (Running(w) /\ w = s))
        /\ (proc[w] = "paused" /\ guest[w] # g) => proc'[w] = "paused"
  BY <1>1 DEF IInv, TypeOK, HandlersHold, RegistryHolds, TasksHold,
     IdsAreFresh, Owned, TasksMatch, ServeFail, EndRx, IdleRx
<1>3. \A k \in Hosts, i \in Vm :
        /\ Carries(k, i)' => Carries(k, i)
        /\ (Carries(k, i) /\ i # g) => Carries(k, i)'
  BY <1>1 DEF IInv, TypeOK, HandlersHold, RegistryHolds, TasksHold,
     IdsAreFresh, Owned, TasksMatch, ServeFail, EndRx, IdleRx,
     StreamsMatch, Carries
<1> QED
  BY <1>1, <1>2, <1>3, GuestStops DEF UnderWay, RunsSomewhere

\* And a snapshot that does not load.
LEMMA LoadFailMoves ==
  ASSUME IInv, Owned, PlaceIsRead, PlaceIsRead', NEW h \in Hosts, LoadFail(h)
  PROVE  OneMoves
<1> USE SentinelsAssumption
<1>1. rx[h].src \in Vm /\ guest[rx[h].src] \in Vm /\ guest' = guest
  BY DEF IInv, TypeOK, HandlersHold, RegistryHolds, TasksHold, IdsAreFresh,
     Owned, TasksMatch, LoadFail, EndRx, IdleRx
<1> PICK s \in Vm : s = rx[h].src
  BY <1>1
<1> PICK g \in Vm : g = guest[s]
  BY <1>1
<1>2. \A w \in Vm :
        /\ Running(w)' => Running(w)
        /\ Running(w) => at'[w] = at[w]
        /\ (Running(w) /\ guest[w] # g) => Running(w)'
        /\ proc'[w] = "paused"
             => (proc[w] = "paused" \/ (Running(w) /\ w = s))
        /\ (proc[w] = "paused" /\ guest[w] # g) => proc'[w] = "paused"
  BY <1>1 DEF IInv, TypeOK, HandlersHold, RegistryHolds, TasksHold,
     IdsAreFresh, Owned, TasksMatch, LoadFail, EndRx, IdleRx
<1>3. \A k \in Hosts, i \in Vm :
        /\ Carries(k, i)' => Carries(k, i)
        /\ (Carries(k, i) /\ i # g) => Carries(k, i)'
  BY <1>1 DEF IInv, TypeOK, HandlersHold, RegistryHolds, TasksHold,
     IdsAreFresh, Owned, TasksMatch, LoadFail, EndRx, IdleRx, StreamsMatch,
     Carries
<1> QED
  BY <1>1, <1>2, <1>3, GuestStops DEF UnderWay, RunsSomewhere

\* A guest that boots is born on the host of its VM.
LEMMA BootMoves ==
  ASSUME IInv, Owned, PlaceIsRead, PlaceIsRead', NEW j \in Handlers, Boot(j)
  PROVE  OneMoves
<1> USE SentinelsAssumption
<1> PICK v \in Vm : v = job[j].vm
  BY DEF IInv, HandlersHold, Boot
<1>1. /\ at[v] \in Hosts /\ proc[v] = "none" /\ guest[v] = NoVm
      /\ guest' = [guest EXCEPT ![v] = v]
      /\ proc' = [proc EXCEPT ![v] = "running"]
      /\ at' = at /\ rx' = rx
  BY DEF IInv, TypeOK, HandlersHold, IdsAreFresh, Boot, SpawnPcs
<1>2. \A w \in Vm \ {v} : guest'[w] = guest[w] /\ proc'[w] = proc[w]
  BY <1>1 DEF IInv, TypeOK
<1>3. proc'[v] = "running" /\ guest'[v] = v
  BY <1>1 DEF IInv, TypeOK
<1>4. \A h \in Hosts : rx[h].src # NoVm => rx[h].src \in Vm \ {v}
  BY <1>1 DEF IInv, TypeOK, RxRecords, TasksHold, Owned, TasksMatch
<1>6. ASSUME NEW k \in Vm \ {v} PROVE PlaceOf(k)' = PlaceOf(k)
  <2>1. \A w \in Vm : (Runs(w, k) <=> Runs(w, k)')
                      /\ (Runs(w, k) => at'[w] = at[w])
    BY <1>1, <1>2, <1>3 DEF Runs
  <2>2. UnderWay(k) <=> UnderWay(k)'
    BY <1>1, <1>2, <1>3, <1>4 DEF UnderWay, Carries
  <2>3. (guest[k] = k) <=> (guest'[k] = k)
    BY <1>2
  <2> QED
    BY <2>1, <2>2, <2>3, PlaceStays
<1>7. PlaceOf(v) = "unborn"
  <2>1. guest[v] # v
    BY <1>1
  <2>2. ~RunsSomewhere(v) /\ ~UnderWay(v)
    BY <1>1, <2>1, ExecutedGuests
  <2> QED
    BY <1>1, <2>1, <2>2 DEF PlaceIsRead
<1>8. PlaceOf(v)' \in Hosts
  <2>1. Runs(v, v)'
    BY <1>3 DEF Runs
  <2> QED
    BY <1>1, <2>1 DEF PlaceIsRead
<1> QED
  BY <1>1, <1>6, <1>7, <1>8 DEF OneMoves, PlaceMoves

\* A snapshot that is loaded arrives with its guest.
LEMMA LoadMoves ==
  ASSUME IInv, Owned, PlaceIsRead, PlaceIsRead', NEW h \in Hosts, Load(h)
  PROVE  OneMoves
<1> USE SentinelsAssumption
<1> PICK v \in Vm : v = rx[h].into
  BY DEF IInv, TasksHold, Load
<1> PICK g \in Vm : g = guest[rx[h].src]
  BY DEF IInv, TasksHold, Load
<1>1. /\ at[v] = h /\ proc[v] = "none" /\ guest[v] = NoVm
      /\ guest' = [guest EXCEPT ![v] = g]
      /\ proc' = [proc EXCEPT ![v] = "running"]
      /\ at' = at
  BY DEF IInv, TypeOK, TasksHold, IdsAreFresh, Load
<1>2. \A w \in Vm \ {v} : guest'[w] = guest[w] /\ proc'[w] = proc[w]
  BY <1>1 DEF IInv, TypeOK
<1>3. proc'[v] = "running" /\ guest'[v] = g
  BY <1>1 DEF IInv, TypeOK
<1>4. \A k \in Hosts : rx[k].src # NoVm => rx[k].src \in Vm \ {v}
  BY <1>1 DEF IInv, TypeOK, RxRecords, TasksHold, Owned, TasksMatch
<1>5. \A k \in Hosts : rx'[k].src = rx[k].src /\ rx'[k].stream = rx[k].stream
  BY DEF Load, RxGoto, IInv, TypeOK
<1>7. g # v /\ guest[g] = g /\ ~RunsSomewhere(g) /\ UnderWay(g)
  <2>1. Active(h) /\ Carries(h, g)
    BY <1>4, <1>1 DEF Load, Active, Carries, IInv, StreamsMatch, TasksHold
  <2>2. ~RunsSomewhere(g)
    BY <2>1 DEF IInv, OneCarrier, RunsSomewhere
  <2> QED
    BY <1>1, <2>1, <2>2, ExecutedGuests DEF UnderWay
<1>8. ASSUME NEW k \in Vm \ {g} PROVE PlaceOf(k)' = PlaceOf(k)
  <2>1. \A w \in Vm : (Runs(w, k) <=> Runs(w, k)')
                      /\ (Runs(w, k) => at'[w] = at[w])
    BY <1>1, <1>2, <1>3 DEF Runs
  <2>2. UnderWay(k) <=> UnderWay(k)'
    BY <1>1, <1>2, <1>3, <1>4, <1>5 DEF UnderWay, Carries
  <2>3. (guest[k] = k) <=> (guest'[k] = k)
    BY <1>1, <1>2, <1>3
  <2> QED
    BY <2>1, <2>2, <2>3, PlaceStays
<1>9. PlaceOf(g) = "moving"
  BY <1>1, <1>7 DEF PlaceIsRead
<1>10. PlaceOf(g)' \in Hosts
  <2>1. Runs(v, g)'
    BY <1>3 DEF Runs
  <2> QED
    BY <1>1, <2>1 DEF PlaceIsRead
<1> QED
  BY <1>1, <1>8, <1>9, <1>10 DEF OneMoves, PlaceMoves

\* Every step moves at most one guest.
LEMMA StepMoves ==
  ASSUME IInv, Owned, PlaceIsRead, PlaceIsRead', [Next]_vars
  PROVE  OneMoves
<1>1. ASSUME NEW j \in Handlers, JobStep(j) PROVE OneMoves
  BY <1>1, BootMoves, SpawnInsertMoves, StandDownMoves, DrainedMoves,
     SendFailMoves, PauseMoves, CreateSnapshotMoves, ConnectMoves, FlushMoves,
     MovedMoves DEF JobStep
<1>2. ASSUME NEW j \in Handlers, SpawnFail(j) \/ Hangup(j) PROVE OneMoves
  BY <1>2, SpawnFailMoves, HangupMoves
<1>3. ASSUME NEW j \in Handlers, NEW h \in Hosts, NEW v \in Vm,
             SpawnPlumb(j, h, v) \/ SpawnPlain(j, h, v) \/ Take(j, v, h)
      PROVE  OneMoves
  BY <1>3, SpawnPlumbMoves, SpawnPlainMoves, TakeMoves
<1>4. ASSUME NEW h \in Hosts, RxStep(h) PROVE OneMoves
  BY <1>4, AcceptTimeoutMoves, AcceptMoves, RecvDoneMoves, RecvFailMoves,
     ReplumbMoves, ReplumbFailMoves, ReplumbHalfwayMoves, ServeMoves,
     ServeFailMoves, LoadMoves, LoadFailMoves, RegisterMoves DEF RxStep
<1>5. ASSUME NEW h \in Hosts, Bind(h) \/ SpawnRefused(h) \/ SpawnHalfway(h)
      PROVE  OneMoves
  BY <1>5, BindMoves, SpawnRefusedMoves, SpawnHalfwayMoves
<1>6. CASE UNCHANGED vars
  BY <1>6, NobodyMoves DEF vars, UnderWay, Carries, RunsSomewhere
<1> QED
  BY <1>1, <1>2, <1>3, <1>4, <1>5, <1>6 DEF Next

----------------------------------------------------------------------------
(* Theorems                                                                *)

\* Every reachable state of a fleet, whatever fails in it, is well typed.
THEOREM MigrationTypeOK == Spec => []TypeOK
<1>1. IInv => TypeOK
  BY DEF IInv
<1> QED
  BY <1>1, InvHolds, PTL

\* However many spawns, sends and receives race, fail and are dropped
\* (take, migrate_running, receive_and_restore), no guest executes twice.
THEOREM NoGuestRunsTwice == Spec => []AtMostOneRunning
<1>1. IInv => AtMostOneRunning
  BY DEF IInv
<1> QED
  BY <1>1, InvHolds, PTL

\* Whatever races and fails, a VM that a registry lists runs on that host, is
\* on no handler's account, has its own tap there and has its pages served
\* (VmRegistry::list, RunningVm).
THEOREM ListedVmsAreWhole == Spec => []RegisteredIsWhole
<1>1. IInv /\ Owned => RegisteredIsWhole
  <2> SUFFICES ASSUME IInv, Owned, NEW h \in Hosts, NEW v \in registry[h]
               PROVE  /\ Running(v) /\ at[v] = h
                      /\ \A j \in Handlers : job[j].vm # v
                      /\ Networked(v) => tap[v] \in taps[h]
                      /\ \A w \in Vm : (w # v /\ Running(w) /\ at[w] = h
                                         /\ Networked(w)) => tap[w] # tap[v]
                      /\ Restored(v) => v \in servers
    BY DEF RegisteredIsWhole
  <2>1. /\ v \in Vm /\ Running(v) /\ at[v] = h
        /\ \A j \in Handlers : job[j].vm # v
    BY DEF IInv, TypeOK, RegistryHolds
  <2>2. \A w \in Vm : (Running(w) /\ at[w] = h) => Alive(w)
    BY SentinelsAssumption DEF Alive
  <2> QED
    BY <2>1, <2>2 DEF Owned, TapsHold, ServersHold
<1> QED
  BY <1>1, OwnedHolds, PTL

\* A move that succeeds, stands down or fails leaves no process, page server
\* or tap that nothing owns (teardown, the cleanup paths of migrate.rs and
\* transfer.rs), but for the exits that skip it: a failed or dropped spawn, a
\* dropped send, a create_tap that fails half way, at a spawn or a restore, and
\* the two `?`s between the tap and the load.
THEOREM MovesTidyUp == Spec => LeavesNothingBehind
<1>1. IInv /\ IInv' /\ Owned /\ Owned' /\ [Next]_vars
        => [\/ Orphans' \subseteq Orphans
            \/ \E j \in Handlers : SpawnFail(j) \/ Hangup(j)
            \/ \E h \in Hosts : SpawnHalfway(h) \/ ReplumbHalfway(h)
            \/ \E h \in Hosts, v \in Vm : ServeFail(h, v)]_vars
  BY StepTidy, TidyLeavesNothing
<1> QED
  BY <1>1, OwnedHolds, PTL DEF Spec, LeavesNothingBehind

\* The daemons implement Custody: whatever fails on either side of a move, a
\* guest leaves a host for the wire only, arrives from it only, and once it is
\* lost no copy of it turns up (migrate_running, receive_and_restore).
THEOREM DaemonsKeepCustody == Spec => KeepsCustody
<1>1. IInv /\ Owned /\ PlaceIsRead /\ PlaceIsRead' /\ [Next]_vars
        => [custody!Next]_Place
  BY StepMoves, OneMovesKeepsCustody
<1>2. Init => custody!Init
  <2> SUFFICES ASSUME Init PROVE custody!Init
    OBVIOUS
  <2>1. ASSUME NEW g \in Vm PROVE PlaceOf(g) = "unborn"
    BY SentinelsAssumption
    DEF Init, IdleRx, PlaceOf, RunsSomewhere, Carries
  <2> QED
    BY <2>1 DEF custody!Init
<1> QED
  BY <1>1, <1>2, OwnedHolds, InvReadsPlace, PTL
  DEF Spec, KeepsCustody, custody!Spec, Place

============================================================================
