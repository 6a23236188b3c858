--------------------------- MODULE RestoreProofs ---------------------------
(***************************************************************************)
(* Proofs about Restore, for any number of cycles, pages, writes and       *)
(* crashes: what the guest wrote is there after every cycle, whichever     *)
(* pages its server has brought in by then.                                *)
(***************************************************************************)
EXTENDS Restore, WellFoundedInduction, TLAPS

\* The VM that may run: the cycle's target once it is loaded.
Holder == IF pc \in {"kill", "join"} THEN cycle ELSE live

\* Nothing is booted yet.
Early == cycle = 0 /\ pc \in {"spawn", "appear", "boot"}

\* The types the argument needs.
MemTypes ==
  /\ pc \in Pcs /\ cycle \in Vms /\ live \in Vms
  /\ fc \in [Vms -> Processes]
  /\ memory \in [Vms -> [Pages -> Values \cup {Missing}]]
  /\ file \in [Vms -> [Pages -> Values \cup {Hole}]]
  /\ truth \in [Pages -> Values]

\* The live VM and the cycle under way.
CycleOrder ==
  /\ live <= cycle /\ cycle <= live + 1
  /\ pc = "boot" => cycle = 0
  /\ pc \in {"spawn", "appear"} => cycle = 0 \/ live < cycle
  /\ pc \in {"bind", "pause", "snapshot", "writing", "load"} => live < cycle
  /\ pc \in {"kill", "join", "done"} => live < cycle \/ cycle = Cycles
  /\ pc = "done" => live = cycle

\* One VM can run, and none between the pause and the load.
OneRuns ==
  /\ \A v \in Vms : fc[v] = "running" => v = Holder
  /\ Early => \A v \in Vms : fc[v] \notin {"running", "paused"}
  /\ pc \in {"snapshot", "writing", "load"} => fc[live] # "running"
  /\ ~Early /\ pc # "panicked" =>
       fc[Holder] \in {"running", "paused", "dead"}

\* A guest that has not begun has written nothing; one that has finds what it
\* wrote.
Intact ==
  /\ Early => \A p \in Pages : truth[p] = 0
  /\ fc[Holder] \in {"running", "paused"} =>
       \A p \in Pages : Sees(Holder, p) = truth[p]

\* The snapshot under way is right as far as it goes, and whole at the load.
FileIsRight ==
  /\ pc = "writing" =>
       \A p \in Pages : file[cycle][p] # Hole => file[cycle][p] = truth[p]
  /\ pc = "load" => \A p \in Pages : file[cycle][p] = truth[p]

CInv == MemTypes /\ CycleOrder /\ OneRuns /\ Intact /\ FileIsRight

Core == <<pc, cycle, live, fc, memory, file, truth>>

-----------------------------------------------------------------------------
(* Reading.                                                                *)

\* What the constants say of VMs and values.
LEMMA Numbers ==
  /\ Cycles \in Nat /\ MaxWrites \in Nat
  /\ Missing \notin Values /\ Hole \notin Values /\ 0 \in Values
  /\ 0 \in Vms /\ Values \subseteq Nat /\ Vms \subseteq Nat
  BY CyclesAssumption, BoundsAssumption, MarksAssumption DEF Values, Vms

\* A server's file gives a value for every page.
LEMMA ContentTypes ==
  ASSUME MemTypes, NEW v \in Vms, NEW p \in Pages
  PROVE  Content(v, p) \in Values /\ Content(v, p) # Missing
  BY Numbers DEF MemTypes, Content, MemFile

\* A step that changes neither a VM's memory nor its file changes nothing the
\* VM would read.
LEMMA SameSight ==
  ASSUME NEW v \in Vms, memory'[v] = memory[v], file'[v] = file[v]
  PROVE  \A p \in Pages : Sees(v, p)' = Sees(v, p)
  BY DEF Sees, Content, MemFile

\* Nothing is booted, and nothing is written.
LEMMA CycleInitHolds == CycleInit => CInv
<1> SUFFICES ASSUME CycleInit PROVE CInv
  OBVIOUS
<1>1. MemTypes
  BY Numbers DEF CycleInit, MemTypes, Pcs, Processes
<1>2. CycleOrder /\ OneRuns /\ Intact /\ FileIsRight
  BY Numbers
  DEF CycleInit, CycleOrder, OneRuns, Early, Holder, Intact, FileIsRight
<1>3. QED
  BY <1>1, <1>2 DEF CInv

\* A step of the kernel or of a server that brings nothing in.
LEMMA SameCore == ASSUME CInv, UNCHANGED Core PROVE CInv'
<1> USE DEF Core
<1>1. MemTypes' /\ CycleOrder' /\ OneRuns' /\ FileIsRight'
  BY DEF CInv, MemTypes, CycleOrder, OneRuns, Early, Holder, FileIsRight
<1>2. Intact'
  BY DEF CInv, Intact, Early, Holder, Sees, Content, MemFile
<1>3. QED
  BY <1>1, <1>2 DEF CInv

-----------------------------------------------------------------------------
(* Steps that end a process, or take it up.                                *)

\* What ends is not running.
LEMMA EndingKeeps ==
  ASSUME CInv, NEW vs \in SUBSET Vms, Gone(vs),
         UNCHANGED <<pc, cycle, live, file, truth>>
  PROVE  CInv'
<1>1. /\ memory' = memory
      /\ \A v \in Vms : fc'[v] \in {fc[v], "dead"}
      /\ \A v \in Vms : fc'[v] = "dead" \/ fc'[v] = fc[v]
      /\ fc' \in [Vms -> Processes]
  BY DEF Gone, CInv, MemTypes, Processes
<1>2. Holder \in Vms /\ Holder' = Holder /\ (Early' <=> Early)
  BY DEF CInv, MemTypes, Holder, Early
<1>3. MemTypes' /\ CycleOrder' /\ FileIsRight'
  BY <1>1 DEF CInv, MemTypes, CycleOrder, FileIsRight
<1>4. OneRuns'
  BY <1>1, <1>2 DEF CInv, OneRuns, MemTypes
<1>5. Intact'
  BY <1>1, <1>2, SameSight DEF CInv, Intact
<1>6. QED
  BY <1>3, <1>4, <1>5 DEF CInv

\* A panic ends every process.
LEMMA PanicKeeps == ASSUME CInv, Panic PROVE CInv'
<1>1. /\ pc' = "panicked" /\ memory' = memory
      /\ UNCHANGED <<cycle, live, file, truth>>
      /\ fc' = [v \in Vms |-> IF Alive(v) THEN "dead" ELSE fc[v]]
  BY DEF Panic, Gone
<1>2. \A v \in Vms : fc'[v] \in {"none", "dead"}
  BY <1>1 DEF Alive
<1>3. Holder' \in Vms /\ ~Early'
  BY <1>1 DEF CInv, MemTypes, Holder, Early
<1>4. MemTypes'
  BY <1>1, <1>2 DEF CInv, MemTypes, Pcs, Processes
<1>5. CycleOrder' /\ OneRuns' /\ Intact' /\ FileIsRight'
  BY <1>1, <1>2, <1>3
     DEF CInv, MemTypes, CycleOrder, OneRuns, Intact, FileIsRight
<1>6. QED
  BY <1>4, <1>5 DEF CInv

\* A new process: one that is not the holder's.
LEMMA SpawnKeeps == ASSUME CInv, Spawn PROVE CInv'
<1>1. /\ pc = "spawn" /\ pc' = "appear"
      /\ fc' = [fc EXCEPT ![cycle] = "starting"]
      /\ UNCHANGED <<cycle, live, memory, file, truth>>
  BY DEF Spawn, Target, kernelVars
<1>2. Holder = live /\ Holder' = live /\ live \in Vms /\ (Early' <=> Early)
  BY <1>1 DEF CInv, MemTypes, Holder, Early
<1>3. Early \/ live # cycle
  BY <1>1, Numbers DEF CInv, MemTypes, CycleOrder, Early
<1>4. /\ fc'[cycle] = "starting"
      /\ \A v \in Vms : v # cycle => fc'[v] = fc[v]
  BY <1>1 DEF CInv, MemTypes
<1>5. MemTypes' /\ CycleOrder' /\ FileIsRight'
  BY <1>1 DEF CInv, MemTypes, CycleOrder, FileIsRight, Pcs, Processes
<1>6. OneRuns'
  BY <1>1, <1>2, <1>3, <1>4 DEF CInv, OneRuns
<1>7. Intact'
  BY <1>1, <1>2, <1>3, <1>4, SameSight DEF CInv, Intact, OneRuns
<1>8. QED
  BY <1>5, <1>6, <1>7 DEF CInv

\* A process that listens does not run yet.
LEMMA ListenKeeps == ASSUME CInv, NEW w \in Vms, Listen(w) PROVE CInv'
<1>1. /\ fc[w] = "starting" /\ fc' = [fc EXCEPT ![w] = "ready"]
      /\ UNCHANGED <<pc, cycle, live, memory, file, truth>>
  BY DEF Listen, benchVars, kernelVars
<1>2. Holder' = Holder /\ Holder \in Vms /\ (Early' <=> Early)
  BY <1>1 DEF CInv, MemTypes, Holder, Early
<1>3. fc'[w] = "ready" /\ \A v \in Vms : v # w => fc'[v] = fc[v]
  BY <1>1 DEF CInv, MemTypes
<1>4. MemTypes' /\ CycleOrder' /\ FileIsRight'
  BY <1>1 DEF CInv, MemTypes, CycleOrder, FileIsRight, Processes
<1>5. OneRuns'
  BY <1>1, <1>2, <1>3 DEF CInv, OneRuns, MemTypes
<1>6. Intact'
  BY <1>1, <1>2, <1>3, SameSight DEF CInv, Intact
<1>7. QED
  BY <1>4, <1>5, <1>6 DEF CInv

-----------------------------------------------------------------------------
(* The benchmark's steps.                                                  *)

\* The socket is there: the first VM boots, another cycle pauses.
LEMMA AppearKeeps == ASSUME CInv, SocketAppears PROVE CInv'
<1>1. /\ pc = "appear" /\ pc' = IF cycle = 0 THEN "boot" ELSE "pause"
      /\ UNCHANGED <<cycle, live, fc, memory, file, truth>>
  BY DEF SocketAppears, Target, fcVars, kernelVars
<1>2. Holder = live /\ Holder' = live /\ (Early' <=> Early)
  BY <1>1 DEF Holder, Early
<1>3. live \in Vms /\ (pc' = "pause" => live < cycle)
  BY <1>1 DEF CInv, MemTypes, CycleOrder
<1>4. MemTypes' /\ CycleOrder' /\ FileIsRight'
  BY <1>1, <1>3 DEF CInv, MemTypes, CycleOrder, FileIsRight, Pcs
<1>5. OneRuns'
  BY <1>1, <1>2 DEF CInv, OneRuns
<1>6. Intact'
  BY <1>1, <1>2, <1>3, SameSight DEF CInv, Intact
<1>7. QED
  BY <1>4, <1>5, <1>6 DEF CInv

\* The first VM holds the guest, and has every page.
LEMMA BootKeeps == ASSUME CInv, BootInitial PROVE CInv'
<1>1. /\ pc = "boot" /\ cycle = 0 /\ live = 0
      /\ fc' = [fc EXCEPT ![0] = "running"]
      /\ memory' = [memory EXCEPT ![0] = [p \in Pages |-> 0]]
      /\ UNCHANGED <<live, file, truth>>
      /\ cycle' = IF cycle < Cycles THEN cycle + 1 ELSE cycle
      /\ pc' = IF cycle < Cycles THEN "bind" ELSE "kill"
  <2>1. pc = "boot" /\ ConfigureAndBoot(0) /\ NextCycle
        /\ UNCHANGED <<live, file, truth>>
    BY DEF BootInitial
  <2>2. cycle = 0 /\ live = 0
    BY <2>1, Numbers DEF CInv, MemTypes, CycleOrder
  <2>3. QED
    BY <2>1, <2>2 DEF ConfigureAndBoot, NextCycle
<1>2. Early /\ Holder' = 0 /\ ~Early'
  BY <1>1, Numbers DEF Early, Holder
<1>3. MemTypes'
  BY <1>1, Numbers DEF CInv, MemTypes, Pcs, Processes, Vms
<1>4. CycleOrder' /\ FileIsRight'
  BY <1>1, Numbers DEF CycleOrder, FileIsRight
<1>5. /\ fc'[0] = "running"
      /\ \A v \in Vms : v # 0 => fc'[v] = fc[v]
      /\ \A p \in Pages : memory'[0][p] = 0
  BY <1>1, Numbers DEF CInv, MemTypes
<1>6. OneRuns'
  BY <1>1, <1>2, <1>5, Numbers DEF CInv, OneRuns
<1>7. \A p \in Pages : Sees(0, p)' = 0
  BY <1>5, Numbers DEF Sees
<1>8. Intact'
  BY <1>1, <1>2, <1>7 DEF CInv, Intact
<1>9. QED
  BY <1>3, <1>4, <1>6, <1>8 DEF CInv

\* A new cycle: the live VM holds the guest still.
LEMMA BindKeeps == ASSUME CInv, BindHandler PROVE CInv'
<1>1. /\ pc = "bind" /\ pc' = "spawn"
      /\ UNCHANGED <<cycle, live, fc, memory, file, truth>>
  BY DEF BindHandler, fcVars, kernelVars
<1>2. live < cycle /\ live \in Vms /\ cycle # 0
  BY <1>1, Numbers DEF CInv, MemTypes, CycleOrder
<1>3. Holder = live /\ Holder' = live /\ ~Early /\ ~Early'
  BY <1>1, <1>2 DEF Holder, Early
<1>4. MemTypes' /\ CycleOrder' /\ FileIsRight'
  BY <1>1, <1>2 DEF CInv, MemTypes, CycleOrder, FileIsRight, Pcs
<1>5. OneRuns'
  BY <1>1, <1>3 DEF CInv, OneRuns
<1>6. Intact'
  BY <1>1, <1>2, <1>3, SameSight DEF CInv, Intact
<1>7. QED
  BY <1>4, <1>5, <1>6 DEF CInv

\* The holder is paused and keeps its memory.
LEMMA PauseKeeps == ASSUME CInv, PauseLive PROVE CInv'
<1>1. /\ pc = "pause" /\ pc' = "snapshot" /\ fc[live] = "running"
      /\ fc' = [fc EXCEPT ![live] = "paused"]
      /\ UNCHANGED <<cycle, live, memory, file, truth>>
  BY DEF PauseLive, PauseVm, kernelVars
<1>2. live \in Vms /\ live < cycle
  BY <1>1 DEF CInv, MemTypes, CycleOrder
<1>3. Holder = live /\ Holder' = live /\ ~Early /\ ~Early'
  BY <1>1, <1>2 DEF Holder, Early
<1>4. fc'[live] = "paused" /\ \A v \in Vms : v # live => fc'[v] = fc[v]
  BY <1>1, <1>2 DEF CInv, MemTypes
<1>5. MemTypes' /\ CycleOrder' /\ FileIsRight'
  BY <1>1, <1>2 DEF CInv, MemTypes, CycleOrder, FileIsRight, Pcs, Processes
<1>6. OneRuns'
  BY <1>1, <1>3, <1>4 DEF CInv, OneRuns
<1>7. Intact'
  BY <1>1, <1>2, <1>3, SameSight DEF CInv, Intact
<1>8. QED
  BY <1>5, <1>6, <1>7 DEF CInv

\* The snapshot is written, to the file of the cycle and not the live VM's.
LEMMA FileStepKeeps ==
  ASSUME CInv, pc \in {"snapshot", "writing"},
         pc' \in {"snapshot", "writing", "load"},
         UNCHANGED <<cycle, live, fc, memory, truth>>,
         file' \in [Vms -> [Pages -> Values \cup {Hole}]],
         \A v \in Vms : v # cycle => file'[v] = file[v],
         FileIsRight'
  PROVE  CInv'
<1>1. live \in Vms /\ live < cycle /\ live # cycle
  BY Numbers DEF CInv, MemTypes, CycleOrder
<1>2. Holder = live /\ Holder' = live /\ ~Early /\ ~Early'
  BY <1>1 DEF Holder, Early
<1>3. MemTypes' /\ CycleOrder' /\ OneRuns'
  BY <1>1, <1>2 DEF CInv, MemTypes, CycleOrder, OneRuns, Pcs
<1>4. Intact'
  BY <1>1, <1>2, SameSight DEF CInv, Intact
<1>5. QED
  BY <1>3, <1>4 DEF CInv

\* A file that is begun says nothing wrong.
LEMMA CreateKeeps == ASSUME CInv, CreateSnapshot PROVE CInv'
<1>1. /\ pc = "snapshot" /\ pc' = "writing"
      /\ file' = [file EXCEPT ![cycle] = [p \in Pages |-> Hole]]
      /\ UNCHANGED <<cycle, live, fc, memory, truth>>
  BY DEF CreateSnapshot, BeginSnapshot, MemFile, fcVars, kernelVars
<1>2. /\ file' \in [Vms -> [Pages -> Values \cup {Hole}]]
      /\ \A v \in Vms : v # cycle => file'[v] = file[v]
      /\ \A p \in Pages : file'[cycle][p] = Hole
  BY <1>1 DEF CInv, MemTypes
<1>3. FileIsRight'
  BY <1>1, <1>2 DEF FileIsRight
<1>4. QED
  BY <1>1, <1>2, <1>3, FileStepKeeps

\* A page is written as the guest left it: the VM is paused, so what it has of
\* the page is what it last wrote there.
LEMMA WritePageKeeps ==
  ASSUME CInv, NEW p \in Pages, WritePage(p)
  PROVE  CInv'
<1>1. /\ pc = "writing" /\ pc' = "writing" /\ Alive(live)
      /\ memory[live][p] # Missing
      /\ file' = [file EXCEPT ![cycle][p] = memory[live][p]]
      /\ UNCHANGED <<cycle, live, fc, memory, truth>>
  BY DEF WritePage, MemFile, benchVars, fcVars, kernelVars
<1>2. live \in Vms /\ cycle \in Vms /\ live < cycle
  BY <1>1 DEF CInv, MemTypes, CycleOrder
<1>3. Holder = live /\ ~Early
  BY <1>1 DEF Holder, Early
<1>4. fc[live] = "paused"
  BY <1>1, <1>3 DEF CInv, OneRuns, Alive
<1>5. memory[live][p] = truth[p]
  BY <1>1, <1>3, <1>4 DEF CInv, Intact, Sees
<1>6. memory[live][p] \in Values
  BY <1>1, <1>2 DEF CInv, MemTypes
<1>7. /\ file' \in [Vms -> [Pages -> Values \cup {Hole}]]
      /\ \A v \in Vms : v # cycle => file'[v] = file[v]
      /\ file'[cycle][p] = truth[p]
      /\ \A q \in Pages : q # p => file'[cycle][q] = file[cycle][q]
  BY <1>1, <1>2, <1>5, <1>6 DEF CInv, MemTypes
<1>8. FileIsRight'
  BY <1>1, <1>7 DEF CInv, FileIsRight
<1>9. QED
  BY <1>1, <1>7, <1>8, FileStepKeeps

\* A file without a hole is the guest's memory.
LEMMA WrittenKeeps == ASSUME CInv, SnapshotWritten PROVE CInv'
<1>1. /\ pc = "writing" /\ pc' = "load"
      /\ \A p \in Pages : file[cycle][p] # Hole
      /\ UNCHANGED <<cycle, live, fc, memory, file, truth>>
  BY DEF SnapshotWritten, MemFile, fcVars, kernelVars
<1>2. FileIsRight'
  BY <1>1 DEF CInv, FileIsRight
<1>3. file' \in [Vms -> [Pages -> Values \cup {Hole}]]
  BY <1>1 DEF CInv, MemTypes
<1>4. QED
  BY <1>1, <1>2, <1>3, FileStepKeeps

\* The load: the holder is the target now, and reads the whole file.
LEMMA LoadKeeps == ASSUME CInv, LoadSnapshot PROVE CInv'
<1>1. /\ pc = "load" /\ pc' = "kill"
      /\ fc' = [fc EXCEPT ![cycle] = "running"]
      /\ memory' = [memory EXCEPT ![cycle] = [p \in Pages |-> Missing]]
      /\ UNCHANGED <<cycle, live, file, truth>>
  BY DEF LoadSnapshot, LoadVm
<1>2. live \in Vms /\ cycle \in Vms /\ live < cycle
  BY <1>1 DEF CInv, MemTypes, CycleOrder
<1>3. Holder = live /\ Holder' = cycle /\ ~Early /\ ~Early'
  BY <1>1 DEF Holder, Early
<1>4. /\ fc'[cycle] = "running"
      /\ \A v \in Vms : v # cycle => fc'[v] = fc[v]
      /\ \A p \in Pages : memory'[cycle][p] = Missing
      /\ memory' \in [Vms -> [Pages -> Values \cup {Missing}]]
  BY <1>1, <1>2 DEF CInv, MemTypes
<1>5. MemTypes' /\ CycleOrder' /\ FileIsRight'
  BY <1>1, <1>2, <1>4 DEF CInv, MemTypes, CycleOrder, FileIsRight, Pcs,
                          Processes
<1>6. OneRuns'
  BY <1>1, <1>2, <1>3, <1>4 DEF CInv, OneRuns
<1>7. \A p \in Pages : Sees(cycle, p)' = truth[p]
  <2> TAKE p \in Pages
  <2>1. file[cycle][p] = truth[p] /\ truth[p] \in Values
    BY <1>1 DEF CInv, FileIsRight, MemTypes
  <2>2. file[cycle][p] # Hole
    BY <2>1, Numbers
  <2>3. QED
    BY <1>1, <1>4, <2>1, <2>2 DEF Sees, Content, MemFile
<1>8. Intact'
  BY <1>1, <1>3, <1>7 DEF Intact
<1>9. QED
  BY <1>5, <1>6, <1>8 DEF CInv

\* What is retired is not the holder, or it is the end.
LEMMA KillKeeps == ASSUME CInv, KillRetired PROVE CInv'
<1>1. /\ pc = "kill" /\ pc' = "join" /\ memory' = memory
      /\ fc' = [v \in Vms |-> IF v \in {live} /\ Alive(v) THEN "dead"
                              ELSE fc[v]]
      /\ UNCHANGED <<cycle, live, file, truth>>
  BY DEF KillRetired, Gone
<1>2. Holder' = Holder /\ Holder \in Vms /\ ~Early /\ ~Early'
  BY <1>1 DEF CInv, MemTypes, Holder, Early
<1>3. \A v \in Vms : fc'[v] = "dead" \/ fc'[v] = fc[v]
  BY <1>1
<1>4. MemTypes' /\ CycleOrder' /\ FileIsRight'
  BY <1>1 DEF CInv, MemTypes, CycleOrder, FileIsRight, Pcs, Processes
<1>5. OneRuns'
  BY <1>1, <1>2, <1>3 DEF CInv, OneRuns
<1>6. Intact'
  BY <1>1, <1>2, <1>3, SameSight DEF CInv, Intact
<1>7. QED
  BY <1>4, <1>5, <1>6 DEF CInv

\* The target is the live VM, and the holder stays the holder.
LEMMA RetiredKeeps == ASSUME CInv, Retired PROVE CInv'
<1>1. pc = "join" /\ UNCHANGED <<fc, memory, file, truth>>
  BY DEF Retired, fcVars, kernelVars
<1>2. /\ live \in Vms /\ cycle \in Vms /\ Cycles \in Nat
      /\ live <= cycle /\ cycle <= live + 1
      /\ live < cycle \/ cycle = Cycles
      /\ Holder = cycle /\ ~Early
  BY <1>1, Numbers DEF CInv, MemTypes, CycleOrder, Holder, Early
<1>3. CASE live < cycle
  <2>1. /\ live' = cycle
        /\ cycle' = IF cycle < Cycles THEN cycle + 1 ELSE cycle
        /\ pc' = IF cycle < Cycles THEN "bind" ELSE "kill"
    BY <1>3 DEF Retired, NextCycle
  <2>2. cycle' \in Vms /\ cycle # 0 /\ cycle' # 0
    BY <1>2, <1>3, <2>1, Numbers DEF Vms
  <2>3. Holder' = cycle /\ ~Early'
    BY <1>2, <2>1, <2>2 DEF Holder, Early
  <2>4. MemTypes' /\ FileIsRight'
    BY <1>1, <1>2, <2>1, <2>2 DEF CInv, MemTypes, FileIsRight, Pcs
  <2>5. CycleOrder'
    BY <1>2, <2>1, Numbers DEF CycleOrder, Vms
  <2>6. OneRuns'
    BY <1>1, <1>2, <2>1, <2>3 DEF CInv, OneRuns
  <2>7. Intact'
    BY <1>1, <1>2, <2>3, SameSight DEF CInv, Intact
  <2>8. QED
    BY <2>4, <2>5, <2>6, <2>7 DEF CInv
<1>4. CASE ~(live < cycle)
  <2>1. pc' = "done" /\ UNCHANGED <<cycle, live>>
    BY <1>4 DEF Retired
  <2>2. live = cycle /\ cycle = Cycles
    BY <1>2, <1>4, Numbers
  <2>3. Holder' = cycle /\ ~Early'
    BY <2>1, <2>2 DEF Holder, Early
  <2>4. MemTypes' /\ FileIsRight' /\ CycleOrder'
    BY <1>1, <1>2, <2>1, <2>2 DEF CInv, MemTypes, FileIsRight, Pcs,
                                  CycleOrder
  <2>5. OneRuns'
    BY <1>1, <1>2, <2>1, <2>3 DEF CInv, OneRuns
  <2>6. Intact'
    BY <1>1, <1>2, <2>3, SameSight DEF CInv, Intact
  <2>7. QED
    BY <2>4, <2>5, <2>6 DEF CInv
<1>5. QED
  BY <1>3, <1>4

\* The benchmark's steps together.
LEMMA BenchKeeps == ASSUME CInv, Bench PROVE CInv'
<1>1. CASE SocketNeverAppears \/ NoPrompt \/ ApiUnreachable
  BY <1>1, PanicKeeps DEF SocketNeverAppears, NoPrompt, ApiUnreachable
<1>2. CASE StopHandler
  BY <1>2, SameCore DEF StopHandler, Core, benchVars, fcVars, kernelVars
<1>3. QED
  BY <1>1, <1>2, SpawnKeeps, AppearKeeps, BootKeeps, BindKeeps, PauseKeeps,
     CreateKeeps, WritePageKeeps, WrittenKeeps, LoadKeeps, KillKeeps,
     RetiredKeeps DEF Bench

-----------------------------------------------------------------------------
(* The guest and the servers.                                              *)

\* A Firecracker that dies by itself.
LEMMA DieKeeps == ASSUME CInv, NEW v \in Vms, Die(v) PROVE CInv'
<1>1. Gone({v}) /\ UNCHANGED <<pc, cycle, live, file, truth>>
  BY DEF Die, benchVars
<1>2. QED
  BY <1>1, EndingKeeps

\* Only the holder runs, and what it writes it will find.
LEMMA WriteKeeps ==
  ASSUME CInv, NEW v \in Vms, NEW q \in Pages, Write(v, q)
  PROVE  CInv'
<1>1. /\ fc[v] = "running" /\ memory[v][q] # Missing
      /\ truth[q] < MaxWrites
      /\ truth' = [truth EXCEPT ![q] = truth[q] + 1]
      /\ memory' = [memory EXCEPT ![v][q] = truth'[q]]
      /\ UNCHANGED <<pc, cycle, live, fc, file>>
  BY DEF Write, benchVars, fcVars
<1>2. v = Holder /\ Holder' = Holder /\ ~Early /\ ~Early'
  BY <1>1 DEF CInv, OneRuns, Holder, Early
<1>3. /\ truth' \in [Pages -> Values] /\ truth'[q] \in Values
      /\ \A p \in Pages : p # q => truth'[p] = truth[p]
  BY <1>1, Numbers DEF CInv, MemTypes, Values
<1>4. /\ memory' \in [Vms -> [Pages -> Values \cup {Missing}]]
      /\ memory'[v][q] = truth'[q]
      /\ \A p \in Pages : p # q => memory'[v][p] = memory[v][p]
  BY <1>1, <1>3 DEF CInv, MemTypes
<1>5. MemTypes' /\ CycleOrder' /\ OneRuns'
  BY <1>1, <1>2, <1>3, <1>4 DEF CInv, MemTypes, CycleOrder, OneRuns
<1>6. pc \notin {"writing", "load"}
  BY <1>1, <1>2 DEF CInv, OneRuns, Holder
<1>7. FileIsRight'
  BY <1>1, <1>6 DEF FileIsRight
<1>8. \A p \in Pages : Sees(v, p)' = truth'[p]
  <2> TAKE p \in Pages
  <2>1. CASE p = q
    BY <1>3, <1>4, <2>1, Numbers DEF Sees
  <2>2. CASE p # q
    <3>1. Sees(v, p) = truth[p]
      BY <1>1, <1>2 DEF CInv, Intact
    <3>2. Sees(v, p)' = Sees(v, p)
      BY <1>1, <1>4, <2>2 DEF Sees, Content, MemFile
    <3>3. QED
      BY <1>3, <2>2, <3>1, <3>2
  <2>3. QED
    BY <2>1, <2>2
<1>9. Intact'
  BY <1>2, <1>8 DEF Intact
<1>10. QED
  BY <1>5, <1>7, <1>9 DEF CInv

\* A page that comes in reads as it would have read.
LEMMA CopyKeeps == ASSUME CInv, NEW v \in Vms, CopyPage(v) PROVE CInv'
<1> DEFINE s == serving[v]
<1>1. /\ memory[v][s] = Missing
      /\ memory' = [memory EXCEPT ![v][s] = Content(v, s)]
      /\ UNCHANGED <<pc, cycle, live, fc, file, truth>>
  BY DEF CopyPage, benchVars, fcVars
<1>2. \A w \in Vms, p \in Pages :
        memory'[w][p] = IF w = v /\ p = s THEN Content(v, p)
                        ELSE memory[w][p]
  BY <1>1 DEF CInv, MemTypes
<1>3. memory' \in [Vms -> [Pages -> Values \cup {Missing}]]
  <2>1. s \in Pages => Content(v, s) \in Values
    BY ContentTypes DEF CInv
  <2>2. QED
    BY <1>1, <2>1 DEF CInv, MemTypes
<1>4. \A w \in Vms, p \in Pages : Sees(w, p)' = Sees(w, p)
  <2> TAKE w \in Vms, p \in Pages
  <2>1. Content(w, p)' = Content(w, p)
    BY <1>1 DEF Content, MemFile
  <2>2. CASE w = v /\ p = s
    BY <1>1, <1>2, <2>1, <2>2, ContentTypes DEF CInv, Sees
  <2>3. CASE ~(w = v /\ p = s)
    BY <1>2, <2>1, <2>3 DEF Sees
  <2>4. QED
    BY <2>2, <2>3
<1>5. Holder' = Holder /\ Holder \in Vms /\ (Early' <=> Early)
  BY <1>1 DEF CInv, MemTypes, Holder, Early
<1>6. MemTypes' /\ CycleOrder' /\ OneRuns' /\ FileIsRight'
  BY <1>1, <1>3, <1>5 DEF CInv, MemTypes, CycleOrder, OneRuns, FileIsRight
<1>7. Intact'
  BY <1>1, <1>4, <1>5 DEF CInv, Intact
<1>8. QED
  BY <1>6, <1>7 DEF CInv

\* Every step, by who takes it.
LEMMA CycleStepKeeps == ASSUME CInv, [CycleNext]_cycleVars PROVE CInv'
<1>1. CASE Bench
  BY <1>1, BenchKeeps
<1>2. ASSUME NEW v \in Vms, ServerStep(v)
      PROVE  CInv'
  <2>1. CASE CopyPage(v)
    BY <2>1, CopyKeeps
  <2>2. CASE ReceiveUffd(v) \/ SeeStop(v) \/ ReadEvent(v) \/ CopyFails(v)
    <3>1. UNCHANGED Core
      BY <2>2 DEF ReceiveUffd, SeeStop, ReadEvent, CopyFails, benchVars,
                  fcVars, kernelVars, Core
    <3>2. QED
      BY <3>1, SameCore
  <2>3. QED
    BY <1>2, <2>1, <2>2 DEF ServerStep
<1>3. ASSUME NEW v \in Vms, NEW t \in Threads,
             KernelStep(v, t) \/ \E p \in Pages : Trap(v, t, p)
      PROVE  CInv'
  <2>1. UNCHANGED Core
    BY <1>3 DEF KernelStep, Queue, LookAgain, Trap, benchVars, fcVars, Core
  <2>2. QED
    BY <2>1, SameCore
<1>4. CASE UNCHANGED cycleVars
  <2>1. UNCHANGED Core
    BY <1>4 DEF cycleVars, benchVars, fcVars, kernelVars, Core
  <2>2. QED
    BY <2>1, SameCore
<1>5. QED
  BY <1>1, <1>2, <1>3, <1>4, ListenKeeps, DieKeeps, WriteKeeps DEF CycleNext

\* The guest runs in one incarnation at a time and finds in every page what it
\* last wrote there, through any number of cycles and whatever was brought in
\* (migrate_bench.rs:100-160, uffd.rs, serve_fault).
THEOREM MemoryAlwaysSurvives == CycleSpec => []MemorySurvives
<1>1. CycleInit => CInv
  BY CycleInitHolds
<1>2. CInv /\ [CycleNext]_cycleVars => CInv'
  BY CycleStepKeeps
<1>3. CInv => MemorySurvives
  BY DEF CInv, OneRuns, Intact, MemorySurvives
<1>4. QED
  BY <1>1, <1>2, <1>3, PTL DEF CycleSpec

-----------------------------------------------------------------------------
(* The socket of a new process.                                            *)

\* From the spawn on the socket file is the new process's or absent.
OwnSocket ==
  /\ fc \in [Vms -> Processes]
  /\ sock \in [Vms -> {"absent", "stale", "bound"}]
  /\ pc = "appear" => sock[Target] = "absent" \/ fc[Target] # "starting"
  /\ SpawnedListens

\* Nothing has been spawned.
LEMMA OwnSocketInit == CycleInit => OwnSocket
  BY DEF CycleInit, OwnSocket, SpawnedListens, Processes

\* No process begins to start but in Spawn.
LEMMA SocketQuiet ==
  ASSUME OwnSocket, UNCHANGED <<pc, cycle, sock>>,
         fc' \in [Vms -> Processes],
         \A v \in Vms : fc'[v] = "starting" => fc[v] = "starting",
         cycle \in Vms
  PROVE  OwnSocket'
  BY DEF OwnSocket, SpawnedListens, Target

\* A socket file appears after the spawn has removed the old one.
LEMMA OwnSocketKept ==
  ASSUME MemTypes, MemTypes', OwnSocket, [CycleNext]_cycleVars
  PROVE  OwnSocket'
<1>1. cycle \in Vms /\ cycle' \in Vms /\ fc' \in [Vms -> Processes]
  BY DEF MemTypes
<1>2. CASE Spawn
  BY <1>1, <1>2 DEF Spawn, OwnSocket, SpawnedListens, Target
<1>3. CASE SocketAppears
  BY <1>1, <1>3 DEF SocketAppears, OwnSocket, SpawnedListens, Target, fcVars
<1>4. ASSUME Panic PROVE OwnSocket'
  BY <1>1, <1>4 DEF Panic, OwnSocket, SpawnedListens
<1>5. CASE BootInitial \/ BindHandler \/ KillRetired \/ Retired
  <2>1. pc' \notin {"appear", "boot", "pause", "snapshot", "writing", "load"}
    BY <1>5 DEF BootInitial, BindHandler, KillRetired, Retired, NextCycle
  <2>2. UNCHANGED sock
    BY <1>5 DEF BootInitial, BindHandler, KillRetired, Retired, fcVars
  <2>3. QED
    BY <1>1, <2>1, <2>2 DEF OwnSocket, SpawnedListens
<1>6. CASE PauseLive
  <2>1. /\ fc' = [fc EXCEPT ![live] = "paused"] /\ UNCHANGED <<cycle, sock>>
        /\ pc = "pause" /\ pc' = "snapshot"
    BY <1>6 DEF PauseLive, PauseVm
  <2>2. QED
    BY <1>1, <2>1 DEF OwnSocket, SpawnedListens, Target
<1>7. CASE CreateSnapshot \/ SnapshotWritten \/ LoadSnapshot
  BY <1>1, <1>7 DEF CreateSnapshot, SnapshotWritten, LoadSnapshot, LoadVm,
                    OwnSocket, SpawnedListens, Target, fcVars
<1>8. ASSUME UNCHANGED <<pc, cycle, fc, sock>> PROVE OwnSocket'
  BY <1>1, <1>8, SocketQuiet
<1>9. ASSUME NEW p \in Pages, WritePage(p) PROVE OwnSocket'
  BY <1>8, <1>9 DEF WritePage, benchVars, fcVars
<1>10. CASE StopHandler
  BY <1>8, <1>10 DEF StopHandler, benchVars, fcVars
<1>11. CASE Bench
  BY <1>2, <1>3, <1>4, <1>5, <1>6, <1>7, <1>9, <1>10, <1>11
     DEF Bench, SocketNeverAppears, NoPrompt, ApiUnreachable
<1>12. ASSUME NEW v \in Vms, Listen(v) PROVE OwnSocket'
  <2>1. /\ fc' = [fc EXCEPT ![v] = "ready"]
        /\ sock' = [sock EXCEPT ![v] = "bound"]
        /\ UNCHANGED <<pc, cycle>>
    BY <1>12 DEF Listen, benchVars
  <2>2. QED
    BY <1>1, <2>1 DEF OwnSocket, SpawnedListens, Target
<1>13. ASSUME NEW v \in Vms, Die(v) PROVE OwnSocket'
  <2>1. /\ UNCHANGED <<pc, cycle, sock>>
        /\ \A w \in Vms : fc'[w] = "starting" => fc[w] = "starting"
    BY <1>13 DEF Die, Gone, benchVars
  <2>2. QED
    BY <1>1, <2>1, SocketQuiet
<1>14. ASSUME NEW v \in Vms, ServerStep(v) PROVE OwnSocket'
  BY <1>8, <1>14 DEF ServerStep, ReceiveUffd, SeeStop, ReadEvent, CopyPage,
                     CopyFails, benchVars, fcVars
<1>15. ASSUME NEW v \in Vms, NEW p \in Pages, Write(v, p) PROVE OwnSocket'
  BY <1>8, <1>15 DEF Write, benchVars, fcVars
<1>16. ASSUME NEW v \in Vms, NEW t \in Threads,
              KernelStep(v, t) \/ \E p \in Pages : Trap(v, t, p)
       PROVE  OwnSocket'
  BY <1>8, <1>16 DEF KernelStep, Queue, LookAgain, Trap, benchVars, fcVars
<1>17. CASE UNCHANGED cycleVars
  BY <1>8, <1>17 DEF cycleVars, benchVars, fcVars
<1>18. QED
  BY <1>11, <1>12, <1>13, <1>14, <1>15, <1>16, <1>17 DEF CycleNext

\* When a spawn has returned, its Firecracker listens, though an earlier run's
\* socket file may have been there (process.rs, FcProcess::spawn).
THEOREM SpawnedAlwaysListens == CycleSpec => []SpawnedListens
<1>1. CycleInit => CInv /\ OwnSocket
  BY CycleInitHolds, OwnSocketInit
<1>2. CInv /\ OwnSocket /\ [CycleNext]_cycleVars => (CInv /\ OwnSocket)'
  BY CycleStepKeeps, OwnSocketKept DEF CInv
<1>3. OwnSocket => SpawnedListens
  BY DEF OwnSocket
<1>4. QED
  BY <1>1, <1>2, <1>3, PTL DEF CycleSpec

-----------------------------------------------------------------------------
(* What is left at the end.                                                *)

\* What is over: VM v's process is not there, and its server has ended.
Over(v) == ~Alive(v) /\ server[v] \in {"none", "ended", "failed"}

\* The VMs before the live one are over, those after the cycle's have not
\* begun, and VM 0 has no server.
Tidy ==
  /\ server \in [Vms -> Servers]
  /\ server[0] = "none"
  /\ pc # "panicked" =>
       \A v \in Vms :
         /\ v < live => Over(v)
         /\ v > cycle => fc[v] = "none" /\ server[v] = "none"
  /\ pc \in {"join", "done"} => ~Alive(live)
  /\ pc = "done" => server[live] \in {"none", "ended", "failed"}

\* No VM has a process or a server.
LEMMA TidyInit == CycleInit => Tidy
  BY Numbers DEF CycleInit, Tidy, Servers

\* A step of a VM that has begun, and is not over, or ends.
LEMMA TidyKept ==
  ASSUME CInv, CInv', Tidy, UNCHANGED <<pc, cycle, live>>,
         server' \in [Vms -> Servers],
         \A v \in Vms :
           /\ fc[v] = "none" => fc'[v] = "none"
           /\ fc[v] = "dead" => fc'[v] = "dead"
           /\ server[v] = "none" => server'[v] = "none"
           /\ server[v] \in Finished => server'[v] \in Finished
  PROVE  Tidy'
<1>1. \A v \in Vms : Over(v) => Over(v)'
  BY DEF Over, Alive, Finished
<1>2. live \in Vms /\ cycle \in Vms /\ 0 \in Vms
  BY Numbers DEF CInv, MemTypes
<1>3. ~Alive(live) => ~Alive(live)'
  BY <1>2 DEF Alive
<1>4. \A v \in Vms : server[v] \in {"none", "ended", "failed"} =>
        server'[v] \in {"none", "ended", "failed"}
  BY DEF Finished
<1>5. QED
  BY <1>1, <1>2, <1>3, <1>4 DEF Tidy

\* A VM is over before the next one is live.
LEMMA TidyStep == ASSUME CInv, CInv', Tidy, [CycleNext]_cycleVars PROVE Tidy'
<1>1. /\ live \in Vms /\ cycle \in Vms /\ 0 \in Vms /\ Vms \subseteq Nat
      /\ live' \in Vms /\ cycle' \in Vms
      /\ fc \in [Vms -> Processes] /\ server \in [Vms -> Servers]
      /\ live <= cycle /\ cycle <= live + 1
  BY Numbers DEF CInv, MemTypes, CycleOrder, Tidy
<1>2. ASSUME Panic PROVE Tidy'
  <2>1. /\ pc' = "panicked"
        /\ server' = [v \in Vms |->
                        IF server[v] \in {"none", "failed"} THEN server[v]
                        ELSE "ended"]
    BY <1>2 DEF Panic
  <2>2. QED
    BY <1>1, <2>1 DEF Tidy, Servers
<1>3. CASE Spawn
  <2>1. /\ pc = "spawn" /\ pc' = "appear" /\ UNCHANGED <<cycle, live, server>>
        /\ fc' = [fc EXCEPT ![cycle] = "starting"]
    BY <1>3 DEF Spawn, Target, serverVars
  <2>2. \A v \in Vms : v # cycle => fc'[v] = fc[v]
    BY <1>1, <2>1
  <2>3. \A v \in Vms : v < live => v # cycle
    BY <1>1
  <2>4. QED
    BY <1>1, <2>1, <2>2, <2>3 DEF Tidy, Over, Alive
<1>4. CASE SocketAppears
  <2>1. /\ pc' \in {"boot", "pause"} /\ pc = "appear"
        /\ UNCHANGED <<cycle, live, server, fc>>
    BY <1>4 DEF SocketAppears, serverVars, fcVars
  <2>2. QED
    BY <1>1, <2>1 DEF Tidy, Over, Alive
<1>5. CASE BootInitial
  <2>1. /\ pc = "boot" /\ UNCHANGED <<live, server>>
        /\ pc' \in {"bind", "kill"} /\ cycle' \in {cycle, cycle + 1}
        /\ fc' = [fc EXCEPT ![0] = "running"]
    BY <1>5 DEF BootInitial, ConfigureAndBoot, NextCycle, serverVars
  <2>2. live = 0
    BY <1>1, <2>1 DEF CInv, CycleOrder
  <2>3. \A v \in Vms : v # 0 => fc'[v] = fc[v]
    BY <1>1, <2>1
  <2>4. \A v \in Vms : ~(v < 0)
    BY <1>1
  <2>5. \A v \in Vms : v > cycle' => v > cycle /\ v # 0
    BY <1>1, <2>1
  <2>6. QED
    BY <1>1, <2>1, <2>2, <2>3, <2>4, <2>5 DEF Tidy
<1>6. CASE BindHandler
  <2>1. /\ pc = "bind" /\ pc' = "spawn" /\ UNCHANGED <<cycle, live, fc>>
        /\ server' = [server EXCEPT ![cycle] = "listening"]
    BY <1>6 DEF BindHandler, fcVars
  <2>2. live < cycle
    BY <2>1 DEF CInv, CycleOrder
  <2>3. /\ \A v \in Vms : v # cycle => server'[v] = server[v]
        /\ cycle # 0 /\ \A v \in Vms : v < live => v # cycle
        /\ server' \in [Vms -> Servers]
    BY <1>1, <2>1, <2>2 DEF Servers
  <2>4. QED
    BY <1>1, <2>1, <2>3 DEF Tidy, Over, Alive
<1>7. CASE PauseLive
  <2>1. /\ pc = "pause" /\ pc' = "snapshot"
        /\ UNCHANGED <<cycle, live, server>>
        /\ fc' = [fc EXCEPT ![live] = "paused"]
    BY <1>7 DEF PauseLive, PauseVm, serverVars
  <2>2. /\ \A v \in Vms : v # live => fc'[v] = fc[v]
        /\ \A v \in Vms : v < live => v # live
        /\ \A v \in Vms : v > cycle => v # live
    BY <1>1, <2>1
  <2>3. QED
    BY <1>1, <2>1, <2>2 DEF Tidy, Over, Alive
<1>8. CASE CreateSnapshot \/ SnapshotWritten
  <2>1. /\ pc' \in {"writing", "load"} /\ pc \in {"snapshot", "writing"}
        /\ UNCHANGED <<cycle, live, fc, server>>
    BY <1>8 DEF CreateSnapshot, SnapshotWritten, fcVars, serverVars
  <2>2. QED
    BY <1>1, <2>1 DEF Tidy, Over, Alive
<1>9. CASE LoadSnapshot
  <2>1. /\ pc = "load" /\ pc' = "kill" /\ UNCHANGED <<cycle, live>>
        /\ fc' = [fc EXCEPT ![cycle] = "running"]
        /\ server' = [server EXCEPT ![cycle] = "connected"]
    BY <1>9 DEF LoadSnapshot, LoadVm
  <2>2. live < cycle
    BY <2>1 DEF CInv, CycleOrder
  <2>3. /\ \A v \in Vms : v # cycle => server'[v] = server[v] /\ fc'[v] = fc[v]
        /\ cycle # 0 /\ \A v \in Vms : v < live => v # cycle
        /\ server' \in [Vms -> Servers]
    BY <1>1, <2>1, <2>2 DEF Servers
  <2>4. QED
    BY <1>1, <2>1, <2>3 DEF Tidy, Over, Alive
<1>10. CASE KillRetired
  <2>1. /\ pc = "kill" /\ pc' = "join" /\ UNCHANGED <<cycle, live, server>>
        /\ fc' = [v \in Vms |-> IF v \in {live} /\ Alive(v) THEN "dead"
                                ELSE fc[v]]
    BY <1>10 DEF KillRetired, Gone, serverVars
  <2>2. \A v \in Vms : fc'[v] = fc[v] \/ fc'[v] = "dead"
    BY <2>1
  <2>3. \A v \in Vms : v > cycle => fc'[v] = fc[v]
    BY <1>1, <2>1
  <2>4. fc'[live] \in {"none", "dead"}
    BY <1>1, <2>1 DEF Alive
  <2>5. QED
    BY <1>1, <2>1, <2>2, <2>3, <2>4 DEF Tidy, Over, Alive
<1>11. CASE Retired
  <2>1. /\ pc = "join" /\ HandlerEnded /\ UNCHANGED <<fc, server>>
        /\ pc' \in {"bind", "kill", "done"}
    BY <1>11 DEF Retired, NextCycle, fcVars, serverVars
  <2>2. Over(live)
    BY <2>1 DEF Tidy, HandlerEnded, Over, Finished
  <2>3. CASE live < cycle
    <3>1. /\ live' = cycle /\ cycle' \in {cycle, cycle + 1}
          /\ pc' \in {"bind", "kill"}
      BY <1>11, <2>3 DEF Retired, NextCycle
    <3>2. \A v \in Vms : v < cycle => v < live \/ v = live
      BY <1>1
    <3>3. \A v \in Vms : v > cycle' => v > cycle
      BY <1>1, <3>1
    <3>4. QED
      BY <1>1, <2>1, <2>2, <3>1, <3>2, <3>3 DEF Tidy, Over, Alive
  <2>4. CASE ~(live < cycle)
    <3>1. pc' = "done" /\ UNCHANGED <<cycle, live>>
      BY <1>11, <2>4 DEF Retired
    <3>2. QED
      BY <1>1, <2>1, <2>2, <3>1 DEF Tidy, Over, Alive
  <2>5. QED
    BY <2>3, <2>4
<1>12. ASSUME UNCHANGED <<pc, cycle, live, fc, server>> PROVE Tidy'
  BY <1>1, <1>12, TidyKept
<1>13. CASE Bench
  <2>1. CASE StopHandler \/ \E p \in Pages : WritePage(p)
    BY <1>12, <2>1 DEF StopHandler, WritePage, benchVars, fcVars, serverVars
  <2>2. QED
    BY <1>2, <1>3, <1>4, <1>5, <1>6, <1>7, <1>8, <1>9, <1>10, <1>11, <1>13,
       <2>1 DEF Bench, SocketNeverAppears, NoPrompt, ApiUnreachable
<1>14. ASSUME NEW w \in Vms, Listen(w) PROVE Tidy'
  <2>1. /\ fc[w] = "starting" /\ fc' = [fc EXCEPT ![w] = "ready"]
        /\ UNCHANGED <<pc, cycle, live, server>>
    BY <1>14 DEF Listen, benchVars, serverVars
  <2>2. QED
    BY <1>1, <2>1, TidyKept
<1>15. ASSUME NEW w \in Vms, Die(w) PROVE Tidy'
  <2>1. /\ fc' = [v \in Vms |-> IF v \in {w} /\ Alive(v) THEN "dead"
                                ELSE fc[v]]
        /\ UNCHANGED <<pc, cycle, live, server>>
    BY <1>15 DEF Die, Gone, benchVars, serverVars
  <2>2. QED
    BY <1>1, <2>1, TidyKept DEF Alive
<1>16. ASSUME NEW w \in Vms, ServerStep(w) PROVE Tidy'
  <2>1. /\ server[w] \in {"listening", "connected", "polling", "copying"}
        /\ \E to \in {"polling", "copying", "ended", "failed"} :
             server' = [server EXCEPT ![w] = to]
        /\ UNCHANGED <<pc, cycle, live, fc>>
    BY <1>16 DEF ServerStep, ReceiveUffd, SeeStop, ReadEvent, CopyPage,
                 CopyFails, Serve, benchVars, fcVars
  <2>2. QED
    BY <1>1, <2>1, TidyKept DEF Servers, Finished
<1>17. ASSUME NEW v \in Vms, NEW p \in Pages, Write(v, p) PROVE Tidy'
  BY <1>12, <1>17 DEF Write, benchVars, fcVars, serverVars
<1>18. ASSUME NEW v \in Vms, NEW t \in Threads,
              KernelStep(v, t) \/ \E p \in Pages : Trap(v, t, p)
       PROVE  Tidy'
  BY <1>12, <1>18 DEF KernelStep, Queue, LookAgain, Trap, benchVars, fcVars,
                      serverVars
<1>19. CASE UNCHANGED cycleVars
  BY <1>12, <1>19 DEF cycleVars, benchVars, fcVars, serverVars
<1>20. QED
  BY <1>13, <1>14, <1>15, <1>16, <1>17, <1>18, <1>19 DEF CycleNext

\* A benchmark that reports has retired the last VM it restored.
LEMMA NothingIsLeft ==
  ASSUME CInv, Tidy
  PROVE  NothingLeftBehind
<1> SUFFICES ASSUME pc = "done", NEW v \in Vms
             PROVE  ~Alive(v) /\ server[v] \in {"none", "ended", "failed"}
  BY DEF NothingLeftBehind
<1>1. live = Cycles /\ live \in Nat
  BY Numbers DEF CInv, CycleOrder, MemTypes
<1>2. v < live \/ v = live
  BY <1>1, Numbers DEF Vms
<1> QED
  BY <1>2 DEF Tidy, Over

\* A benchmark that reports has left no process and no server thread, however
\* many cycles it ran (migrate_bench.rs, retire and Handler::stop).
THEOREM NothingIsLeftBehind == CycleSpec => []NothingLeftBehind
<1>1. CycleInit => CInv /\ Tidy
  BY CycleInitHolds, TidyInit
<1>2. CInv /\ Tidy /\ [CycleNext]_cycleVars => (CInv /\ Tidy)'
  BY CycleStepKeeps, TidyStep
<1>3. CInv /\ Tidy => NothingLeftBehind
  BY NothingIsLeft
<1>4. QED
  BY <1>1, <1>2, <1>3, PTL DEF CycleSpec

-----------------------------------------------------------------------------
(* Types.  The arguments above carry the memory and the servers; what the  *)
(* kernel keeps is left, and it takes events out of a queue.               *)

\* Every set of naturals with an element has a least one.
LEMMA LeastNumber ==
  ASSUME NEW T \in SUBSET Nat, T # {}
  PROVE  \E n \in T : \A k \in T : n <= k
<1> DEFINE R == OpToRel(<, Nat)
<1>1. R = {ss \in Nat \X Nat : ss[1] < ss[2]}
  BY DEF OpToRel
<1>2. IsWellFoundedOn(R, Nat)
  BY NatLessThanWellFounded
<1> HIDE DEF R
<1>3. PICK n \in T : \A k \in T : ~(<<k, n>> \in R)
  BY <1>2, WFMin
<1>4. ASSUME NEW k \in T PROVE n <= k
  <2>1. n \in Nat /\ k \in Nat
    OBVIOUS
  <2>2. ~(k < n)
    BY <1>1, <1>3, <2>1
  <2> QED
    BY <2>1, <2>2
<1> QED
  BY <1>4

\* The events up to the n-th that are kept, one unfolding of f.
KeepUpTo(f, events, ts) ==
  [n \in 0..Len(events) |->
     IF n = 0 THEN <<>>
     ELSE IF events[n] \in ts THEN f[n - 1]
     ELSE Append(f[n - 1], events[n])]

\* f is right up to the m-th.
KeepsUpTo(f, m, events, ts, S) ==
  /\ f \in [0..Len(events) -> Seq(S)]
  /\ \A n \in 0..Len(events) : n <= m => f[n] = KeepUpTo(f, events, ts)[n]

\* What is kept of a sequence is a sequence.
LEMMA KeepUpToTypes ==
  ASSUME NEW S, NEW events \in Seq(S), NEW ts,
         NEW f \in [0..Len(events) -> Seq(S)]
  PROVE  KeepUpTo(f, events, ts) \in [0..Len(events) -> Seq(S)]
<1>1. ASSUME NEW n \in 0..Len(events), n # 0
      PROVE  /\ f[n - 1] \in Seq(S)
             /\ Append(f[n - 1], events[n]) \in Seq(S)
  <2>1. n - 1 \in 0..Len(events) /\ n \in 1..Len(events)
    BY <1>1
  <2>2. events[n] \in S
    BY <2>1
  <2> QED
    BY <2>1, <2>2
<1>2. <<>> \in Seq(S)
  OBVIOUS
<1> QED
  BY <1>1, <1>2 DEF KeepUpTo

\* What is right up to the m-th is, unfolded, right up to the next.
LEMMA KeepsFurther ==
  ASSUME NEW S, NEW events \in Seq(S), NEW ts, NEW m \in Nat,
         NEW f, KeepsUpTo(f, m, events, ts, S)
  PROVE  KeepsUpTo(KeepUpTo(f, events, ts), m + 1, events, ts, S)
<1> DEFINE h == KeepUpTo(f, events, ts)
<1>1. h \in [0..Len(events) -> Seq(S)]
  BY KeepUpToTypes DEF KeepsUpTo
<1>2. ASSUME NEW n \in 0..Len(events), n <= m + 1
      PROVE  h[n] = KeepUpTo(h, events, ts)[n]
  <2>1. CASE n = 0
    BY <2>1 DEF KeepUpTo
  <2>2. CASE n # 0
    <3>1. n - 1 \in 0..Len(events) /\ n - 1 <= m
      BY <1>2, <2>2
    <3>2. f[n - 1] = h[n - 1]
      BY <3>1 DEF KeepsUpTo
    <3>3. h[n] = IF events[n] \in ts THEN f[n - 1]
                 ELSE Append(f[n - 1], events[n])
      BY <2>2 DEF KeepUpTo
    <3> HIDE DEF h
    <3>4. KeepUpTo(h, events, ts)[n] =
            IF events[n] \in ts THEN h[n - 1]
            ELSE Append(h[n - 1], events[n])
      BY <2>2 DEF KeepUpTo
    <3> QED
      BY <3>2, <3>3, <3>4
  <2> QED
    BY <2>1, <2>2
<1> QED
  BY <1>1, <1>2 DEF KeepsUpTo

\* However far one goes, some function is right so far.
LEMMA SomeKeeps ==
  ASSUME NEW S, NEW events \in Seq(S), NEW ts
  PROVE  \A m \in Nat : \E f : KeepsUpTo(f, m, events, ts, S)
<1> DEFINE Bad == {m \in Nat : ~ \E f : KeepsUpTo(f, m, events, ts, S)}
<1> SUFFICES ASSUME Bad # {} PROVE FALSE
  OBVIOUS
<1>1. PICK m \in Bad : \A k \in Bad : m <= k
  <2> HIDE DEF Bad
  <2>1. Bad \in SUBSET Nat
    BY DEF Bad
  <2> QED
    BY <2>1, LeastNumber
<1>2. KeepsUpTo([n \in 0..Len(events) |-> <<>>], 0, events, ts, S)
  <2> DEFINE z == [n \in 0..Len(events) |-> <<>>]
  <2>1. z \in [0..Len(events) -> Seq(S)]
    OBVIOUS
  <2>2. ASSUME NEW n \in 0..Len(events), n <= 0
        PROVE  z[n] = KeepUpTo(z, events, ts)[n]
    BY <2>2 DEF KeepUpTo
  <2> QED
    BY <2>1, <2>2 DEF KeepsUpTo
<1>3. m # 0
  BY <1>2
<1>4. m - 1 \in Nat /\ m - 1 \notin Bad
  BY <1>1, <1>3
<1>5. PICK f : KeepsUpTo(f, m - 1, events, ts, S)
  BY <1>4
<1>6. KeepsUpTo(KeepUpTo(f, events, ts), m - 1 + 1, events, ts, S)
  BY <1>4, <1>5, KeepsFurther
<1>7. m - 1 + 1 = m
  BY <1>1
<1> QED
  BY <1>1, <1>6, <1>7

\* Taking events out of a queue leaves a queue.
LEMMA WithoutTypes ==
  ASSUME NEW S, NEW events \in Seq(S), NEW ts
  PROVE  Without(events, ts) \in Seq(S)
<1> DEFINE f == CHOOSE h : h = KeepUpTo(h, events, ts)
<1>1. PICK h : KeepsUpTo(h, Len(events), events, ts, S)
  <2>1. Len(events) \in Nat
    OBVIOUS
  <2> QED
    BY <2>1, SomeKeeps
<1>2. h = KeepUpTo(h, events, ts)
  <2>1. \A n \in 0..Len(events) : n <= Len(events)
    OBVIOUS
  <2>2. KeepUpTo(h, events, ts) \in [0..Len(events) -> Seq(S)]
    BY <1>1, KeepUpToTypes DEF KeepsUpTo
  <2> QED
    BY <1>1, <2>1, <2>2 DEF KeepsUpTo
<1>3. f = KeepUpTo(f, events, ts)
  BY <1>2
<1>4. Without(events, ts) = f[Len(events)]
  BY DEF Without, KeepUpTo
<1> HIDE DEF f
<1> DEFINE Bad == {n \in 0..Len(events) : f[n] \notin Seq(S)}
<1>5. Bad = {}
  <2> SUFFICES ASSUME Bad # {} PROVE FALSE
    OBVIOUS
  <2>1. PICK n \in Bad : \A k \in Bad : n <= k
    <3>1. Bad \in SUBSET Nat
      OBVIOUS
    <3> HIDE DEF Bad
    <3> QED
      BY <3>1, LeastNumber
  <2>2. n # 0
    BY <1>3 DEF KeepUpTo
  <2>3. n - 1 \in 0..Len(events) /\ n \in 1..Len(events)
    BY <2>2
  <2>4. f[n - 1] \in Seq(S)
    BY <2>1, <2>3
  <2>5. f[n] = IF events[n] \in ts THEN f[n - 1]
               ELSE Append(f[n - 1], events[n])
    BY <1>3, <2>2 DEF KeepUpTo
  <2>6. Append(f[n - 1], events[n]) \in Seq(S)
    <3>1. events[n] \in S
      BY <2>3
    <3> QED
      BY <2>4, <3>1
  <2>7. f[n] \notin Seq(S)
    BY <2>1
  <2> QED
    BY <2>4, <2>5, <2>6, <2>7
<1> QED
  BY <1>4, <1>5


\* What the kernel keeps, and the servers with it.
KernelTypes ==
  /\ touch \in [Vms -> [Threads -> Pages \cup {NoPage}]]
  /\ queued \in [Vms -> SUBSET Threads]
  /\ unread \in [Vms -> Seq(Threads)]
  /\ serving \in [Vms -> Pages \cup {NoPage}]
  /\ stop \in SUBSET Vms
  /\ crashes \in 0..MaxCrashes

KernelVars == <<touch, queued, unread, serving, stop, crashes>>

\* Nobody waits for a page.
LEMMA KernelInit == CycleInit => KernelTypes
<1> SUFFICES ASSUME CycleInit PROVE KernelTypes
  OBVIOUS
<1>1. touch \in [Vms -> [Threads -> Pages \cup {NoPage}]]
  BY DEF CycleInit, NoTouch
<1>2. queued \in [Vms -> SUBSET Threads] /\ unread \in [Vms -> Seq(Threads)]
  BY DEF CycleInit
<1>3. serving \in [Vms -> Pages \cup {NoPage}] /\ stop \in SUBSET Vms
  BY DEF CycleInit
<1>4. crashes \in 0..MaxCrashes
  BY BoundsAssumption DEF CycleInit
<1> QED
  BY <1>1, <1>2, <1>3, <1>4 DEF KernelTypes

\* Whoever is gone touches nothing and has no events.
LEMMA GoneKeepsTypes ==
  ASSUME KernelTypes, NEW vs \in SUBSET Vms, Gone(vs),
         UNCHANGED <<serving, stop>>, crashes' \in 0..MaxCrashes
  PROVE  KernelTypes'
<1>1. touch' \in [Vms -> [Threads -> Pages \cup {NoPage}]]
  <2>1. NoTouch \in [Threads -> Pages \cup {NoPage}]
    BY DEF NoTouch
  <2> QED
    BY <2>1 DEF Gone, KernelTypes
<1>2. queued' \in [Vms -> SUBSET Threads]
  BY DEF Gone, KernelTypes
<1>3. unread' \in [Vms -> Seq(Threads)]
  <2>1. <<>> \in Seq(Threads)
    OBVIOUS
  <2> QED
    BY <2>1 DEF Gone, KernelTypes
<1> QED
  BY <1>1, <1>2, <1>3 DEF KernelTypes

\* Waking up some threads leaves a queue of threads.
LEMMA WakeUpKeepsTypes ==
  ASSUME KernelTypes, NEW v \in Vms, NEW ts, WakeUp(v, ts),
         serving' \in [Vms -> Pages \cup {NoPage}],
         UNCHANGED <<stop, crashes>>
  PROVE  KernelTypes'
<1>1. touch' \in [Vms -> [Threads -> Pages \cup {NoPage}]]
  BY DEF WakeUp, KernelTypes
<1>2. queued' \in [Vms -> SUBSET Threads]
  BY DEF WakeUp, KernelTypes
<1>3. unread' \in [Vms -> Seq(Threads)]
  <2>1. unread[v] \in Seq(Threads)
    BY DEF KernelTypes
  <2>2. Without(unread[v], ts) \in Seq(Threads)
    BY <2>1, WithoutTypes
  <2> QED
    BY <2>2 DEF WakeUp, KernelTypes
<1> QED
  BY <1>1, <1>2, <1>3 DEF KernelTypes

\* A server takes the thread of the first event, and the page it wants.
LEMMA ReadEventKeepsTypes ==
  ASSUME KernelTypes, NEW v \in Vms, ReadEvent(v)
  PROVE  KernelTypes'
<1>1. unread[v] \in Seq(Threads) /\ unread[v] # <<>>
  BY DEF ReadEvent, KernelTypes
<1>2. Head(unread[v]) \in Threads /\ Tail(unread[v]) \in Seq(Threads)
  BY <1>1
<1>3. touch[v][Head(unread[v])] \in Pages \cup {NoPage}
  BY <1>2 DEF KernelTypes
<1>4. serving' \in [Vms -> Pages \cup {NoPage}]
  BY <1>3 DEF ReadEvent, KernelTypes
<1>5. unread' \in [Vms -> Seq(Threads)]
  BY <1>2 DEF ReadEvent, KernelTypes
<1> QED
  BY <1>4, <1>5 DEF ReadEvent, fcVars, KernelTypes

\* The kernel's steps, and those that end or wake who waits.
LEMMA KernelKept ==
  ASSUME MemTypes, KernelTypes, [CycleNext]_cycleVars
  PROVE  KernelTypes'
<1>1. ASSUME UNCHANGED KernelVars PROVE KernelTypes'
  BY <1>1 DEF KernelVars, KernelTypes
<1>2. CASE Bench
  <2>1. ASSUME Panic PROVE KernelTypes'
    <3>1. UNCHANGED <<serving, stop>> /\ crashes' \in 0..MaxCrashes
      BY <2>1 DEF Panic, KernelTypes
    <3> QED
      BY <2>1, <3>1, GoneKeepsTypes DEF Panic
  <2>2. CASE KillRetired
    <3>1. UNCHANGED <<serving, stop>> /\ crashes' \in 0..MaxCrashes
      BY <2>2 DEF KillRetired, serverVars, KernelTypes
    <3>2. {live} \in SUBSET Vms
      BY DEF MemTypes
    <3> QED
      BY <2>2, <3>1, <3>2, GoneKeepsTypes DEF KillRetired
  <2>3. CASE StopHandler
    BY <2>3 DEF StopHandler, fcVars, kernelVars, KernelTypes, MemTypes
  <2>4. CASE \/ Spawn \/ SocketAppears \/ BootInitial \/ BindHandler
             \/ PauseLive \/ CreateSnapshot \/ SnapshotWritten
             \/ LoadSnapshot \/ Retired \/ \E p \in Pages : WritePage(p)
    <3>1. UNCHANGED KernelVars
      BY <2>4
      DEF Spawn, SocketAppears, BootInitial, BindHandler, PauseLive,
          CreateSnapshot, SnapshotWritten, LoadSnapshot, Retired, WritePage,
          fcVars, kernelVars, serverVars, KernelVars
    <3> QED
      BY <1>1, <3>1
  <2> QED
    BY <1>2, <2>1, <2>2, <2>3, <2>4
    DEF Bench, SocketNeverAppears, NoPrompt, ApiUnreachable
<1>3. ASSUME NEW v \in Vms, Listen(v) PROVE KernelTypes'
  BY <1>1, <1>3 DEF Listen, kernelVars, serverVars, KernelVars
<1>4. ASSUME NEW v \in Vms, Die(v) PROVE KernelTypes'
  <2>1. UNCHANGED <<serving, stop>> /\ crashes' \in 0..MaxCrashes
    BY <1>4, BoundsAssumption DEF Die, serverVars, KernelTypes
  <2> QED
    BY <1>4, <2>1, GoneKeepsTypes DEF Die
<1>5. ASSUME NEW v \in Vms, ServerStep(v) PROVE KernelTypes'
  <2>1. CASE ReceiveUffd(v) \/ SeeStop(v)
    BY <1>1, <2>1 DEF ReceiveUffd, SeeStop, fcVars, kernelVars, KernelVars
  <2>2. CASE ReadEvent(v)
    BY <2>2, ReadEventKeepsTypes
  <2>3. CASE CopyPage(v)
    <3>1. serving' \in [Vms -> Pages \cup {NoPage}]
      BY <2>3 DEF CopyPage, KernelTypes
    <3>2. UNCHANGED <<stop, crashes>>
      BY <2>3 DEF CopyPage, fcVars
    <3>3. PICK ts : WakeUp(v, ts)
      BY <2>3 DEF CopyPage
    <3> QED
      BY <3>1, <3>2, <3>3, WakeUpKeepsTypes
  <2>4. CASE CopyFails(v)
    BY <2>4 DEF CopyFails, fcVars, kernelVars, KernelTypes
  <2> QED
    BY <1>5, <2>1, <2>2, <2>3, <2>4 DEF ServerStep
<1>6. ASSUME NEW v \in Vms, NEW p \in Pages, Write(v, p) PROVE KernelTypes'
  BY <1>1, <1>6 DEF Write, fcVars, serverVars, KernelVars
<1>7. ASSUME NEW v \in Vms, NEW t \in Threads, KernelStep(v, t)
      PROVE  KernelTypes'
  <2>1. CASE Queue(v, t)
    <3>1. Append(unread[v], t) \in Seq(Threads)
      BY DEF KernelTypes
    <3>2. unread' \in [Vms -> Seq(Threads)]
      BY <2>1, <3>1 DEF Queue, KernelTypes
    <3>3. queued' \in [Vms -> SUBSET Threads]
      BY <2>1 DEF Queue, KernelTypes
    <3> QED
      BY <2>1, <3>2, <3>3 DEF Queue, fcVars, serverVars, KernelTypes
  <2>2. CASE LookAgain(v, t)
    <3>1. /\ WakeUp(v, {t}) /\ UNCHANGED <<stop, crashes>>
          /\ serving' \in [Vms -> Pages \cup {NoPage}]
      BY <2>2 DEF LookAgain, fcVars, serverVars, KernelTypes
    <3> QED
      BY <3>1, WakeUpKeepsTypes
  <2> QED
    BY <1>7, <2>1, <2>2 DEF KernelStep
<1>8. ASSUME NEW v \in Vms, NEW t \in Threads, NEW p \in Pages,
             Trap(v, t, p)
      PROVE  KernelTypes'
  BY <1>8 DEF Trap, fcVars, serverVars, KernelTypes
<1>9. CASE UNCHANGED cycleVars
  BY <1>1, <1>9 DEF cycleVars, fcVars, kernelVars, serverVars, KernelVars
<1> QED
  BY <1>2, <1>3, <1>4, <1>5, <1>6, <1>7, <1>8, <1>9 DEF CycleNext

\* All that is known of the benchmark.
CycleAll == CInv /\ OwnSocket /\ Tidy /\ KernelTypes

\* All of it holds before the first VM.
LEMMA CycleAllInit == CycleInit => CycleAll
BY CycleInitHolds, OwnSocketInit, TidyInit, KernelInit DEF CycleAll

\* And every step keeps it.
LEMMA CycleAllKept == CycleAll /\ [CycleNext]_cycleVars => CycleAll'
BY CycleStepKeeps, OwnSocketKept, TidyStep, KernelKept DEF CycleAll, CInv

\* What the benchmark is typed as, and its three promises.
LEMMA CycleAllMeans ==
  CycleAll => CycleTypes /\ MemorySurvives /\ SpawnedListens
                /\ NothingLeftBehind
<1> SUFFICES ASSUME CycleAll
             PROVE  CycleTypes /\ MemorySurvives /\ SpawnedListens
                      /\ NothingLeftBehind
  OBVIOUS
<1>1. CycleTypes
  BY DEF CycleAll, CInv, MemTypes, OwnSocket, Tidy, KernelTypes, CycleTypes
<1>2. MemorySurvives
  BY DEF CycleAll, CInv, OneRuns, Intact, MemorySurvives
<1>3. SpawnedListens
  BY DEF CycleAll, OwnSocket
<1>4. NothingLeftBehind
  BY NothingIsLeft DEF CycleAll
<1> QED
  BY <1>1, <1>2, <1>3, <1>4

============================================================================
