----------------------------- MODULE Lifecycle -----------------------------
(***************************************************************************)
(* One VM's lifecycle as hostd records it (crates/hostd/src/vm.rs), over   *)
(* the client of Firecracker's API socket (firecracker.rs; its stand-in    *)
(* for the tests, pseudo_firecracker.rs).  A call is refused before it is  *)
(* made when the record says so, and the record changes on success only.   *)
(* The answer to a call that Firecracker has carried out may be lost.      *)
(*                                                                         *)
(* External: Firecracker starts an instance once, takes pause and resume   *)
(* of a started one as often as they come, and passes Ctrl-Alt-Del on to a *)
(* guest that shuts itself down, or not.                                   *)
(***************************************************************************)
VARIABLES
  state,   \* RunState, as recorded
  call,    \* the operation under way
  answer,  \* what Firecracker has answered it
  real,    \* what the VM does
  told,    \* Ctrl-Alt-Del was passed on
  lost     \* history: a call Firecracker carried out was reported failed

vmVars == <<state, call, answer, real, told, lost>>

Ops == {"boot", "pause", "resume", "shutdown"}
RunStates == {"Created", "Running", "Paused", "Stopped"}

\* The states an operation is legal from, and the one it leads to.
LegalFrom(op) ==
  CASE op = "boot" -> {"Created"}
    [] op = "pause" -> {"Running"}
    [] op = "resume" -> {"Paused"}
    [] op = "shutdown" -> {"Running", "Paused"}

After(op) ==
  CASE op \in {"boot", "resume"} -> "Running"
    [] op = "pause" -> "Paused"
    [] op = "shutdown" -> "Stopped"

\* Mutant: the state is set before the outcome is known.
BeginBelieving(op) ==
  /\ call = "none" /\ state \in LegalFrom(op)
  /\ call' = op
  /\ state' = After(op)
  /\ UNCHANGED <<answer, real, told, lost>>

\* An illegal operation is refused here and changes nothing.
Begin(op) ==
  /\ call = "none" /\ state \in LegalFrom(op)
  /\ call' = op
  /\ UNCHANGED <<state, answer, real, told, lost>>

\* External: what Firecracker carries out, and what it answers 204 to.
Accepts(op) ==
  CASE op = "boot" -> real = "configured"
    [] op \in {"pause", "resume", "shutdown"} -> real \in {"running", "paused"}

Perform(op) ==
  /\ real' = CASE op \in {"boot", "resume"} -> "running"
               [] op = "pause" -> "paused"
               [] OTHER -> real
  /\ told' = (told \/ op = "shutdown")

\* The request reaches Firecracker.
Deliver ==
  /\ call # "none" /\ answer = "none" /\ real # "gone"
  /\ IF Accepts(call) THEN Perform(call) /\ answer' = "ok"
     ELSE answer' = "rejected" /\ UNCHANGED <<real, told>>
  /\ UNCHANGED <<state, call, lost>>

Finish ==
  /\ call' = "none" /\ answer' = "none"
  /\ UNCHANGED <<real, told>>

\* 204: Ok, and the record follows.
Succeed ==
  /\ answer = "ok"
  /\ state' = After(call)
  /\ Finish /\ UNCHANGED lost

\* Any other status: Rejected, and the record stays.
Reject ==
  /\ answer = "rejected"
  /\ Finish /\ UNCHANGED <<state, lost>>

\* Connecting, the handshake, the request or the reading of the answer fails.
Unreachable ==
  /\ call # "none"
  /\ lost' = (lost \/ answer = "ok")
  /\ Finish /\ UNCHANGED state

\* The guest does what Ctrl-Alt-Del asks, or Firecracker is killed.
PowerOff ==
  /\ real \in {"configured", "running", "paused"}
  /\ real' = "gone"
  /\ UNCHANGED <<state, call, answer, told, lost>>

LifeInit ==
  /\ state = "Created" /\ call = "none" /\ answer = "none"
  /\ real = "configured" /\ told = FALSE /\ lost = FALSE

LifeNext ==
  \/ \E op \in Ops : Begin(op)
  \/ Deliver \/ Succeed \/ Reject \/ Unreachable \/ PowerOff

LifeSpec == LifeInit /\ [][LifeNext]_vmVars

-----------------------------------------------------------------------------
(* Properties.                                                             *)

LifeTypes ==
  /\ state \in RunStates /\ call \in Ops \cup {"none"}
  /\ answer \in {"none", "ok", "rejected"}
  /\ real \in {"configured", "running", "paused", "gone"}
  /\ told \in BOOLEAN /\ lost \in BOOLEAN

\* Between calls the record says what the VM does, as long as the VM is there,
\* and Vm asks nothing that Firecracker refuses (Vm's four operations).  Both
\* hold until an answer is lost: then the record is behind, and the retry the
\* tests promise may be refused for ever (a VM that booted and is recorded
\* Created).
RecordIsReal ==
  ~lost =>
    /\ answer # "rejected"
    /\ call = "none" /\ real # "gone" =>
         CASE state = "Created" -> real = "configured"
           [] state = "Running" -> real = "running"
           [] state = "Paused" -> real = "paused"
           [] state = "Stopped" -> told

============================================================================
