------------------------------- MODULE OneShot ------------------------------
(***************************************************************************)
(* The pair of commands `migrate send` and `migrate recv`                  *)
(* (crates/hostd/src/bin/migrate.rs) over migrate_source and               *)
(* restore_target (migrate.rs).  The sender boots a private VM for each    *)
(* attempt, drains it, snapshots it and streams it; an attempt that fails  *)
(* is repeated, MaxTries times for one run.  The receiver restores what    *)
(* comes in on its one listener, tears it down again and counts.  The two  *)
(* count alone: a run is one thing to the sender and another to the        *)
(* receiver when the stream or the restore fails late.                     *)
(*                                                                         *)
(* Module Migration has the snapshot, the stream and the restore in full,  *)
(* module Sessions the drain.  A snapshot does not fit into the socket's   *)
(* buffers, so it is only sent while the receiver reads it.                *)
(***************************************************************************)
EXTENDS Naturals, Sequences, FiniteSets

CONSTANTS
  Count,    \* runs both commands are asked for
  MaxTries  \* MAX_TRIES

ASSUME CountAssumption == Count \in Nat
ASSUME TriesAssumption == MaxTries \in Nat \ {0}

Shots == 1..Count * MaxTries

VARIABLES
  sender,    \* where `migrate send` is
  attempt,   \* attempts of the run under way
  shot,      \* calls of migrate_source so far
  sent,      \* runs the sender counts
  vm,        \* the private VM of each attempt
  work,      \* attempts whose work directory is there
  backlog,   \* connections the receiver has not accepted, by attempt
  stream,    \* what the stream of an attempt carries
  receiver,  \* where `migrate recv` is
  incoming,  \* the attempt whose connection the receiver holds, or 0
  restored,  \* runs the receiver counts
  copy,      \* the restored VM of each attempt
  spoilt     \* history: whole snapshots the receiver failed on

senderVars == <<sender, attempt, shot, sent>>
receiverVars == <<receiver, incoming, restored, copy, spoilt>>
shotVars == <<senderVars, vm, work, backlog, stream, receiverVars>>

SenderPcs == {"ready", "boot", "drain", "pause", "dial", "stream", "close",
              "ended", "gaveup"}
ReceiverPcs == {"accept", "receive", "restore", "teardown", "ended"}

-----------------------------------------------------------------------------
(* migrate_source.                                                         *)

SendGoto(from, to) == sender = from /\ sender' = to

BeginShot ==
  /\ sent < Count /\ SendGoto("ready", "boot")
  /\ shot' = shot + 1 /\ attempt' = attempt + 1
  /\ work' = work \cup {shot + 1}
  /\ UNCHANGED <<sent, vm, backlog, stream, receiverVars>>

\* spawn, the four configure calls, boot.
BootShot ==
  /\ SendGoto("boot", "drain")
  /\ vm' = [vm EXCEPT ![shot] = "running"]
  /\ UNCHANGED <<attempt, shot, sent, work, backlog, stream, receiverVars>>

\* connect, handshake and drain go well; the link is closed.
DrainShot ==
  /\ SendGoto("drain", "pause")
  /\ UNCHANGED <<attempt, shot, sent, vm, work, backlog, stream,
                 receiverVars>>

PauseShot ==
  /\ SendGoto("pause", "dial")
  /\ vm' = [vm EXCEPT ![shot] = "paused"]
  /\ UNCHANGED <<attempt, shot, sent, work, backlog, stream, receiverVars>>

DialShot ==
  /\ receiver # "ended" /\ SendGoto("dial", "stream")
  /\ backlog' = Append(backlog, shot)
  /\ stream' = [stream EXCEPT ![shot] = "open"]
  /\ UNCHANGED <<attempt, shot, sent, vm, work, receiverVars>>

StreamShot ==
  /\ SendGoto("stream", "close")
  /\ incoming = shot /\ stream[shot] = "open"
  /\ stream' = [stream EXCEPT ![shot] = "whole"]
  /\ UNCHANGED <<attempt, shot, sent, vm, work, backlog, receiverVars>>

\* Killed, by kill() or by the drop of its FcProcess.
KillShot == vm' = [vm EXCEPT ![shot] = IF @ = "none" THEN @ ELSE "killed"]

\* The stream is shut down and the source cleaned up.
CloseShot ==
  /\ SendGoto("close", IF sent + 1 < Count THEN "ready" ELSE "ended")
  /\ sent' = sent + 1 /\ attempt' = 0
  /\ KillShot /\ work' = work \ {shot}
  /\ UNCHANGED <<shot, backlog, stream, receiverVars>>

\* send: the run is tried again, or the command fails.
Retry ==
  /\ sender' = IF attempt < MaxTries THEN "ready" ELSE "gaveup"
  /\ UNCHANGED <<attempt, shot, sent>>

\* Mutant: the VM is left intact, as the comment at the call has it.
StandDownIntact ==
  /\ sender = "drain"
  /\ work' = work \ {shot} /\ UNCHANGED vm
  /\ Retry
  /\ UNCHANGED <<backlog, stream, receiverVars>>

\* abort: the guest is not reached, does not answer or is busy.
StandDownShot ==
  /\ sender = "drain"
  /\ KillShot /\ work' = work \ {shot}
  /\ Retry
  /\ UNCHANGED <<backlog, stream, receiverVars>>

\* ? before the link is there, and from the pause on: the process is dropped,
\* its directory stays.  A stream that was not whole is cut.
FailShot ==
  /\ sender \in {"boot", "pause", "dial", "stream", "close"}
  /\ KillShot
  /\ stream' = [stream EXCEPT ![shot] = IF @ = "open" THEN "cut" ELSE @]
  /\ Retry
  /\ UNCHANGED <<work, backlog, receiverVars>>

SenderStep ==
  \/ BeginShot \/ BootShot \/ DrainShot \/ PauseShot \/ DialShot
  \/ StreamShot \/ CloseShot \/ StandDownShot \/ FailShot

-----------------------------------------------------------------------------
(* restore_target, once and again.  An accept that times out comes back to *)
(* where it was.                                                           *)

RecvGoto(from, to) == receiver = from /\ receiver' = to

AcceptShot ==
  /\ backlog # <<>> /\ RecvGoto("accept", "receive")
  /\ incoming' = Head(backlog) /\ backlog' = Tail(backlog)
  /\ UNCHANGED <<senderVars, vm, work, stream, restored, copy, spoilt>>

ReceiveShot ==
  /\ RecvGoto("receive", "restore") /\ stream[incoming] = "whole"
  /\ UNCHANGED <<senderVars, vm, work, backlog, stream, incoming, restored,
                 copy, spoilt>>

\* The stream ends early, or something fails from the accept to the load.
FailRestore ==
  /\ \E from \in {"receive", "restore"} : RecvGoto(from, "accept")
  /\ incoming' = 0
  /\ stream' = [stream EXCEPT ![incoming] = IF @ = "open" THEN "cut" ELSE @]
  /\ spoilt' = IF stream[incoming] = "whole" THEN spoilt \cup {incoming}
               ELSE spoilt
  /\ UNCHANGED <<senderVars, vm, work, backlog, restored, copy>>

RestoreShot ==
  /\ RecvGoto("restore", "teardown")
  /\ copy' = [copy EXCEPT ![incoming] = "running"]
  /\ UNCHANGED <<senderVars, vm, work, backlog, stream, incoming, restored,
                 spoilt>>

\* Mutant: the command waits for one run more.
TearDownAndWait ==
  /\ RecvGoto("teardown", IF restored < Count THEN "accept" ELSE "ended")
  /\ restored' = restored + 1
  /\ copy' = [copy EXCEPT ![incoming] = "killed"]
  /\ incoming' = 0
  /\ UNCHANGED <<senderVars, vm, work, backlog, stream, spoilt>>

\* The restored VM is torn down and counted.  With the last one the command
\* ends, and its listener with it.
TearDownShot ==
  /\ RecvGoto("teardown", IF restored + 1 < Count THEN "accept" ELSE "ended")
  /\ restored' = restored + 1
  /\ copy' = [copy EXCEPT ![incoming] = "killed"]
  /\ incoming' = 0
  /\ backlog' = IF restored + 1 < Count THEN backlog ELSE <<>>
  /\ UNCHANGED <<senderVars, vm, work, stream, spoilt>>

ReceiverStep ==
  AcceptShot \/ ReceiveShot \/ FailRestore \/ RestoreShot \/ TearDownShot

-----------------------------------------------------------------------------
ShotInit ==
  /\ sender = (IF Count = 0 THEN "ended" ELSE "ready")
  /\ attempt = 0 /\ shot = 0 /\ sent = 0
  /\ vm = [n \in Shots |-> "none"] /\ work = {}
  /\ backlog = <<>> /\ stream = [n \in Shots |-> "none"]
  /\ receiver = (IF Count = 0 THEN "ended" ELSE "accept")
  /\ incoming = 0 /\ restored = 0
  /\ copy = [n \in Shots |-> "none"] /\ spoilt = {}

ShotNext == SenderStep \/ ReceiverStep

\* Two processes that keep running: neither stays for ever where it can go
\* on or fail.  Which of the two it does is open at each step.
ShotFairness == WF_shotVars(SenderStep) /\ WF_shotVars(ReceiverStep)

ShotSpec == ShotInit /\ [][ShotNext]_shotVars /\ ShotFairness

-----------------------------------------------------------------------------
(* Properties.                                                             *)

ShotTypes ==
  /\ sender \in SenderPcs /\ attempt \in 0..MaxTries
  /\ shot \in 0..Count * MaxTries /\ sent \in 0..Count
  /\ vm \in [Shots -> {"none", "running", "paused", "killed"}]
  /\ work \subseteq Shots /\ backlog \in Seq(Shots)
  /\ stream \in [Shots -> {"none", "open", "whole", "cut"}]
  /\ receiver \in ReceiverPcs /\ incoming \in Shots \cup {0}
  /\ restored \in 0..Count
  /\ copy \in [Shots -> {"none", "running", "killed"}]
  /\ spoilt \subseteq Shots

Of(f, s) == {n \in Shots : f[n] \in s}

\* Attempts and restores overlap, and stay apart: the copy of a guest runs
\* only from a whole snapshot and never beside its source, the VM of an
\* attempt does not outlive it, the receiver counts what it restored, and the
\* sender counts no run whose snapshot is not whole at the receiver.
ShotsStayApart ==
  /\ \A n \in Shots : copy[n] = "running" =>
       stream[n] = "whole" /\ vm[n] # "running"
  /\ \A n \in Of(vm, {"running", "paused"}) :
       n = shot /\ sender \notin {"ready", "ended", "gaveup"}
  /\ restored = Cardinality(Of(copy, {"killed"}))
  /\ sent <= Cardinality(Of(stream, {"whole"}))

\* The sender ends.  If it ends well, so does the receiver, unless it failed
\* on a snapshot the sender had got rid of: then it waits for a run that
\* nobody sends (bin/migrate.rs, send and recv).
PairEnds ==
  /\ <>(sender \in {"ended", "gaveup"})
  /\ sender = "ended" ~> (receiver = "ended" \/ spoilt # {})

=============================================================================
