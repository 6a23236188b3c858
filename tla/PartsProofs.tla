----------------------------- MODULE PartsProofs ----------------------------
(***************************************************************************)
(* Proofs about the components that share nothing, for every value of      *)
(* their constants: the attempts and restores of the one-shot commands     *)
(* stay apart (OneShot), what a VM is recorded as is what it does          *)
(* (Lifecycle), and, with what DriveProofs and RestoreProofs establish,    *)
(* all four keep their types and their promises when one of them runs      *)
(* while the others stay where they begin (MCParts).                       *)
(***************************************************************************)
EXTENDS MCParts, DriveProofs, RestoreProofs, FiniteSetTheorems, TLAPS

-----------------------------------------------------------------------------
(* The sender.                                                             *)

Trying == SenderPcs \ {"ready", "ended", "gaveup"}

\* No call of migrate_source is outside the tries of a run.
TriesInv ==
  /\ sender \in SenderPcs
  /\ attempt \in 0..MaxTries /\ sent \in 0..Count /\ shot \in Nat
  /\ shot <= sent * MaxTries + attempt
  /\ sender = "ready" => attempt < MaxTries
  /\ sender \in Trying => sent < Count /\ 1 <= shot

\* Only the attempt under way has a VM, and what it sends it sends once, when
\* the VM no longer runs.
AttemptInv ==
  /\ vm \in [Shots -> {"none", "running", "paused", "killed"}]
  /\ stream \in [Shots -> {"none", "open", "whole", "cut"}]
  /\ \A n \in Shots :
       /\ vm[n] \in {"running", "paused"} => n = shot /\ sender \in Trying
       /\ stream[n] # "none" => vm[n] # "running" /\ n <= shot
       /\ n = shot /\ sender \in {"boot", "drain", "pause", "dial"} =>
            stream[n] = "none"
       /\ n = shot /\ sender \in {"drain", "pause"} => vm[n] = "running"
       /\ n = shot /\ sender = "close" => stream[n] = "whole"
       /\ n = shot /\ sender \in {"dial", "stream", "close"} =>
            vm[n] = "paused"

\* The runs counted are among the attempts that are over.
Whole == Of(stream, {"whole"})
Past == IF sender \in Trying THEN {n \in Whole : n < shot} ELSE Whole
SentInv == sent <= Cardinality(Past)

(* The receiver.                                                           *)

RestoreInv ==
  /\ receiver \in ReceiverPcs /\ restored \in Nat
  /\ copy \in [Shots -> {"none", "running", "killed"}]
  /\ backlog \in Seq(Shots)
  /\ receiver \in {"receive", "restore", "teardown"} => incoming \in Shots
  /\ receiver \in {"restore", "teardown"} => stream[incoming] = "whole"
  /\ \A n \in Shots : copy[n] = "running" <=>
       receiver = "teardown" /\ n = incoming
  /\ restored = Cardinality(Of(copy, {"killed"}))

\* No attempt reaches the receiver twice.
QueueInv ==
  /\ incoming \in Shots \cup {0}
  /\ receiver \in {"accept", "ended"} => incoming = 0
  /\ \A i \in 1..Len(backlog) :
       /\ copy[backlog[i]] = "none" /\ stream[backlog[i]] # "none"
       /\ backlog[i] # incoming
  /\ \A i, k \in 1..Len(backlog) : i # k => backlog[i] # backlog[k]
  /\ receiver \in {"receive", "restore"} =>
       copy[incoming] = "none" /\ stream[incoming] # "none"
  /\ \A n \in Shots : copy[n] # "none" => stream[n] # "none"

-----------------------------------------------------------------------------
ShotInv == TriesInv /\ AttemptInv /\ SentInv /\ RestoreInv /\ QueueInv

ShotStep == [ShotNext]_shotVars

USE CountAssumption, TriesAssumption

\* The attempt under way is one of those the commands may make.
LEMMA ShotIsOne ==
  ASSUME TriesInv, sender \in Trying
  PROVE  shot \in Shots
<1>1. /\ sent \in Nat /\ attempt \in 0..MaxTries /\ shot \in Nat
      /\ sent < Count /\ 1 <= shot /\ shot <= sent * MaxTries + attempt
  BY DEF TriesInv
<1> DEFINE rest == Count - 1 - sent
<1>2. rest \in Nat
  BY <1>1
<1>3. /\ rest * MaxTries \in Nat /\ sent * MaxTries \in Nat
      /\ Count * MaxTries \in Nat
  BY <1>1, <1>2
<1>4. Count * MaxTries = sent * MaxTries + rest * MaxTries + MaxTries
  <2> HIDE DEF rest
  <2>1. Count = (sent + rest) + 1
    BY <1>1 DEF rest
  <2>2. Count * MaxTries = (sent + rest) * MaxTries + MaxTries
    BY <1>1, <1>2, <2>1
  <2>3. (sent + rest) * MaxTries = sent * MaxTries + rest * MaxTries
    BY <1>1, <1>2
  <2> QED
    BY <2>2, <2>3
<1> HIDE DEF rest
<1> QED
  BY <1>1, <1>3, <1>4 DEF Shots

\* A retry counts up to MaxTries, a run that is counted starts over.
LEMMA TriesStep ==
  ASSUME TriesInv, ShotStep
  PROVE  TriesInv'
<1>0. sent \in Nat /\ sent * MaxTries \in Nat
  BY DEF TriesInv
<1>1. CASE BeginShot
  BY <1>0, <1>1 DEF TriesInv, BeginShot, SendGoto, Trying, SenderPcs
<1>2. CASE CloseShot
  <2>1. (sent + 1) * MaxTries = sent * MaxTries + MaxTries
    BY <1>0
  <2> QED
    BY <1>0, <1>2, <2>1
    DEF TriesInv, CloseShot, SendGoto, Trying, SenderPcs
<1>3. CASE StandDownShot \/ FailShot
  BY <1>0, <1>3
  DEF TriesInv, StandDownShot, FailShot, Retry, Trying, SenderPcs
<1>4. CASE BootShot \/ DrainShot \/ PauseShot \/ DialShot \/ StreamShot
  BY <1>0, <1>4
  DEF TriesInv, BootShot, DrainShot, PauseShot, DialShot, StreamShot,
      SendGoto, Trying, SenderPcs
<1>5. CASE ReceiverStep
  BY <1>5
  DEF TriesInv, ReceiverStep, AcceptShot, ReceiveShot, FailRestore,
      RestoreShot, TearDownShot, senderVars, Trying
<1>6. CASE UNCHANGED shotVars
  BY <1>6 DEF TriesInv, shotVars, senderVars, Trying
<1> QED
  BY <1>1, <1>2, <1>3, <1>4, <1>5, <1>6 DEF ShotStep, ShotNext, SenderStep

\* The VM of an attempt lives and dies with it.
LEMMA AttemptStep ==
  ASSUME TriesInv, AttemptInv, RestoreInv, ShotStep
  PROVE  AttemptInv'
<1>0. sender \in Trying => shot \in Shots
  BY ShotIsOne
<1>1. CASE BeginShot
  BY <1>1 DEF AttemptInv, TriesInv, BeginShot, SendGoto, Trying, SenderPcs,
              Shots
<1>2. CASE BootShot
  BY <1>0, <1>2
  DEF AttemptInv, BootShot, SendGoto, Trying, SenderPcs
<1>11. CASE DrainShot
  BY <1>0, <1>11
  DEF AttemptInv, DrainShot, SendGoto, Trying, SenderPcs
<1>12. CASE PauseShot
  BY <1>0, <1>12
  DEF AttemptInv, PauseShot, SendGoto, Trying, SenderPcs
<1>3. CASE DialShot
  BY <1>0, <1>3
  DEF AttemptInv, TriesInv, DialShot, SendGoto, Trying, SenderPcs, Shots
<1>4. CASE StreamShot
  BY <1>0, <1>4
  DEF AttemptInv, StreamShot, SendGoto, Trying, SenderPcs
<1>5. CASE CloseShot
  BY <1>0, <1>5
  DEF AttemptInv, CloseShot, SendGoto, KillShot, Trying, SenderPcs
<1>6. CASE StandDownShot
  BY <1>0, <1>6
  DEF AttemptInv, StandDownShot, Retry, KillShot, Trying, SenderPcs
<1>7. CASE FailShot
  BY <1>0, <1>7
  DEF AttemptInv, FailShot, Retry, KillShot, Trying, SenderPcs
<1>8. CASE FailRestore
  <2>1. incoming \in Shots
    BY <1>8 DEF FailRestore, RecvGoto, RestoreInv
  <2> QED
    BY <1>8, <2>1
    DEF AttemptInv, FailRestore, senderVars, Trying, SenderPcs
<1>9. CASE AcceptShot \/ ReceiveShot \/ RestoreShot \/ TearDownShot
  BY <1>9
  DEF AttemptInv, AcceptShot, ReceiveShot, RestoreShot, TearDownShot,
      senderVars, Trying
<1>10. CASE UNCHANGED shotVars
  BY <1>10 DEF AttemptInv, shotVars, senderVars, Trying
<1> QED
  BY <1>1, <1>2, <1>3, <1>4, <1>5, <1>6, <1>7, <1>8, <1>9, <1>10,
     <1>11, <1>12
  DEF ShotStep, ShotNext, SenderStep, ReceiverStep

-----------------------------------------------------------------------------
(* Counting.                                                               *)

\* Attempts with a property are finitely many.
LEMMA ShotsAreFinite ==
  ASSUME NEW S \in SUBSET Shots
  PROVE  IsFiniteSet(S) /\ Cardinality(S) \in Nat
<1>1. Count * MaxTries \in Nat
  OBVIOUS
<1>2. IsFiniteSet(Shots)
  BY <1>1, FS_Interval DEF Shots
<1> QED
  BY <1>2, FS_Subset, FS_CardinalityType

\* As long as nothing that was over comes back, the count stands.
LEMMA PastStays ==
  ASSUME SentInv, sent \in Nat, sent' = sent, Past \subseteq Past'
  PROVE  SentInv'
<1>1. Past \subseteq Shots /\ Past' \subseteq Shots
  BY DEF Past, Whole, Of
<1>2. /\ IsFiniteSet(Past') /\ Cardinality(Past') \in Nat
      /\ Cardinality(Past) \in Nat
  BY <1>1, ShotsAreFinite
<1>3. Cardinality(Past) <= Cardinality(Past')
  BY <1>2, FS_Subset
<1> QED
  BY <1>2, <1>3 DEF SentInv

\* The receiver makes no snapshot whole, and none less so.
LEMMA ReceiverKeepsWhole ==
  ASSUME AttemptInv, RestoreInv, ReceiverStep
  PROVE  Whole' = Whole /\ UNCHANGED senderVars
<1>1. CASE FailRestore
  <2>1. incoming \in Shots
    BY <1>1 DEF FailRestore, RecvGoto, RestoreInv
  <2> QED
    BY <1>1, <2>1 DEF FailRestore, AttemptInv, Whole, Of
<1>2. CASE AcceptShot \/ ReceiveShot \/ RestoreShot \/ TearDownShot
  BY <1>2 DEF AcceptShot, ReceiveShot, RestoreShot, TearDownShot, Whole, Of
<1> QED
  BY <1>1, <1>2 DEF ReceiverStep

\* A run is counted when its snapshot is whole, and each one once.
LEMMA SentStep ==
  ASSUME TriesInv, AttemptInv, RestoreInv, SentInv, ShotStep
  PROVE  SentInv'
<1>0. sent \in Nat /\ (sender \in Trying => shot \in Shots)
  BY ShotIsOne DEF TriesInv
<1>1. CASE BeginShot
  <2>1. Past \subseteq Past'
    BY <1>1
    DEF Past, Whole, Of, BeginShot, SendGoto, AttemptInv, TriesInv, Shots,
        Trying, SenderPcs
  <2> QED
    BY <1>0, <1>1, <2>1, PastStays DEF BeginShot
<1>2. CASE BootShot \/ DrainShot \/ PauseShot
  <2>1. Past \subseteq Past'
    BY <1>2
    DEF Past, Whole, Of, BootShot, DrainShot, PauseShot, SendGoto, Trying,
        SenderPcs
  <2> QED
    BY <1>0, <1>2, <2>1, PastStays DEF BootShot, DrainShot, PauseShot
<1>3. CASE DialShot \/ StreamShot
  <2>1. Past \subseteq Past'
    BY <1>0, <1>3
    DEF Past, Whole, Of, DialShot, StreamShot, SendGoto, Trying, SenderPcs,
        AttemptInv
  <2> QED
    BY <1>0, <1>3, <2>1, PastStays DEF DialShot, StreamShot
<1>4. CASE CloseShot
  <2>1. shot \in Shots /\ stream[shot] = "whole" /\ shot \notin Past
    BY <1>0, <1>4
    DEF CloseShot, SendGoto, AttemptInv, Past, Trying, SenderPcs, Shots
  <2>2. Past' = Whole
    BY <1>4 DEF CloseShot, SendGoto, Past, Whole, Of, Trying, SenderPcs
  <2>3. Past \cup {shot} \subseteq Past'
    BY <2>1, <2>2 DEF Past, Whole, Of
  <2>4. Past \subseteq Shots /\ Past' \subseteq Shots
    BY <2>2 DEF Past, Whole, Of
  <2>5. /\ IsFiniteSet(Past) /\ Cardinality(Past) \in Nat
        /\ IsFiniteSet(Past') /\ Cardinality(Past') \in Nat
    BY <2>4, ShotsAreFinite
  <2>6. Cardinality(Past \cup {shot}) = Cardinality(Past) + 1
    BY <2>1, <2>5, FS_AddElement
  <2>7. Cardinality(Past \cup {shot}) <= Cardinality(Past')
    BY <2>3, <2>5, FS_Subset
  <2>8. sent' = sent + 1
    BY <1>4 DEF CloseShot
  <2> QED
    BY <1>0, <2>5, <2>6, <2>7, <2>8 DEF SentInv
<1>5. CASE StandDownShot
  <2>1. Past \subseteq Past'
    BY <1>5 DEF Past, Whole, Of, StandDownShot, Retry, Trying, SenderPcs
  <2> QED
    BY <1>0, <1>5, <2>1, PastStays DEF StandDownShot, Retry
<1>6. CASE FailShot
  <2>1. shot \in Shots
    BY <1>0, <1>6 DEF FailShot, Trying, SenderPcs
  <2>2. Whole' = Whole
    BY <1>6, <2>1 DEF FailShot, AttemptInv, Whole, Of
  <2>3. Past \subseteq Past'
    BY <1>6, <2>2 DEF Past, FailShot, Retry, Trying, SenderPcs
  <2> QED
    BY <1>0, <1>6, <2>3, PastStays DEF FailShot, Retry
<1>7. CASE ReceiverStep
  <2>1. Past' = Past /\ sent' = sent
    BY <1>7, ReceiverKeepsWhole DEF Past, senderVars, Trying
  <2> QED
    BY <1>0, <2>1, PastStays
<1>8. CASE UNCHANGED shotVars
  <2>1. Past' = Past /\ sent' = sent
    BY <1>8 DEF shotVars, senderVars, Past, Whole, Of, Trying
  <2> QED
    BY <1>0, <2>1, PastStays
<1> QED
  BY <1>1, <1>2, <1>3, <1>4, <1>5, <1>6, <1>7, <1>8
  DEF ShotStep, ShotNext, SenderStep

-----------------------------------------------------------------------------
(* Receiving.                                                              *)

\* The receiver restores what is whole, one snapshot after another.
LEMMA RestoreStep ==
  ASSUME TriesInv, AttemptInv, RestoreInv, QueueInv, ShotStep
  PROVE  RestoreInv'
<1>0. sender \in Trying => shot \in Shots
  BY ShotIsOne
<1>1. CASE DialShot
  <2>1. shot \in Shots /\ stream[shot] = "none"
    BY <1>0, <1>1 DEF DialShot, SendGoto, AttemptInv, Trying, SenderPcs
  <2>2. backlog' \in Seq(Shots)
    BY <1>1, <2>1 DEF DialShot, RestoreInv
  <2>3. Of(copy, {"killed"})' = Of(copy, {"killed"})
    BY <1>1 DEF DialShot, receiverVars, Of
  <2> QED
    BY <1>1, <2>1, <2>2, <2>3
    DEF RestoreInv, AttemptInv, DialShot, receiverVars
<1>2. CASE StreamShot
  <2>1. Of(copy, {"killed"})' = Of(copy, {"killed"})
    BY <1>2 DEF StreamShot, receiverVars, Of
  <2> QED
    BY <1>2, <2>1 DEF RestoreInv, AttemptInv, StreamShot, receiverVars
<1>3. CASE FailShot
  <2>1. Of(copy, {"killed"})' = Of(copy, {"killed"})
    BY <1>3 DEF FailShot, receiverVars, Of
  <2>2. shot \in Shots
    BY <1>0, <1>3 DEF FailShot, Trying, SenderPcs
  <2> QED
    BY <1>3, <2>1, <2>2 DEF RestoreInv, AttemptInv, FailShot, receiverVars
<1>4. CASE \/ BeginShot \/ BootShot \/ DrainShot \/ PauseShot
           \/ CloseShot \/ StandDownShot
  <2>1. UNCHANGED <<backlog, stream, receiver, incoming, restored, copy>>
    BY <1>4 DEF BeginShot, BootShot, DrainShot, PauseShot, CloseShot,
                StandDownShot, receiverVars
  <2> QED
    BY <2>1 DEF RestoreInv, Of
<1>5. CASE AcceptShot
  <2>1. Head(backlog) \in Shots /\ Tail(backlog) \in Seq(Shots)
    BY <1>5 DEF AcceptShot, RestoreInv
  <2>2. Of(copy, {"killed"})' = Of(copy, {"killed"})
    BY <1>5 DEF AcceptShot, Of
  <2> QED
    BY <1>5, <2>1, <2>2
    DEF AcceptShot, RecvGoto, RestoreInv, ReceiverPcs
<1>6. CASE ReceiveShot
  <2>1. Of(copy, {"killed"})' = Of(copy, {"killed"})
    BY <1>6 DEF ReceiveShot, Of
  <2> QED
    BY <1>6, <2>1 DEF ReceiveShot, RecvGoto, RestoreInv, ReceiverPcs
<1>7. CASE FailRestore
  <2>1. Of(copy, {"killed"})' = Of(copy, {"killed"})
    BY <1>7 DEF FailRestore, Of
  <2> QED
    BY <1>7, <2>1 DEF FailRestore, RecvGoto, RestoreInv, ReceiverPcs
<1>8. CASE RestoreShot
  <2>1. incoming \in Shots /\ copy[incoming] = "none"
    BY <1>8 DEF RestoreShot, RecvGoto, RestoreInv, QueueInv
  <2>2. Of(copy, {"killed"})' = Of(copy, {"killed"})
    BY <1>8, <2>1 DEF RestoreShot, RestoreInv, Of
  <2> QED
    BY <1>8, <2>1, <2>2 DEF RestoreShot, RecvGoto, RestoreInv, ReceiverPcs
<1>9. CASE TearDownShot
  <2> DEFINE killed == Of(copy, {"killed"})
  <2>1. incoming \in Shots /\ copy[incoming] = "running"
    BY <1>9 DEF TearDownShot, RecvGoto, RestoreInv
  <2>2. incoming \notin killed /\ killed \subseteq Shots
    BY <2>1 DEF Of
  <2>3. killed' = killed \cup {incoming}
    BY <1>9, <2>1 DEF TearDownShot, RestoreInv, Of
  <2>4. IsFiniteSet(killed)
    BY <2>2, ShotsAreFinite
  <2>5. Cardinality(killed \cup {incoming}) = Cardinality(killed) + 1
    BY <2>2, <2>4, FS_AddElement
  <2>6. backlog' \in Seq(Shots)
    BY <1>9 DEF TearDownShot, RestoreInv
  <2>7. restored = Cardinality(killed) /\ restored \in Nat
    BY DEF RestoreInv
  <2>8. restored' = restored + 1
    BY <1>9 DEF TearDownShot
  <2> HIDE DEF killed
  <2>9. restored' = Cardinality(killed') /\ restored' \in Nat
    BY <2>3, <2>5, <2>7, <2>8
  <2> QED
    BY <1>9, <2>1, <2>6, <2>9
    DEF TearDownShot, RecvGoto, RestoreInv, ReceiverPcs, killed
<1>10. CASE UNCHANGED shotVars
  BY <1>10 DEF shotVars, receiverVars, RestoreInv, Of
<1> QED
  BY <1>1, <1>2, <1>3, <1>4, <1>5, <1>6, <1>7, <1>8, <1>9, <1>10
  DEF ShotStep, ShotNext, SenderStep, ReceiverStep

\* An attempt dials once, and what is accepted leaves the queue.
LEMMA QueueStep ==
  ASSUME TriesInv, AttemptInv, RestoreInv, QueueInv, ShotStep
  PROVE  QueueInv'
<1>0. sender \in Trying => shot \in Shots
  BY ShotIsOne
<1>1. CASE DialShot
  <2>1. shot \in Shots /\ stream[shot] = "none"
    BY <1>0, <1>1 DEF DialShot, SendGoto, AttemptInv, Trying, SenderPcs
  <2>2. copy[shot] = "none" /\ shot # incoming
    BY <2>1 DEF QueueInv, RestoreInv, ReceiverPcs, Shots
  <2> QED
    BY <1>1, <2>1, <2>2 DEF DialShot, QueueInv, RestoreInv, AttemptInv,
      receiverVars
<1>2. CASE StreamShot
  BY <1>2 DEF StreamShot, receiverVars, QueueInv, RestoreInv, AttemptInv
<1>3. CASE FailShot
  <2>1. shot \in Shots
    BY <1>0, <1>3 DEF FailShot, Trying, SenderPcs
  <2> QED
    BY <1>3, <2>1
    DEF FailShot, receiverVars, QueueInv, RestoreInv, AttemptInv
<1>4. CASE \/ BeginShot \/ BootShot \/ DrainShot \/ PauseShot
           \/ CloseShot \/ StandDownShot
  <2>1. UNCHANGED <<backlog, stream, receiver, incoming, copy>>
    BY <1>4 DEF BeginShot, BootShot, DrainShot, PauseShot, CloseShot,
                StandDownShot, receiverVars
  <2> QED
    BY <2>1 DEF QueueInv
<1>5. CASE AcceptShot
  <2>1. /\ Len(backlog) \in Nat \ {0} /\ Head(backlog) = backlog[1]
        /\ Len(backlog') = Len(backlog) - 1
        /\ \A i \in 1..Len(backlog') : backlog'[i] = backlog[i + 1]
    BY <1>5 DEF AcceptShot, RestoreInv
  <2>2. backlog[1] \in Shots
    BY <2>1 DEF RestoreInv
  <2> QED
    BY <1>5, <2>1, <2>2 DEF AcceptShot, RecvGoto, QueueInv, RestoreInv
<1>6. CASE ReceiveShot \/ RestoreShot
  BY <1>6 DEF ReceiveShot, RestoreShot, RecvGoto, QueueInv, RestoreInv
<1>7. CASE FailRestore
  BY <1>7
  DEF FailRestore, RecvGoto, QueueInv, RestoreInv, AttemptInv, Shots
<1>8. CASE TearDownShot
  BY <1>8 DEF TearDownShot, RecvGoto, QueueInv, RestoreInv, Shots
<1>9. CASE UNCHANGED shotVars
  BY <1>9 DEF shotVars, receiverVars, QueueInv
<1> QED
  BY <1>1, <1>2, <1>3, <1>4, <1>5, <1>6, <1>7, <1>8, <1>9
  DEF ShotStep, ShotNext, SenderStep, ReceiverStep

-----------------------------------------------------------------------------
\* Nothing is sent and nothing has come.
LEMMA ShotInvInit == ShotInit => ShotInv
<1> SUFFICES ASSUME ShotInit PROVE ShotInv
  OBVIOUS
<1>1. Of(stream, {"whole"}) = {} /\ Of(copy, {"killed"}) = {}
  BY DEF ShotInit, Of
<1>2. Cardinality({}) = 0
  BY FS_EmptySet
<1>3. TriesInv
  BY DEF ShotInit, TriesInv, Trying, SenderPcs
<1>4. AttemptInv
  BY DEF ShotInit, AttemptInv
<1>5. SentInv
  <2>1. Past = {}
    BY <1>1 DEF Past, Whole
  <2> QED
    BY <2>1, <1>2 DEF ShotInit, SentInv
<1>6. RestoreInv
  <2>1. receiver \in {"accept", "ended"} /\ receiver \in ReceiverPcs
    BY DEF ShotInit, ReceiverPcs
  <2>2. restored = Cardinality(Of(copy, {"killed"})) /\ restored \in Nat
    BY <1>1, <1>2 DEF ShotInit
  <2>3. backlog \in Seq(Shots)
    BY DEF ShotInit
  <2>4. /\ copy \in [Shots -> {"none", "running", "killed"}]
        /\ \A n \in Shots : copy[n] = "none"
    BY DEF ShotInit
  <2> QED
    BY <2>1, <2>2, <2>3, <2>4 DEF RestoreInv
<1>7. QueueInv
  BY DEF ShotInit, QueueInv
<1> QED
  BY <1>3, <1>4, <1>5, <1>6, <1>7 DEF ShotInv

\* One lemma a part.
LEMMA ShotInvKept == ShotInv /\ ShotStep => ShotInv'
BY TriesStep, AttemptStep, SentStep, RestoreStep, QueueStep DEF ShotInv

\* What the parts say together.
LEMMA ShotInvMeans == ShotInv => ShotsStayApart
<1> SUFFICES ASSUME ShotInv PROVE ShotsStayApart
  OBVIOUS
<1>1. \A n \in Shots : copy[n] = "running" =>
        stream[n] = "whole" /\ vm[n] # "running"
  BY DEF ShotInv, RestoreInv, AttemptInv
<1>2. \A n \in Of(vm, {"running", "paused"}) :
        n = shot /\ sender \notin {"ready", "ended", "gaveup"}
  BY DEF ShotInv, AttemptInv, Of, Trying
<1>3. restored = Cardinality(Of(copy, {"killed"}))
  BY DEF ShotInv, RestoreInv
<1>4. sent <= Cardinality(Of(stream, {"whole"}))
  <2>1. Past \subseteq Whole /\ Whole \subseteq Shots
    BY DEF Past, Whole, Of
  <2>2. /\ IsFiniteSet(Whole) /\ Cardinality(Whole) \in Nat
        /\ Cardinality(Past) \in Nat
    BY <2>1, ShotsAreFinite
  <2>3. Cardinality(Past) <= Cardinality(Whole)
    BY <2>1, <2>2, FS_Subset
  <2>4. sent \in Nat /\ sent <= Cardinality(Past)
    BY DEF ShotInv, SentInv, TriesInv
  <2> QED
    BY <2>2, <2>3, <2>4 DEF Whole
<1> QED
  BY <1>1, <1>2, <1>3, <1>4 DEF ShotsStayApart

\* bin/migrate.rs and migrate_source: for any number of runs and tries, no
\* copy runs beside its source or from half a snapshot, no attempt leaves a
\* VM behind, and neither count runs ahead of the snapshots it stands for.
THEOREM ShotsAreApart == ShotSpec => []ShotsStayApart
BY ShotInvInit, ShotInvKept, ShotInvMeans, PTL DEF ShotSpec, ShotStep

-----------------------------------------------------------------------------
(* The record of a VM.  A call under way is one the record allows, and     *)
(* until an answer is lost the VM does what the record says it does, or    *)
(* what it will say once the answer is read.                               *)

\* What a VM that is recorded so may be doing.
Does(s) ==
  CASE s = "Created" -> real = "configured"
    [] s = "Running" -> real = "running"
    [] s = "Paused" -> real = "paused"
    [] s = "Stopped" -> told

\* The record, the call under way and its answer agree.
RecordInv ==
  /\ LifeTypes
  /\ call = "none" => answer = "none"
  /\ call # "none" => state \in LegalFrom(call)
  /\ ~lost /\ real # "gone" =>
       Does(IF answer = "ok" THEN After(call) ELSE state)
  /\ ~lost => answer # "rejected"

\* A VM that is configured is recorded as created.
LEMMA RecordInit == LifeInit => RecordInv
BY DEF LifeInit, RecordInv, LifeTypes, Does, RunStates, Ops

\* A call is delivered once, and the record follows its answer.
LEMMA RecordStep ==
  ASSUME RecordInv, [LifeNext]_vmVars
  PROVE  RecordInv'
<1> USE DEF RecordInv, LifeTypes, RunStates, Ops, LegalFrom, After
<1>1. ASSUME NEW op \in Ops, Begin(op) PROVE RecordInv'
  BY <1>1 DEF Begin, Does
<1>2. CASE Deliver
  <2>1. CASE Accepts(call)
    BY <1>2, <2>1 DEF Deliver, Accepts, Perform, Does
  <2>2. CASE ~Accepts(call)
    BY <1>2, <2>2 DEF Deliver, Accepts, Does
  <2> QED
    BY <2>1, <2>2
<1>3. CASE Succeed
  BY <1>3 DEF Succeed, Finish, Does
<1>4. CASE Reject
  BY <1>4 DEF Reject, Finish, Does
<1>5. CASE Unreachable
  BY <1>5 DEF Unreachable, Finish, Does
<1>6. CASE PowerOff
  BY <1>6 DEF PowerOff
<1>7. CASE UNCHANGED vmVars
  BY <1>7 DEF vmVars, Does
<1> QED
  BY <1>1, <1>2, <1>3, <1>4, <1>5, <1>6, <1>7 DEF LifeNext

\* What the record promises of the VM.
LEMMA RecordMeans == RecordInv => RecordIsReal
BY DEF RecordInv, RecordIsReal, Does

\* vm.rs, Vm::boot, pause, resume and shutdown: unless an answer was lost, a VM
\* recorded as running runs and one recorded as paused is paused, and a call
\* that the record allows is never refused.
THEOREM RecordsAreReal == LifeSpec => []RecordIsReal
<1>1. RecordInv /\ [LifeNext]_vmVars => RecordInv'
  BY RecordStep
<1> QED
  BY RecordInit, RecordMeans, <1>1, PTL DEF LifeSpec

-----------------------------------------------------------------------------
(* The rest of the types of the one-shot commands.                         *)

\* A receiver that goes on has runs left, and a directory is an attempt's.
ShotRest ==
  /\ shot \in 0..Count * MaxTries
  /\ work \subseteq Shots /\ spoilt \subseteq Shots
  /\ restored \in 0..Count
  /\ receiver # "ended" => restored < Count

\* What is known of the two commands.
ShotAll == ShotInv /\ ShotRest

\* Each call of migrate_source is one of the attempts.
LEMMA ShotRestKept ==
  ASSUME ShotAll, ShotInv', ShotStep
  PROVE  ShotRest'
<1> USE DEF ShotRest
<1>1. CASE BeginShot
  <2>1. sender' = "boot" /\ shot' = shot + 1
    BY <1>1 DEF BeginShot, SendGoto
  <2>2. TriesInv' /\ (sender \in Trying)'
    BY <2>1 DEF ShotInv, Trying, SenderPcs
  <2>3. (shot \in Shots)'
    BY <2>2, ShotIsOne, PTL
  <2>4. shot' \in Shots /\ work' = work \cup {shot'}
    BY <1>1, <2>3 DEF BeginShot, Shots
  <2> QED
    BY <1>1, <2>4 DEF BeginShot, ShotAll, receiverVars, Shots
<1>2. CASE \/ BootShot \/ DrainShot \/ PauseShot \/ DialShot \/ StreamShot
           \/ CloseShot \/ StandDownShot \/ FailShot
  <2>1. UNCHANGED <<shot, receiverVars>> /\ work' \subseteq work
    BY <1>2
    DEF BootShot, DrainShot, PauseShot, DialShot, StreamShot, CloseShot,
        StandDownShot, FailShot, Retry
  <2> QED
    BY <2>1 DEF ShotAll, receiverVars, Shots
<1>3. CASE FailRestore
  <2>1. incoming \in Shots
    BY <1>3 DEF FailRestore, RecvGoto, ShotAll, ShotInv, RestoreInv
  <2>2. spoilt' \subseteq Shots
    BY <1>3, <2>1 DEF FailRestore, ShotAll
  <2>3. UNCHANGED <<shot, work, restored>> /\ receiver # "ended"
    BY <1>3 DEF FailRestore, RecvGoto, senderVars
  <2> QED
    BY <2>2, <2>3 DEF ShotAll, Shots
<1>4. CASE AcceptShot \/ ReceiveShot \/ RestoreShot
  <2>1. UNCHANGED <<shot, work, restored, spoilt>> /\ receiver # "ended"
    BY <1>4 DEF AcceptShot, ReceiveShot, RestoreShot, RecvGoto, senderVars
  <2> QED
    BY <2>1 DEF ShotAll, Shots
<1>5. CASE TearDownShot
  <2>1. /\ UNCHANGED <<shot, work, spoilt>> /\ receiver = "teardown"
        /\ restored' = restored + 1
        /\ receiver' = IF restored + 1 < Count THEN "accept" ELSE "ended"
    BY <1>5 DEF TearDownShot, RecvGoto, senderVars
  <2>2. restored < Count /\ restored \in 0..Count
    BY <2>1 DEF ShotAll
  <2>3. restored' \in 0..Count /\ (receiver' # "ended" => restored' < Count)
    BY <2>1, <2>2
  <2> QED
    BY <2>1, <2>3 DEF ShotAll, Shots
<1>6. CASE UNCHANGED shotVars
  BY <1>6 DEF shotVars, senderVars, receiverVars, ShotAll, Shots
<1> QED
  BY <1>1, <1>2, <1>3, <1>4, <1>5, <1>6
  DEF ShotStep, ShotNext, SenderStep, ReceiverStep

\* Before the first attempt nothing is there.
LEMMA ShotAllInit == ShotInit => ShotAll
<1> SUFFICES ASSUME ShotInit PROVE ShotAll
  OBVIOUS
<1>1. Count * MaxTries \in Nat
  OBVIOUS
<1>2. ShotRest
  BY <1>1 DEF ShotInit, ShotRest
<1> QED
  BY <1>2, ShotInvInit DEF ShotAll

\* A step of either command keeps all of it.
LEMMA ShotAllKept == ShotAll /\ [ShotNext]_shotVars => ShotAll'
BY ShotInvKept, ShotRestKept DEF ShotAll, ShotStep

\* The commands' types and their promise.
LEMMA ShotAllMeans == ShotAll => ShotTypes /\ ShotsStayApart
<1> SUFFICES ASSUME ShotAll PROVE ShotTypes /\ ShotsStayApart
  OBVIOUS
<1>1. sender \in SenderPcs /\ attempt \in 0..MaxTries /\ sent \in 0..Count
  BY DEF ShotAll, ShotInv, TriesInv
<1>2. /\ vm \in [Shots -> {"none", "running", "paused", "killed"}]
      /\ stream \in [Shots -> {"none", "open", "whole", "cut"}]
  BY DEF ShotAll, ShotInv, AttemptInv
<1>3. /\ receiver \in ReceiverPcs /\ backlog \in Seq(Shots)
      /\ copy \in [Shots -> {"none", "running", "killed"}]
  BY DEF ShotAll, ShotInv, RestoreInv
<1>4. incoming \in Shots \cup {0}
  BY DEF ShotAll, ShotInv, QueueInv
<1>5. /\ shot \in 0..Count * MaxTries /\ restored \in 0..Count
      /\ work \subseteq Shots /\ spoilt \subseteq Shots
  BY DEF ShotAll, ShotRest
<1>6. ShotTypes
  BY <1>1, <1>2, <1>3, <1>4, <1>5 DEF ShotTypes
<1> QED
  BY <1>6, ShotInvMeans DEF ShotAll

-----------------------------------------------------------------------------
(* The four together.                                                      *)

PartsInv == DriveAll /\ RecordInv /\ ShotAll /\ CycleAll

\* Whichever runs, each of the four steps or stutters.
LEMMA EachSteps ==
  ASSUME [Next]_partVars
  PROVE  /\ [DriveNext]_vars /\ [LifeNext]_vmVars
         /\ [ShotNext]_shotVars /\ [CycleNext]_cycleVars
<1>1. CASE InDrive /\ DriveNext
  BY <1>1 DEF InDrive
<1>2. CASE InLife /\ LifeNext
  BY <1>2 DEF InLife
<1>3. CASE InShot /\ ShotNext
  BY <1>3 DEF InShot
<1>4. CASE InCycle /\ CycleNext
  BY <1>4 DEF InCycle
<1>5. CASE UNCHANGED partVars
  BY <1>5 DEF partVars
<1> QED
  BY <1>1, <1>2, <1>3, <1>4, <1>5 DEF Next

\* What is known of each holds wherever they run.
LEMMA PartsInvHolds == Spec => []PartsInv
<1>1. Init => PartsInv
  BY DriveAllInit, RecordInit, ShotAllInit, CycleAllInit DEF Init, PartsInv
<1>2. PartsInv /\ [Next]_partVars => PartsInv'
  BY EachSteps, DriveAllKept, RecordStep, ShotAllKept, CycleAllKept
  DEF PartsInv
<1> QED
  BY <1>1, <1>2, PTL DEF Spec

\* All four keep their types, for any window, number of runs, tries, cycles,
\* pages, writes and crashes: no count of bin/migrate.rs runs past what was
\* asked for, and what a page server takes from its queue is a thread that
\* waits for a page of its VM (uffd.rs).
THEOREM PartsAreTyped == Spec => []TypeOK
<1>1. PartsInv => TypeOK
  BY DriveAllMeans, ShotAllMeans, CycleAllMeans
  DEF PartsInv, RecordInv, TypeOK
<1> QED
  BY <1>1, PartsInvHolds, PTL

\* The promises of the four, as theorems of the specification that the runs
\* check, whose behaviours are of one of them at a time.
THEOREM PartsKeepPromises ==
  Spec => [](/\ TurnNeverCut /\ OutcomeIsTrue /\ VerdictIsEarned
             /\ RecordIsReal /\ ShotsStayApart
             /\ MemorySurvives /\ SpawnedListens /\ NothingLeftBehind)
<1>1. PartsInv => /\ TurnNeverCut /\ OutcomeIsTrue /\ VerdictIsEarned
                  /\ RecordIsReal /\ ShotsStayApart
                  /\ MemorySurvives /\ SpawnedListens /\ NothingLeftBehind
  BY DriveAllMeans, RecordMeans, ShotAllMeans, CycleAllMeans DEF PartsInv
<1> QED
  BY <1>1, PartsInvHolds, PTL

=============================================================================
