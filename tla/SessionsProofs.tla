--------------------------- MODULE SessionsProofs ---------------------------
(***************************************************************************)
(* Proofs about Sessions for every value of its constants: types, that the *)
(* tracker follows the child, and that a turn it had counted is never      *)
(* frozen.                                                                 *)
(***************************************************************************)
EXTENDS Sessions, TLAPS

USE DEF childVars, guestVars, wireVars, hostVars

\* Where a spawn or a move stands decides what it may hold.
HostHolds ==
  /\ pc = "dialing" => links < MaxLinks
  /\ pc \in {"greeting", "draining"} => link \in Links
  /\ power = "paused" => pc = "frozen"

\* Every message hostd or guestd sends is one its end may receive.
LEMMA MessageTypes ==
  /\ \A type \in {"Hello", "Resumed"} : Say(type) \in GuestToHost
  /\ task \in Tasks =>
       \A type \in {"Secrets", "DrainRequest", "DrainCancel"} :
         Tell(type) \in HostToGuest
BY DEF Say, Tell, GuestToHost, HostToGuest

\* A tracker's answer is a message.
LEMMA AckType ==
  ASSUME NEW t \in Turns
  PROVE  [type |-> "DrainAck", inFlight |-> InFlight(t), upTo |-> t.lastId]
           \in GuestToHost
BY DEF InFlight, Turns, GuestToHost

\* One line takes one turn state to another.
LEMMA ApplyType ==
  ASSUME NEW t \in Turns, NEW sig \in Signals
  PROVE  Apply(t, sig) \in Turns
BY DEF Apply, Turns, Signals

\* Taking the oldest message off one link keeps the others.
LEMMA TakeType ==
  ASSUME NEW S, NEW w \in [Links -> Seq(S)], NEW k \in Links, w[k] # <<>>
  PROVE  /\ Head(w[k]) \in S
         /\ [w EXCEPT ![k] = Tail(@)] \in [Links -> Seq(S)]
OBVIOUS

\* So does adding one.
LEMMA PutType ==
  ASSUME NEW S, NEW w \in [Links -> Seq(S)], NEW k \in Links, NEW m \in S
  PROVE  [w EXCEPT ![k] = Append(@, m)] \in [Links -> Seq(S)]
OBVIOUS

\* A loop that takes a connection keeps the types.
LEMMA ServeType ==
  ASSUME TypeOK, NEW t \in Transports, NEW k \in Links, Serve(t, k)
  PROVE  /\ session' \in [Transports -> LinkOrNone]
         /\ stage' \in [Transports -> {"handshake", "serving"}]
         /\ toHost' \in [Links -> Seq(GuestToHost)]
<1>1. <<Say("Hello")>> \in Seq(GuestToHost)
  BY MessageTypes
<1> QED
  BY <1>1 DEF TypeOK, Serve, LinkOrNone

\* So does a message that a loop reads.
LEMMA HeardType ==
  ASSUME TypeOK, NEW t \in Transports, NEW type, Heard(t, type)
  PROVE  /\ session[t] \in Links
         /\ Head(toGuest[session[t]]) \in HostToGuest
         /\ toGuest' \in [Links -> Seq(HostToGuest)]
<1>1. session[t] \in Links
  BY DEF TypeOK, Heard, LinkOrNone
<1> QED
  BY <1>1, TakeType DEF TypeOK, Heard

\* And one that the host reads.
LEMMA ReplyType ==
  ASSUME TypeOK, link \in Links, NEW type, Reply(type)
  PROVE  /\ Head(toHost[link]) \in GuestToHost
         /\ toHost' \in [Links -> Seq(GuestToHost)]
BY TakeType DEF TypeOK, Reply

\* And those that the host posts.
LEMMA PostType ==
  ASSUME TypeOK, link \in Links, NEW msgs \in Seq(HostToGuest), Post(msgs)
  PROVE  toGuest' \in [Links -> Seq(HostToGuest)]
<1>1. toGuest[link] \o msgs \in Seq(HostToGuest)
  BY DEF TypeOK
<1> QED
  BY <1>1 DEF TypeOK, Post

----------------------------------------------------------------------------
\* Every step keeps the types.
LEMMA TypeInductive ==
  TypeOK /\ HostHolds /\ [Next]_vars => TypeOK'
<1> SUFFICES ASSUME TypeOK, HostHolds, [Next]_vars PROVE TypeOK'
  OBVIOUS
<1> USE LinkAssumption DEF TypeOK
<1>1. ASSUME NEW sig \in Signals, ChildPrints(sig) PROVE TypeOK'
  <2>1. work' \in Turns
    BY <1>1 DEF ChildPrints, Turns, Signals
  <2>2. [sig |-> sig, after |-> work'] \in Lines
    BY <2>1 DEF Lines
  <2>3. pipe' \in Seq(Lines)
    BY <1>1, <2>2 DEF ChildPrints
  <2> QED
    BY <1>1, <2>1, <2>3 DEF ChildPrints
<1>2. CASE ChildExits
  BY <1>2 DEF ChildExits
<1>3. CASE ReadLine
  <2>1. Head(pipe) \in Lines /\ pipe' \in Seq(Lines)
    BY <1>3 DEF ReadLine
  <2>2. tracker' \in Turns
    BY <1>3, <2>1, ApplyType DEF ReadLine, Lines
  <2> QED
    BY <1>3, <2>1, <2>2 DEF ReadLine
<1>4. CASE AcceptTcp
  <2>1. Head(backlog) \in Links /\ backlog' \in Seq(Links)
    BY <1>4 DEF AcceptTcp
  <2>2. "tcp" \in Transports
    BY DEF Transports
  <2>3. /\ session' \in [Transports -> LinkOrNone]
        /\ stage' \in [Transports -> {"handshake", "serving"}]
        /\ toHost' \in [Links -> Seq(GuestToHost)]
    BY <1>4, <2>1, <2>2, ServeType DEF AcceptTcp
  <2> QED
    BY <1>4, <2>1, <2>3 DEF AcceptTcp
<1>5. ASSUME NEW t \in Transports, Handshaken(t) PROVE TypeOK'
  <2>1. /\ session[t] \in Links
        /\ Head(toGuest[session[t]]) \in HostToGuest
        /\ toGuest' \in [Links -> Seq(HostToGuest)]
    BY <1>5, HeardType DEF Handshaken
  <2>2. Head(toGuest[session[t]]).from \in Tasks
    BY <2>1 DEF HostToGuest
  <2>3. Say("Resumed") \in GuestToHost
    BY MessageTypes
  <2>4. toHost' \in [Links -> Seq(GuestToHost)]
    <3>1. \/ toHost' = toHost
          \/ toHost' = [toHost EXCEPT ![session[t]] =
                          Append(@, Say("Resumed"))]
      BY <1>5 DEF Handshaken
    <3>2. [toHost EXCEPT ![session[t]] = Append(@, Say("Resumed"))]
            \in [Links -> Seq(GuestToHost)]
      BY <2>1, <2>3, PutType
    <3> QED
      BY <3>1, <3>2
  <2>5. stage' \in [Transports -> {"handshake", "serving"}]
    BY <1>5 DEF Handshaken
  <2>6. child' \in {"waiting", "alive", "gone"} /\ env' \in Tasks \cup {"none"}
    BY <1>5, <2>2 DEF Handshaken
  <2>7. first' \in BOOLEAN
    BY <1>5 DEF Handshaken
  <2> QED
    BY <1>5, <2>1, <2>4, <2>5, <2>6, <2>7 DEF Handshaken
<1>6. ASSUME NEW t \in Transports, AnswerDrain(t) PROVE TypeOK'
  <2>1. session[t] \in Links /\ toGuest' \in [Links -> Seq(HostToGuest)]
    BY <1>6, HeardType DEF AnswerDrain
  <2>2. toHost' \in [Links -> Seq(GuestToHost)]
    BY <1>6, <2>1, AckType, PutType DEF AnswerDrain
  <2> QED
    BY <1>6, <2>1, <2>2 DEF AnswerDrain
<1>7. ASSUME NEW t \in Transports, IgnoreCancel(t) PROVE TypeOK'
  BY <1>7, HeardType DEF IgnoreCancel
<1>8. ASSUME NEW t \in Transports, SessionEnds(t) PROVE TypeOK'
  BY <1>8 DEF SessionEnds, LinkOrNone
<1>9. CASE StartMove
  BY <1>9 DEF StartMove, Tasks
<1>10. CASE Connect
  <2> DEFINE k == links + 1
  <2>1. k \in Links /\ k \in 0..MaxLinks /\ k \in LinkOrNone
    BY <1>10 DEF Connect, HostHolds, Links, LinkOrNone
  <2>2. "vsock" \in Transports
    BY DEF Transports
  <2>3. /\ session' \in [Transports -> LinkOrNone]
        /\ stage' \in [Transports -> {"handshake", "serving"}]
        /\ toHost' \in [Links -> Seq(GuestToHost)]
        /\ backlog' \in Seq(Links)
    <3>1. Append(backlog, k) \in Seq(Links)
      BY <2>1
    <3>2. CASE task = "move" /\ vm.via = "tcp" /\ backlog' = Append(backlog, k)
                 /\ UNCHANGED <<session, stage, toHost>>
      BY <3>1, <3>2
    <3>3. CASE Serve("vsock", k) /\ UNCHANGED backlog
      BY <2>1, <2>2, <3>3, ServeType
    <3> QED
      BY <1>10, <3>2, <3>3 DEF Connect
  <2> QED
    BY <1>10, <2>1, <2>3 DEF Connect
<1>11. CASE GiveUpDialing
  BY <1>11 DEF GiveUpDialing
<1>12. CASE Greeted
  <2>1. link \in Links
    BY <1>12 DEF Greeted, HostHolds
  <2>2. toHost' \in [Links -> Seq(GuestToHost)]
    BY <1>12, <2>1, ReplyType DEF Greeted
  <2>3. /\ <<Tell("Secrets")>> \in Seq(HostToGuest)
        /\ <<Tell("Secrets"), Tell("DrainRequest")>> \in Seq(HostToGuest)
    BY MessageTypes
  <2>4. toGuest' \in [Links -> Seq(HostToGuest)]
    BY <1>12, <2>1, <2>3, PostType DEF Greeted
  <2> QED
    BY <1>12, <2>2, <2>4 DEF Greeted, HangUp
<1>13. CASE SkipReply
  BY <1>13, ReplyType DEF SkipReply, HostHolds
<1>14. CASE StandDown
  <2>1. link \in Links
    BY <1>14 DEF StandDown, HostHolds
  <2>2. toHost' \in [Links -> Seq(GuestToHost)]
    BY <1>14, <2>1, ReplyType DEF StandDown
  <2>3. <<Tell("DrainCancel")>> \in Seq(HostToGuest)
    BY MessageTypes
  <2>4. toGuest' \in [Links -> Seq(HostToGuest)]
    BY <1>14, <2>1, <2>3, PostType DEF StandDown
  <2> QED
    BY <1>14, <2>2, <2>4 DEF StandDown, HangUp
<1>15. CASE DrainTimesOut
  BY <1>15 DEF DrainTimesOut, HangUp
<1>16. CASE GuestQuiet
  <2>1. link \in Links
    BY <1>16 DEF GuestQuiet, HostHolds
  <2>2. Head(toHost[link]) \in GuestToHost
          /\ toHost' \in [Links -> Seq(GuestToHost)]
    BY <1>16, <2>1, ReplyType DEF GuestQuiet
  <2>3. seen' \in Nat
    BY <1>16, <2>2 DEF GuestQuiet, GuestToHost
  <2> QED
    BY <1>16, <2>2, <2>3 DEF GuestQuiet, HangUp
<1>17. CASE Pause
  BY <1>17 DEF Pause
<1>18. CASE Restored
  <2>1. toGuest' \in [Links -> Seq(HostToGuest)]
    <3>1. <<>> \in Seq(HostToGuest)
      OBVIOUS
    <3> QED
      BY <1>18, <3>1 DEF Restored
  <2> QED
    BY <1>18, <2>1 DEF Restored
<1>19. CASE Lost
  BY <1>19 DEF Lost
<1>20. CASE UNCHANGED vars
  BY <1>20 DEF vars
<1> QED
  BY <1>1, <1>2, <1>3, <1>4, <1>5, <1>6, <1>7, <1>8, <1>9, <1>10, <1>11,
     <1>12, <1>13, <1>14, <1>15, <1>16, <1>17, <1>18, <1>19, <1>20
     DEF Next, ChildStep, GuestStep, HostStep

\* Every step keeps what the host's stage promises.
LEMMA HostInductive ==
  TypeOK /\ HostHolds /\ [Next]_vars => HostHolds'
<1> SUFFICES ASSUME TypeOK, HostHolds, [Next]_vars PROVE HostHolds'
  OBVIOUS
<1> USE LinkAssumption DEF HostHolds
<1>1. CASE ChildStep \/ ReadLine
  BY <1>1 DEF ChildStep, ChildPrints, ChildExits, ReadLine
<1>2. CASE AcceptTcp \/ \E t \in Transports : GuestStep(t)
  BY <1>2 DEF AcceptTcp, GuestStep, Handshaken, AnswerDrain, IgnoreCancel,
              SessionEnds
<1>3. CASE StartMove
  BY <1>3 DEF StartMove, Up
<1>4. CASE Connect
  BY <1>4 DEF Connect, TypeOK, Links
<1>5. CASE GiveUpDialing \/ Greeted \/ SkipReply
  BY <1>5 DEF GiveUpDialing, Greeted, SkipReply
<1>6. CASE StandDown \/ DrainTimesOut \/ GuestQuiet
  BY <1>6 DEF StandDown, DrainTimesOut, GuestQuiet
<1>7. CASE Pause \/ Restored \/ Lost
  BY <1>7 DEF Pause, Restored, Lost
<1>8. CASE UNCHANGED vars
  BY <1>8 DEF vars
<1> QED
  BY <1>1, <1>2, <1>3, <1>4, <1>5, <1>6, <1>7, <1>8 DEF Next, HostStep

\* The initial state is well typed, and no spawn dials beyond the bound.
LEMMA TypeInit == Init => TypeOK /\ HostHolds
<1> SUFFICES ASSUME Init PROVE TypeOK /\ HostHolds
  OBVIOUS
<1>1. Nothing \in Turns
  BY DEF Nothing, Turns
<1>2. /\ pipe \in Seq(Lines) /\ backlog \in Seq(Links)
      /\ toGuest \in [Links -> Seq(HostToGuest)]
      /\ toHost \in [Links -> Seq(GuestToHost)]
  BY DEF Init
<1>3. /\ session \in [Transports -> LinkOrNone]
      /\ stage \in [Transports -> {"handshake", "serving"}]
      /\ link \in LinkOrNone
  BY DEF Init, LinkOrNone
<1>4. child \in {"waiting", "alive", "gone"} /\ pc \in {"idle", "dialing"}
  BY DEF Init
<1>5. links \in 0..MaxLinks
  BY LinkAssumption DEF Init
<1>6. TypeOK
  BY <1>1, <1>2, <1>3, <1>4, <1>5 DEF Init, TypeOK, Tasks
<1>7. HostHolds
  BY LinkAssumption DEF Init, HostHolds
<1> QED
  BY <1>6, <1>7

\* Every reachable state is well typed.
THEOREM SessionsTypeOK == Spec => []TypeOK
<1>1. TypeOK /\ HostHolds /\ [Next]_vars => (TypeOK /\ HostHolds)'
  BY TypeInductive, HostInductive
<1> QED
  BY <1>1, TypeInit, PTL DEF Spec

----------------------------------------------------------------------------
\* One turn state may follow another: ids only grow, and a turn once closed
\* is not reopened under its id.
Later(s, t) ==
  t.lastId > s.lastId \/ (t.lastId = s.lastId /\ (t.inTurn => s.inTurn))

\* Turn m is over in state s.
Past(s, m) == s.lastId > m \/ (s.lastId = m /\ ~s.inTurn)

\* The turn states of the unread lines follow each other.
Ordered ==
  \A i, j \in 0..Len(pipe) : i <= j => Later(After[i], After[j])

\* An answer that names no turn was given between turns, and what was over
\* then is over.
AckHolds(m, t) ==
  (m.type = "DrainAck" /\ m.inFlight = NoTurn) => Past(t, m.upTo)
Sent == UNION {{toHost[k][i] : i \in 1..Len(toHost[k])} : k \in Links}
AcksHold == \A m \in Sent : AckHolds(m, tracker)

\* So is what the host was told when it decided to pause.
SeenHolds == pc \in {"quiet", "frozen"} => Past(tracker, seen)

\* A line takes a turn state to a later one, and later states are later still.
LEMMA LaterFacts ==
  /\ \A t \in Turns : Later(t, t)
  /\ \A t \in Turns, sig \in Signals : Later(t, Apply(t, sig))
  /\ \A s, t, u \in Turns : Later(s, t) /\ Later(t, u) => Later(s, u)
BY DEF Later, Turns, Signals, Apply

\* What is over stays over.
LEMMA PastStays ==
  ASSUME NEW s \in Turns, NEW t \in Turns, NEW m \in Nat, Past(s, m),
         Later(s, t)
  PROVE  Past(t, m)
BY DEF Past, Later, Turns

\* The turn states of the unread lines are turn states.
LEMMA AfterType ==
  ASSUME TypeOK, NEW i \in 0..Len(pipe)
  PROVE  After[i] \in Turns
<1>1. i # 0 => pipe[i] \in Lines
  BY DEF TypeOK
<1>2. After[i] = IF i = 0 THEN tracker ELSE pipe[i].after
  BY DEF After
<1> QED
  BY <1>1, <1>2 DEF TypeOK, Lines

\* A printed line is the last one unread.
LEMMA Printed ==
  ASSUME TypeOK, TrackerFollowsChild, NEW sig \in Signals, ChildPrints(sig)
  PROVE  /\ Len(pipe') = Len(pipe) + 1
         /\ \A i \in 0..Len(pipe) : After'[i] = After[i]
         /\ \A i \in 1..Len(pipe) : pipe'[i] = pipe[i]
         /\ work' = Apply(work, sig) /\ After'[Len(pipe) + 1] = work'
         /\ pipe'[Len(pipe) + 1].sig = sig
<1>1. work' = Apply(work, sig)
  BY DEF ChildPrints, Apply
<1>2. /\ pipe' = Append(pipe, [sig |-> sig, after |-> work'])
      /\ tracker' = tracker
  BY DEF ChildPrints
<1>3. pipe \in Seq(Lines) /\ Len(pipe) \in Nat
  BY DEF TypeOK
<1>4. /\ Len(pipe') = Len(pipe) + 1
      /\ \A i \in 1..Len(pipe) : pipe'[i] = pipe[i]
      /\ pipe'[Len(pipe) + 1] = [sig |-> sig, after |-> work']
  BY <1>2, <1>3
<1> QED
  BY <1>1, <1>2, <1>3, <1>4 DEF After

\* Reading a line moves every other one forward.
LEMMA WasRead ==
  ASSUME TypeOK, TrackerFollowsChild, ReadLine
  PROVE  /\ Len(pipe) = Len(pipe') + 1 /\ Len(pipe') \in Nat
         /\ \A i \in 1..Len(pipe') : pipe'[i] = pipe[i + 1]
         /\ \A i \in 0..Len(pipe') : After'[i] = After[i + 1]
<1>1. pipe \in Seq(Lines) /\ pipe # <<>> /\ pipe' = Tail(pipe)
  BY DEF TypeOK, ReadLine
<1>2. /\ Len(pipe) = Len(pipe') + 1 /\ Len(pipe') \in Nat
      /\ \A i \in 1..Len(pipe') : pipe'[i] = pipe[i + 1]
      /\ Head(pipe) = pipe[1]
  BY <1>1
<1>3. tracker' = After[1]
  <2>1. 1 \in 1..Len(pipe) /\ After[0] = tracker
    BY <1>2 DEF After
  <2>2. After[1] = Apply(After[1 - 1], pipe[1].sig)
    BY <2>1 DEF TrackerFollowsChild
  <2> QED
    BY <1>2, <2>1, <2>2 DEF ReadLine
<1> QED
  BY <1>2, <1>3 DEF After

\* Only the child and its reader touch the lines.
LEMMA LinesKept ==
  ASSUME [Next]_vars
  PROVE  \/ \E sig \in Signals : ChildPrints(sig)
         \/ ReadLine
         \/ UNCHANGED <<work, pipe, tracker>>
BY DEF Next, vars, ChildStep, ChildExits, AcceptTcp, StartMove, HostStep,
       Connect, GiveUpDialing, Greeted, SkipReply, StandDown, DrainTimesOut,
       GuestQuiet, Pause, Restored, Lost, GuestStep, Handshaken, AnswerDrain,
       IgnoreCancel, SessionEnds

\* The tracker goes on following the child.
LEMMA FollowsInductive ==
  TypeOK /\ TrackerFollowsChild /\ [Next]_vars => TrackerFollowsChild'
<1> SUFFICES ASSUME TypeOK, TrackerFollowsChild, [Next]_vars
             PROVE  TrackerFollowsChild'
  OBVIOUS
<1>1. Len(pipe) \in Nat
  BY DEF TypeOK
<1>2. ASSUME NEW sig \in Signals, ChildPrints(sig) PROVE TrackerFollowsChild'
  <2>1. ASSUME NEW i \in 1..Len(pipe)
        PROVE  After'[i] = Apply(After'[i - 1], pipe'[i].sig)
    BY <1>1, <1>2, <2>1, Printed DEF TrackerFollowsChild
  <2>2. After'[Len(pipe) + 1] =
          Apply(After'[Len(pipe)], pipe'[Len(pipe) + 1].sig)
    BY <1>1, <1>2, Printed DEF TrackerFollowsChild
  <2>3. \A i \in 1..Len(pipe') :
          After'[i] = Apply(After'[i - 1], pipe'[i].sig)
    BY <1>1, <1>2, <2>1, <2>2, Printed
  <2>4. After'[Len(pipe)] = After[Len(pipe)] /\ After'[Len(pipe')] = work'
    BY <1>1, <1>2, Printed
  <2> QED
    BY <2>3, <2>4 DEF TrackerFollowsChild
<1>3. CASE ReadLine
  <2>1. ASSUME NEW i \in 1..Len(pipe')
        PROVE  After'[i] = Apply(After'[i - 1], pipe'[i].sig)
    BY <1>3, <2>1, WasRead DEF TrackerFollowsChild
  <2>2. After'[Len(pipe')] = work'
    BY <1>3, WasRead DEF TrackerFollowsChild, ReadLine
  <2> QED
    BY <2>1, <2>2 DEF TrackerFollowsChild
<1>4. CASE UNCHANGED <<work, pipe, tracker>>
  BY <1>4 DEF TrackerFollowsChild, After
<1> QED
  BY <1>2, <1>3, <1>4, LinesKept

\* The turn states of the unread lines go on following each other.
LEMMA OrderedInductive ==
  TypeOK /\ TrackerFollowsChild /\ Ordered /\ [Next]_vars => Ordered'
<1> SUFFICES ASSUME TypeOK, TrackerFollowsChild, Ordered, [Next]_vars
             PROVE  Ordered'
  OBVIOUS
<1>1. Len(pipe) \in Nat
  BY DEF TypeOK
<1>2. ASSUME NEW sig \in Signals, ChildPrints(sig) PROVE Ordered'
  <2> SUFFICES ASSUME NEW i \in 0..Len(pipe'), NEW j \in 0..Len(pipe'), i <= j
               PROVE  Later(After'[i], After'[j])
    BY DEF Ordered
  <2>1. work \in Turns /\ Apply(work, sig) \in Turns
    BY ApplyType DEF TypeOK
  <2>2. CASE j # Len(pipe) + 1
    BY <1>1, <1>2, <2>2, Printed DEF Ordered
  <2>3. CASE i # Len(pipe) + 1 /\ j = Len(pipe) + 1
    <3>1. Later(After[i], work)
      BY <1>1, <1>2, <2>3, Printed DEF Ordered, TrackerFollowsChild
    <3>2. After[i] \in Turns /\ After'[i] = After[i]
      BY <1>1, <1>2, <2>3, Printed, AfterType
    <3>3. After'[j] = Apply(work, sig)
      BY <1>2, <2>3, Printed
    <3> QED
      BY <2>1, <3>1, <3>2, <3>3, LaterFacts
  <2>4. CASE i = Len(pipe) + 1 /\ j = Len(pipe) + 1
    BY <1>2, <2>1, <2>4, Printed, LaterFacts
  <2> QED
    BY <1>1, <1>2, <2>2, <2>3, <2>4, Printed
<1>3. CASE ReadLine
  <2> SUFFICES ASSUME NEW i \in 0..Len(pipe'), NEW j \in 0..Len(pipe'), i <= j
               PROVE  Later(After'[i], After'[j])
    BY DEF Ordered
  <2>1. /\ i + 1 \in 0..Len(pipe) /\ j + 1 \in 0..Len(pipe)
        /\ i + 1 <= j + 1
    BY <1>3, WasRead
  <2>2. After'[i] = After[i + 1] /\ After'[j] = After[j + 1]
    BY <1>3, WasRead
  <2> QED
    BY <2>1, <2>2 DEF Ordered
<1>4. CASE UNCHANGED <<work, pipe, tracker>>
  BY <1>4 DEF Ordered, After
<1> QED
  BY <1>2, <1>3, <1>4, LinesKept

\* The tracker only moves on.
LEMMA TrackerMovesOn ==
  ASSUME TypeOK, [Next]_vars
  PROVE  Later(tracker, tracker')
<1>1. CASE ReadLine
  <2>1. Head(pipe) \in Lines
    BY <1>1 DEF TypeOK, ReadLine
  <2> QED
    BY <1>1, <2>1, LaterFacts DEF TypeOK, ReadLine, Lines
<1>2. CASE tracker' = tracker
  BY <1>2, LaterFacts DEF TypeOK
<1>3. ASSUME NEW sig \in Signals, ChildPrints(sig) PROVE tracker' = tracker
  BY <1>3 DEF ChildPrints
<1> QED
  BY <1>1, <1>2, <1>3, LinesKept

----------------------------------------------------------------------------
\* The answer of the tracker as it stands.
AckNow == [type |-> "DrainAck", inFlight |-> InFlight(tracker),
           upTo |-> tracker.lastId]

\* Reading a message sends none.
LEMMA ReplySends ==
  ASSUME TypeOK, link \in Links, NEW type, Reply(type)
  PROVE  Head(toHost[link]) \in Sent /\ Sent' \subseteq Sent
<1>1. /\ toHost[link] \in Seq(GuestToHost) /\ toHost[link] # <<>>
      /\ toHost' = [toHost EXCEPT ![link] = Tail(@)]
  BY DEF TypeOK, Reply
<1>2. Head(toHost[link]) \in Sent
  <2>1. Head(toHost[link]) = toHost[link][1] /\ 1 \in 1..Len(toHost[link])
    BY <1>1
  <2> QED
    BY <2>1 DEF Sent
<1>3. ASSUME NEW k \in Links, NEW i \in 1..Len(toHost'[k])
      PROVE  toHost'[k][i] \in Sent
  <2>1. CASE k = link
    <3>1. /\ toHost'[k] = Tail(toHost[link])
          /\ toHost'[k][i] = toHost[link][i + 1]
          /\ i + 1 \in 1..Len(toHost[link])
      BY <1>1, <2>1 DEF TypeOK
    <3> QED
      BY <3>1 DEF Sent
  <2>2. CASE k # link
    <3>1. toHost'[k] = toHost[k]
      BY <1>1, <2>2 DEF TypeOK
    <3> QED
      BY <3>1 DEF Sent
  <2> QED
    BY <2>1, <2>2
<1>4. Sent' \subseteq Sent
  BY <1>3 DEF Sent
<1> QED
  BY <1>2, <1>4

\* Adding a message sends it and no other.
LEMMA PutSends ==
  ASSUME TypeOK, NEW k \in Links, NEW m,
         toHost' = [toHost EXCEPT ![k] = Append(@, m)]
  PROVE  Sent' \subseteq Sent \cup {m}
<1>1. ASSUME NEW l \in Links, NEW i \in 1..Len(toHost'[l])
      PROVE  toHost'[l][i] \in Sent \cup {m}
  <2>1. CASE l = k
    <3>1. /\ toHost'[l] = Append(toHost[k], m)
          /\ toHost[k] \in Seq(GuestToHost)
      BY <2>1 DEF TypeOK
    <3>2. CASE i = Len(toHost[k]) + 1
      BY <3>1, <3>2
    <3>3. CASE i # Len(toHost[k]) + 1
      <4>1. i \in 1..Len(toHost[k]) /\ toHost'[l][i] = toHost[k][i]
        BY <3>1, <3>3
      <4> QED
        BY <4>1 DEF Sent
    <3> QED
      BY <3>2, <3>3
  <2>2. CASE l # k
    <3>1. toHost'[l] = toHost[l]
      BY <2>2 DEF TypeOK
    <3> QED
      BY <3>1 DEF Sent
  <2> QED
    BY <2>1, <2>2
<1> QED
  BY <1>1 DEF Sent

\* A loop that takes a connection sends its greeting and nothing else.
LEMMA ServeSends ==
  ASSUME TypeOK, NEW t \in Transports, NEW k \in Links, Serve(t, k)
  PROVE  Sent' \subseteq Sent \cup {Say("Hello")}
<1>1. ASSUME NEW l \in Links, NEW i \in 1..Len(toHost'[l])
      PROVE  toHost'[l][i] \in Sent \cup {Say("Hello")}
  <2>1. CASE l = k
    <3>1. toHost'[l] = <<Say("Hello")>> /\ i = 1
      BY <2>1 DEF TypeOK, Serve
    <3> QED
      BY <3>1
  <2>2. CASE l # k
    <3>1. toHost'[l] = toHost[l]
      BY <2>2 DEF TypeOK, Serve
    <3> QED
      BY <3>1 DEF Sent
  <2> QED
    BY <2>1, <2>2
<1> QED
  BY <1>1 DEF Sent

\* The only answer a step sends is the tracker's.
LEMMA StepSends ==
  ASSUME TypeOK, HostHolds, [Next]_vars
  PROVE  Sent' \subseteq
           Sent \cup {Say("Hello"), Say("Resumed"), AckNow}
<1> USE DEF HostHolds
<1>1. CASE AcceptTcp
  <2>1. Head(backlog) \in Links /\ "tcp" \in Transports
    BY <1>1 DEF AcceptTcp, TypeOK, Transports
  <2> QED
    BY <1>1, <2>1, ServeSends DEF AcceptTcp
<1>2. CASE Connect
  <2>1. links + 1 \in Links /\ "vsock" \in Transports
    BY <1>2, LinkAssumption DEF Connect, TypeOK, Links, Transports
  <2>2. toHost' = toHost \/ Serve("vsock", links + 1)
    BY <1>2 DEF Connect
  <2>3. toHost' = toHost => Sent' = Sent
    BY DEF Sent
  <2> QED
    BY <2>1, <2>2, <2>3, ServeSends
<1>3. ASSUME NEW t \in Transports, Handshaken(t)
      PROVE  Sent' \subseteq Sent \cup {Say("Resumed")}
  <2>1. session[t] \in Links
    BY <1>3, HeardType DEF Handshaken
  <2>2. \/ toHost' = toHost
        \/ toHost' = [toHost EXCEPT ![session[t]] = Append(@, Say("Resumed"))]
    BY <1>3 DEF Handshaken
  <2>3. toHost' = toHost => Sent' = Sent
    BY DEF Sent
  <2> QED
    BY <2>1, <2>2, <2>3, PutSends
<1>4. ASSUME NEW t \in Transports, AnswerDrain(t)
      PROVE  Sent' \subseteq Sent \cup {AckNow}
  <2>1. session[t] \in Links
    BY <1>4, HeardType DEF AnswerDrain
  <2> QED
    BY <1>4, <2>1, PutSends DEF AnswerDrain, AckNow
<1>5. CASE Greeted \/ SkipReply \/ StandDown \/ GuestQuiet
  BY <1>5, ReplySends DEF Greeted, SkipReply, StandDown, GuestQuiet
<1>6. CASE toHost' = toHost
  BY <1>6 DEF Sent
<1>7. \/ AcceptTcp \/ Connect
      \/ \E t \in Transports : Handshaken(t) \/ AnswerDrain(t)
      \/ Greeted \/ SkipReply \/ StandDown \/ GuestQuiet
      \/ toHost' = toHost
  BY DEF Next, vars, ChildStep, ChildPrints, ChildExits, ReadLine, StartMove,
         HostStep, GiveUpDialing, DrainTimesOut, Pause, Restored, Lost,
         GuestStep, IgnoreCancel, SessionEnds
<1> QED
  BY <1>1, <1>2, <1>3, <1>4, <1>5, <1>6, <1>7

\* What is over when an answer is sent stays over.
LEMMA AcksInductive ==
  TypeOK /\ TypeOK' /\ HostHolds /\ AcksHold /\ [Next]_vars => AcksHold'
<1> SUFFICES ASSUME TypeOK, TypeOK', HostHolds, AcksHold, [Next]_vars,
                    NEW m \in Sent'
             PROVE  AckHolds(m, tracker')
  BY DEF AcksHold
<1>1. tracker \in Turns /\ tracker' \in Turns /\ Later(tracker, tracker')
  BY TrackerMovesOn DEF TypeOK
<1>2. CASE m \in Sent
  <2>1. m.type = "DrainAck" => m.upTo \in Nat
    <3>1. \A k \in Links : toHost[k] \in Seq(GuestToHost)
      BY DEF TypeOK
    <3>2. PICK k \in Links : \E i \in 1..Len(toHost[k]) : m = toHost[k][i]
      BY <1>2 DEF Sent
    <3>3. m \in GuestToHost
      BY <3>1, <3>2
    <3> QED
      BY <3>3 DEF GuestToHost
  <2> QED
    BY <1>1, <1>2, <2>1, PastStays DEF AcksHold, AckHolds
<1>3. CASE m \in {Say("Hello"), Say("Resumed")}
  BY <1>3 DEF Say, AckHolds
<1>4. CASE m = AckNow
  <2>1. tracker.lastId \in Nat /\ tracker.inTurn \in BOOLEAN
    BY <1>1 DEF Turns
  <2>2. InFlight(tracker) = NoTurn => ~tracker.inTurn
    BY <2>1, NoTurnAssumption DEF InFlight
  <2>3. ~tracker.inTurn => Past(tracker, tracker.lastId)
    BY <2>1 DEF Past
  <2>4. ~tracker.inTurn => Past(tracker', tracker.lastId)
    BY <1>1, <2>1, <2>3, PastStays
  <2> QED
    BY <1>4, <2>2, <2>4 DEF AckHolds, AckNow
<1> QED
  BY <1>2, <1>3, <1>4, StepSends

\* What was over when the host was told so stays over.
LEMMA SeenInductive ==
  /\ TypeOK /\ TypeOK' /\ HostHolds /\ AcksHold /\ SeenHolds
  /\ [Next]_vars
  => SeenHolds'
<1> SUFFICES ASSUME TypeOK, TypeOK', HostHolds, AcksHold, SeenHolds,
                    [Next]_vars, pc' \in {"quiet", "frozen"}
             PROVE  Past(tracker', seen')
  BY DEF SeenHolds
<1>1. tracker \in Turns /\ tracker' \in Turns /\ Later(tracker, tracker')
  BY TrackerMovesOn DEF TypeOK
<1>2. CASE GuestQuiet
  <2>1. Head(toHost[link]) \in Sent
    BY <1>2, ReplySends DEF GuestQuiet, HostHolds
  <2> QED
    BY <1>2, <2>1 DEF GuestQuiet, Reply, QuietAck, AcksHold, AckHolds
<1>3. CASE pc \in {"quiet", "frozen"} /\ seen' = seen
  BY <1>1, <1>3, PastStays DEF SeenHolds, TypeOK
<1>4. GuestQuiet \/ (pc \in {"quiet", "frozen"} /\ seen' = seen)
  BY DEF Next, vars, ChildStep, ChildPrints, ChildExits, ReadLine, AcceptTcp,
         StartMove, HostStep, Connect, GiveUpDialing, Greeted, SkipReply,
         StandDown, DrainTimesOut, Pause, Restored, Lost, GuestStep,
         Handshaken, AnswerDrain, IgnoreCancel, SessionEnds
<1> QED
  BY <1>2, <1>3, <1>4

\* All of it at once.
SessionsInv ==
  /\ TypeOK /\ HostHolds
  /\ TrackerFollowsChild /\ Ordered /\ AcksHold /\ SeenHolds

\* It holds at first, and every step keeps it.
LEMMA SessionsInvAlways == Spec => []SessionsInv
<1>1. Init => SessionsInv
  <2> SUFFICES ASSUME Init PROVE SessionsInv
    OBVIOUS
  <2>1. pipe = <<>> /\ Len(pipe) = 0 /\ work = tracker /\ tracker \in Turns
    BY DEF Init, Nothing, Turns
  <2>2. After[0] = tracker
    BY <2>1 DEF After
  <2>3. TrackerFollowsChild
    BY <2>1, <2>2 DEF TrackerFollowsChild
  <2>4. Ordered
    BY <2>1, <2>2, LaterFacts DEF Ordered
  <2>5. AcksHold
    BY DEF Init, AcksHold, Sent
  <2>6. SeenHolds
    BY DEF Init, SeenHolds
  <2> QED
    BY <2>3, <2>4, <2>5, <2>6, TypeInit DEF SessionsInv
<1>2. SessionsInv /\ [Next]_vars => SessionsInv'
  BY TypeInductive, HostInductive, FollowsInductive, OrderedInductive,
     AcksInductive, SeenInductive DEF SessionsInv
<1> QED
  BY <1>1, <1>2, PTL DEF Spec

\* However many lines wait, duplicated or stray, the tracker takes them to
\* what the child has done.
THEOREM TrackerFollows == Spec => []TrackerFollowsChild
BY SessionsInvAlways, PTL DEF SessionsInv

\* A turn that guestd had counted when it answered a drain is not frozen,
\* however the child goes on between the answer and the pause.
THEOREM CountedTurnsAreSpared == Spec => []SeenTurnWins
<1>1. SessionsInv => SeenTurnWins
  <2> SUFFICES ASSUME SessionsInv, power = "paused", work.inTurn
               PROVE  work.lastId > seen
    BY DEF SeenTurnWins
  <2>1. Past(tracker, seen) /\ seen \in Nat
    BY DEF SessionsInv, HostHolds, SeenHolds, TypeOK
  <2>2. tracker \in Turns /\ work \in Turns
    BY DEF SessionsInv, TypeOK
  <2>3. Later(tracker, work)
    <3>1. Len(pipe) \in Nat
      BY DEF SessionsInv, TypeOK
    <3>2. After[0] = tracker /\ After[Len(pipe)] = work
      BY <3>1 DEF SessionsInv, TrackerFollowsChild, After
    <3> QED
      BY <3>1, <3>2 DEF SessionsInv, Ordered
  <2>4. Past(work, seen)
    BY <2>1, <2>2, <2>3, PastStays
  <2> QED
    BY <2>1, <2>2, <2>4 DEF Past, Turns
<1> QED
  BY <1>1, SessionsInvAlways, PTL

----------------------------------------------------------------------------
FromBoot == {m \in HostToGuest : m.from = "boot"}

\* The first connection of a guest that waits is the daemon's, on vsock.  Its
\* messages are the only ones that its first handshake can read, unless a
\* restore has closed vsock for good.
BootFirst ==
  /\ links = 0 =>
       /\ task = "boot" /\ first /\ session["vsock"] = NoLink
       /\ pc = "dialing" \/ (pc = "idle" /\ power = "off")
  /\ links > 0 => ~(pc = "dialing" /\ task = "boot")
  /\ toGuest[1] \in Seq(FromBoot)
  /\ (link = 1 /\ pc \in {"greeting", "draining"}) => task = "boot"
  /\ 1 \in open => pc = "greeting" /\ link = 1
  /\ session["tcp"] # 1 /\ backlog \in Seq(Links \ {1})
  /\ (links > 0 /\ first) =>
       \/ /\ session["vsock"] = 1 /\ stage["vsock"] = "handshake"
          /\ 1 \in open \/ toGuest[1] # <<>> \/ moved
       \/ session["vsock"] = NoLink /\ moved
  /\ ~first => child # "waiting"
  /\ env # "move"

\* The transports and the first link, for the provers.
LEMMA Constants ==
  /\ "tcp" \in Transports /\ "vsock" \in Transports
  /\ 1 \in Links /\ NoLink \notin Links
BY LinkAssumption DEF Transports, Links

\* The child and its reader do not touch it.
LEMMA BootChild ==
  TypeOK /\ BootFirst /\ (ChildStep \/ ReadLine) => BootFirst'
<1> SUFFICES ASSUME TypeOK, BootFirst, ChildStep \/ ReadLine
             PROVE  BootFirst'
  OBVIOUS
<1>1. /\ UNCHANGED <<env, guestVars, wireVars, hostVars>>
      /\ child' = child \/ child' = "gone"
  BY DEF ChildStep, ChildPrints, ChildExits, ReadLine
<1> QED
  BY <1>1 DEF BootFirst

\* A loop that reads a message leaves the first link to the boot's handshake.
LEMMA BootHeard ==
  ASSUME TypeOK, BootFirst, NEW t \in Transports, NEW type, Heard(t, type)
  PROVE  /\ toGuest'[1] \in Seq(FromBoot)
         /\ session[t] # 1 => toGuest'[1] = toGuest[1]
         /\ session[t] = 1 => Head(toGuest[1]) \in FromBoot
<1>1. /\ session[t] \in Links
      /\ toGuest' = [toGuest EXCEPT ![session[t]] = Tail(@)]
      /\ toGuest[session[t]] # <<>>
  BY HeardType DEF Heard
<1>2. CASE session[t] = 1
  <2>1. toGuest[1] \in Seq(FromBoot) /\ toGuest[1] # <<>>
    BY <1>1, <1>2 DEF BootFirst
  <2>2. toGuest'[1] = Tail(toGuest[1])
    BY <1>1, <1>2, Constants DEF TypeOK
  <2> QED
    BY <1>2, <2>1, <2>2
<1>3. CASE session[t] # 1
  <2>1. toGuest'[1] = toGuest[1]
    BY <1>1, <1>3, Constants DEF TypeOK
  <2> QED
    BY <1>3, <2>1 DEF BootFirst
<1> QED
  BY <1>2, <1>3

\* The guest's loops keep it.
LEMMA BootGuest ==
  ASSUME TypeOK, BootFirst, NEW t \in Transports, GuestStep(t)
  PROVE  BootFirst'
<1> USE Constants DEF BootFirst
<1>1. t = "tcp" \/ t = "vsock"
  BY DEF Transports
<1>2. CASE Handshaken(t)
  <2>1. /\ toGuest'[1] \in Seq(FromBoot)
        /\ session[t] # 1 => toGuest'[1] = toGuest[1]
        /\ session[t] = 1 => Head(toGuest[1]).from = "boot"
        /\ session[t] \in Links
    BY <1>2, BootHeard, HeardType DEF Handshaken, FromBoot
  <2>2. UNCHANGED <<vm, session, backlog, open, hostVars>>
    BY <1>2 DEF Handshaken
  <2>3. CASE t = "tcp"
    <3>1. /\ first' = first /\ stage'["vsock"] = stage["vsock"]
          /\ child' = child /\ env' = env
      BY <1>2, <2>3 DEF Handshaken, StartsChild, TypeOK
    <3> QED
      BY <2>1, <2>2, <2>3, <3>1
  <2>4. CASE t = "vsock"
    <3>1. first' = FALSE
      BY <1>2, <2>4 DEF Handshaken
    <3>2. links > 0
      BY <2>1, <2>4, LinkAssumption DEF TypeOK
    <3>3. child' # "waiting"
      BY <1>2, <2>4 DEF Handshaken, StartsChild
    <3>4. env' # "move"
      BY <1>2, <2>1, <2>4, <3>2 DEF Handshaken, StartsChild
    <3> QED
      BY <2>1, <2>2, <3>1, <3>2, <3>3, <3>4
  <2> QED
    BY <1>1, <2>3, <2>4
<1>3. CASE AnswerDrain(t) \/ IgnoreCancel(t)
  <2>1. /\ toGuest'[1] \in Seq(FromBoot)
        /\ session[t] # 1 => toGuest'[1] = toGuest[1]
        /\ session[t] \in Links
    BY <1>3, BootHeard, HeardType DEF AnswerDrain, IgnoreCancel
  <2>2. UNCHANGED <<vm, childVars, guestVars, open, hostVars>>
    BY <1>3 DEF AnswerDrain, IgnoreCancel
  <2>3. t = "vsock" => stage["vsock"] # "handshake"
    BY <1>3 DEF AnswerDrain, IgnoreCancel
  <2>4. (links > 0 /\ first) => session[t] # 1
    BY <1>1, <2>1, <2>3
  <2> QED
    BY <2>1, <2>2, <2>4
<1>4. CASE SessionEnds(t)
  <2>1. UNCHANGED <<vm, childVars, first, stage, backlog, wireVars, hostVars>>
    BY <1>4 DEF SessionEnds
  <2>2. CASE t = "tcp"
    <3>1. session'["vsock"] = session["vsock"] /\ session'["tcp"] = NoLink
      BY <1>4, <2>2 DEF SessionEnds, TypeOK
    <3> QED
      BY <2>1, <3>1
  <2>3. CASE t = "vsock"
    <3>1. session'["tcp"] = session["tcp"] /\ session'["vsock"] = NoLink
      BY <1>4, <2>3 DEF SessionEnds, TypeOK
    <3>2. (links > 0 /\ first) => moved
      BY <1>4, <2>3 DEF SessionEnds
    <3> QED
      BY <2>1, <3>1, <3>2
  <2> QED
    BY <1>1, <2>2, <2>3
<1> QED
  BY <1>2, <1>3, <1>4 DEF GuestStep

\* The host's end keeps it.
LEMMA BootHost ==
  ASSUME TypeOK, HostHolds, BootFirst,
         AcceptTcp \/ StartMove \/ HostStep
  PROVE  BootFirst'
<1> USE Constants, LinkAssumption DEF BootFirst
<1>1. CASE AcceptTcp
  <2>1. /\ Head(backlog) \in Links \ {1} /\ backlog' \in Seq(Links \ {1})
    BY <1>1 DEF AcceptTcp
  <2>2. /\ session'["tcp"] # 1 /\ session'["vsock"] = session["vsock"]
        /\ stage'["vsock"] = stage["vsock"]
    BY <1>1, <2>1 DEF AcceptTcp, Serve, TypeOK
  <2> QED
    BY <1>1, <2>1, <2>2 DEF AcceptTcp
<1>2. CASE StartMove
  BY <1>2 DEF StartMove, Up, TypeOK
<1>3. CASE Connect
  <2> DEFINE k == links + 1
  <2>1. /\ links' = k /\ link' = k /\ open' = open \cup {k}
        /\ pc' = "greeting" /\ pc = "dialing"
        /\ UNCHANGED <<vm, childVars, first, toGuest, task, seen, power,
                       moved>>
        /\ k \in Links /\ (k = 1 <=> links = 0) /\ links' > 0
    BY <1>3 DEF Connect, HostHolds, TypeOK, Links
  <2>2. CASE task = "move" /\ backlog' = Append(backlog, k)
                           /\ UNCHANGED <<session, stage>>
    <3>1. links > 0 /\ k # 1 /\ 1 \notin open
      BY <2>1, <2>2 DEF TypeOK
    <3>2. backlog' \in Seq(Links \ {1})
      BY <2>1, <2>2, <3>1
    <3>3. 1 \notin open' /\ link' # 1
      BY <2>1, <3>1
    <3>4. /\ child' = child /\ env' = env /\ toGuest' = toGuest
          /\ first' = first /\ moved' = moved /\ links' > 0
      BY <2>1
    <3> QED
      BY <2>1, <2>2, <3>1, <3>2, <3>3, <3>4
  <2>3. CASE ~moved /\ session["vsock"] = NoLink /\ Serve("vsock", k)
                    /\ UNCHANGED backlog
    <3>1. /\ session'["vsock"] = k /\ session'["tcp"] = session["tcp"]
          /\ stage'["vsock"] = "handshake"
      BY <2>3 DEF Serve, TypeOK, Transports
    <3>2. CASE links = 0
      BY <2>1, <2>3, <3>1, <3>2
    <3>3. CASE links # 0
      <4>1. links > 0 /\ ~first /\ k # 1 /\ 1 \notin open
        BY <2>1, <2>3, <3>3 DEF TypeOK
      <4>2. first' = first /\ child # "waiting" /\ 1 \notin open'
        BY <2>1, <4>1
      <4>3. link' # 1 /\ links' > 0 /\ pc' = "greeting"
        BY <2>1, <4>1
      <4>4. child' # "waiting" /\ env' # "move" /\ toGuest' = toGuest
        BY <2>1, <4>2
      <4> QED
        BY <2>3, <3>1, <4>1, <4>2, <4>3, <4>4
    <3> QED
      BY <3>2, <3>3
  <2> QED
    BY <1>3, <2>2, <2>3 DEF Connect
<1>4. CASE GiveUpDialing
  BY <1>4 DEF GiveUpDialing, TypeOK
<1>5. CASE Greeted
  <2>1. link \in Links /\ pc = "greeting" /\ links > 0
    BY <1>5 DEF Greeted, HostHolds, TypeOK
  <2>2. UNCHANGED <<vm, childVars, guestVars, link, links, task, seen, power,
                    moved>>
    BY <1>5 DEF Greeted
  <2>3. PICK msgs \in Seq(HostToGuest) :
          /\ Post(msgs) /\ msgs # <<>>
          /\ task = "boot" => msgs \in Seq(FromBoot)
    <3>1. /\ \A type \in {"Secrets", "DrainRequest"} :
               Tell(type) \in HostToGuest /\ Tell(type).from = task
      BY MessageTypes DEF Tell, TypeOK
    <3>2. task = "boot" => Tell("Secrets") \in FromBoot
      BY <3>1 DEF FromBoot
    <3>3. CASE task = "boot" /\ Post(<<Tell("Secrets")>>)
      <4> DEFINE msgs == <<Tell("Secrets")>>
      <4>1. msgs \in Seq(HostToGuest) /\ msgs # <<>> /\ msgs \in Seq(FromBoot)
        BY <3>1, <3>2, <3>3
      <4> QED
        BY <3>3, <4>1
    <3>4. CASE task = "move" /\ Post(<<Tell("Secrets"), Tell("DrainRequest")>>)
      <4> DEFINE msgs == <<Tell("Secrets"), Tell("DrainRequest")>>
      <4>1. msgs \in Seq(HostToGuest) /\ msgs # <<>>
        BY <3>1
      <4> QED
        BY <3>4, <4>1
    <3> QED
      BY <1>5, <3>3, <3>4 DEF Greeted
  <2>4. toGuest'[1] \in Seq(FromBoot)
    <3>1. CASE link = 1
      <4>1. toGuest'[1] = toGuest[1] \o msgs /\ msgs \in Seq(FromBoot)
        BY <2>1, <2>3, <3>1 DEF Post, TypeOK
      <4> QED
        BY <4>1
    <3>2. CASE link # 1
      BY <2>1, <2>3, <3>2 DEF Post, TypeOK
    <3> QED
      BY <3>1, <3>2
  <2>5. 1 \in open \/ toGuest[1] # <<>> => 1 \in open' \/ toGuest'[1] # <<>>
    <3>1. CASE link = 1
      <4>1. toGuest'[1] = toGuest[1] \o msgs /\ toGuest[1] \in Seq(FromBoot)
        BY <2>1, <2>3, <3>1 DEF Post, TypeOK
      <4> QED
        BY <2>3, <4>1
    <3>2. CASE link # 1
      <4>1. toGuest'[1] = toGuest[1] /\ 1 \notin open
        BY <2>1, <2>3, <3>2 DEF Post, TypeOK
      <4> QED
        BY <4>1
    <3> QED
      BY <3>1, <3>2
  <2>6. /\ open' \subseteq open
        /\ \/ task = "boot" /\ pc' = "idle" /\ open' = open \ {link}
           \/ task = "move" /\ pc' = "draining" /\ link # 1
    BY <1>5 DEF Greeted, HangUp
  <2> QED
    BY <2>1, <2>2, <2>4, <2>5, <2>6
<1>6. CASE SkipReply
  BY <1>6 DEF SkipReply
<1>7. CASE StandDown
  <2>1. link \in Links /\ pc = "draining" /\ links > 0 /\ 1 \notin open
    BY <1>7 DEF StandDown, HostHolds, TypeOK
  <2>2. /\ UNCHANGED <<vm, childVars, guestVars, link, links, task, seen,
                       power, moved>>
        /\ pc' = "idle" /\ open' \subseteq open
        /\ Post(<<Tell("DrainCancel")>>)
    BY <1>7 DEF StandDown, HangUp
  <2>3. CASE link = 1
    <3>1. Tell("DrainCancel") \in FromBoot
      BY <2>1, <2>3, MessageTypes DEF Tell, FromBoot, TypeOK
    <3>2. toGuest'[1] = toGuest[1] \o <<Tell("DrainCancel")>>
      BY <2>1, <2>2, <2>3 DEF Post, TypeOK
    <3>3. toGuest'[1] \in Seq(FromBoot) /\ toGuest'[1] # <<>>
      BY <3>1, <3>2
    <3> QED
      BY <2>1, <2>2, <3>3
  <2>4. CASE link # 1
    <3>1. toGuest'[1] = toGuest[1]
      BY <2>1, <2>2, <2>4 DEF Post, TypeOK
    <3> QED
      BY <2>1, <2>2, <3>1
  <2> QED
    BY <2>3, <2>4
<1>8. CASE DrainTimesOut \/ GuestQuiet
  BY <1>8 DEF DrainTimesOut, GuestQuiet, HangUp, TypeOK
<1>9. CASE Pause \/ Lost
  BY <1>9 DEF Pause, Lost, TypeOK
<1>10. CASE Restored
  <2>1. UNCHANGED <<vm, childVars, guestVars, open, link, links, task>>
    BY <1>10 DEF Restored
  <2>2. moved' = TRUE /\ pc = "frozen" /\ pc' = "idle"
    BY <1>10 DEF Restored
  <2>3. toGuest'[1] \in Seq(FromBoot)
    <3>1. toGuest'[1] = <<>> \/ toGuest'[1] = toGuest[1]
      BY <1>10 DEF Restored, TypeOK
    <3>2. <<>> \in Seq(FromBoot) /\ toGuest[1] \in Seq(FromBoot)
      OBVIOUS
    <3> QED
      BY <3>1, <3>2
  <2>4. links > 0 /\ 1 \notin open
    BY <2>2 DEF TypeOK
  <2> QED
    BY <2>1, <2>2, <2>3, <2>4
<1> QED
  BY <1>1, <1>2, <1>3, <1>4, <1>5, <1>6, <1>7, <1>8, <1>9, <1>10 DEF HostStep

\* A child that waits for its secrets gets those of a daemon that has a key:
\* the boot handshake is the first the guest ends, whatever becomes of it.
THEOREM WaitersGetTheirSecrets == Spec => []ChildHasItsSecrets
<1> DEFINE Boots == (vm.awaitSecrets /\ vm.key) => BootFirst
           Inv == TypeOK /\ HostHolds /\ Boots
<1>1. Init => Boots
  <2> SUFFICES ASSUME Init, vm.awaitSecrets, vm.key PROVE BootFirst
    OBVIOUS
  <2>1. links = 0 /\ pc = "dialing"
    BY DEF Init
  <2> QED
    BY <2>1, Constants DEF Init, BootFirst
<1>2. Inv /\ [Next]_vars => Inv'
  <2> SUFFICES ASSUME TypeOK, HostHolds, Boots, [Next]_vars PROVE Inv'
    OBVIOUS
  <2>1. TypeOK' /\ HostHolds'
    BY TypeInductive, HostInductive
  <2>2. vm' = vm
    BY DEF Next, vars, ChildStep, ChildPrints, ChildExits, ReadLine, AcceptTcp,
           StartMove, HostStep, Connect, GiveUpDialing, Greeted, SkipReply,
           StandDown, DrainTimesOut, GuestQuiet, Pause, Restored, Lost,
           GuestStep, Handshaken, AnswerDrain, IgnoreCancel, SessionEnds
  <2>3. ASSUME vm.awaitSecrets, vm.key PROVE BootFirst'
    <3>1. CASE UNCHANGED vars
      BY <2>3, <3>1 DEF vars, BootFirst
    <3> QED
      BY <2>3, <3>1, BootChild, BootGuest, BootHost DEF Next
  <2> QED
    BY <2>1, <2>2, <2>3
<1>3. Inv => ChildHasItsSecrets
  BY DEF BootFirst, ChildHasItsSecrets
<1>4. Init => Inv
  BY <1>1, TypeInit
<1> QED
  BY <1>2, <1>3, <1>4, PTL DEF Spec

=============================================================================
