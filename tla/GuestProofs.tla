---------------------------- MODULE GuestProofs ----------------------------
(***************************************************************************)
(* Proofs about Guest for every value of its constants: types, the         *)
(* conservation of turns, the gate, the convergence of hostd's view, and   *)
(* the truth of a quiet view.                                              *)
(***************************************************************************)
EXTENDS Guest, TLAPS

USE DEF guestVars, hostVars, history

\* Every message the supervisor builds is one its link may carry.
LEMMA MessageTypes ==
  /\ \A t \in Nat : Started(t) \in GuestToHost /\ Ended(t) \in GuestToHost
  /\ \A t \in TurnIdOrNone : DrainAck(t) \in GuestToHost
  /\ Resumed \in GuestToHost /\ Pong \in GuestToHost
BY DEF Started, Ended, DrainAck, Resumed, Pong, GuestToHost, TurnIdOrNone

\* Sending keeps the guest-to-host link well typed.
LEMMA SendTypes ==
  ASSUME NEW m \in GuestToHost, toHost \in Seq(GuestToHost), up \in BOOLEAN,
         SendOk(m) \/ SendErr
  PROVE  toHost' \in Seq(GuestToHost) /\ up' \in BOOLEAN
<1>1. CASE SendOk(m)
  <2>1. toHost' \in Seq(GuestToHost)
    BY <1>1 DEF SendOk
  <2>2. up' \in BOOLEAN
    BY <1>1 DEF SendOk
  <2> QED
    BY <2>1, <2>2
<1>2. CASE SendErr
  BY <1>2 DEF SendErr
<1> QED
  BY <1>1, <1>2

\* Taking the oldest message off hostd's link keeps it well typed, and the
\* message was one hostd may send.
LEMMA ReceiveTypes ==
  ASSUME NEW type, toGuest \in Seq(HostToGuest), Receive(type)
  PROVE  toGuest' \in Seq(HostToGuest) /\ Head(toGuest) \in HostToGuest
BY DEF Receive

\* Posting a message keeps hostd's link well typed.
LEMMA PostTypes ==
  ASSUME NEW type, NEW t, [type |-> type, turn |-> t] \in HostToGuest,
         toGuest \in Seq(HostToGuest), Post(type, t)
  PROVE  toGuest' \in Seq(HostToGuest)
BY DEF Post

\* begin_turn keeps the types of what it assigns.
LEMMA BeginTurnTypes ==
  ASSUME TypeOK, BeginTurn
  PROVE  /\ nextTurn' \in Nat /\ inFlight' \in Nat
         /\ toHost' \in Seq(GuestToHost) /\ up' \in BOOLEAN
<1>2. Started(nextTurn) \in GuestToHost
  BY MessageTypes DEF TypeOK
<1>3. toHost' \in Seq(GuestToHost) /\ up' \in BOOLEAN
  BY <1>2, SendTypes DEF TypeOK, BeginTurn
<1> QED
  BY <1>3 DEF TypeOK, BeginTurn, TurnIdOrNone

----------------------------------------------------------------------------
\* Every step keeps the types.
LEMMA TypeInductive == TypeOK /\ [Next]_vars => TypeOK'
<1> SUFFICES ASSUME TypeOK, [Next]_vars PROVE TypeOK'
  OBVIOUS
<1> USE DEF TypeOK
<1>a. inFlight \in TurnIdOrNone /\ NoTurn \in TurnIdOrNone
  BY DEF TurnIdOrNone
<1>1. CASE StartTurn
  BY <1>1, BeginTurnTypes DEF StartTurn, TurnIdOrNone
<1>2. CASE BeginObservedTurn
  BY <1>2, BeginTurnTypes DEF BeginObservedTurn, TurnIdOrNone
<1>3. CASE ReplayNext
  BY <1>3, BeginTurnTypes DEF ReplayNext, TurnIdOrNone
<1>4. CASE EndTurn
  <2>1. Ended(inFlight) \in GuestToHost
    BY <1>4, MessageTypes DEF EndTurn, Idle, TurnIdOrNone
  <2>2. toHost' \in Seq(GuestToHost) /\ up' \in BOOLEAN
    BY <1>4, <2>1, SendTypes DEF EndTurn
  <2> QED
    BY <1>4, <1>a, <2>2 DEF EndTurn
<1>5. CASE Resume
  <2>1. toHost' \in Seq(GuestToHost) /\ up' \in BOOLEAN
    BY <1>5, <1>a, MessageTypes, SendTypes DEF Resume
  <2> QED
    BY <1>5, <2>1 DEF Resume
<1>6. CASE HandleRunTurn
  <2>1. toGuest' \in Seq(HostToGuest) /\ Head(toGuest).turn \in Nat
    BY <1>6, ReceiveTypes DEF HandleRunTurn, Receive, HostToGuest
  <2> DEFINE t == Head(toGuest).turn
  <2>2. Started(t) \in GuestToHost /\ Ended(t) \in GuestToHost
    BY <2>1, MessageTypes
  <2>3. toHost' \in Seq(GuestToHost) /\ up' \in BOOLEAN
    <3>1. toHost \o <<Started(t), Ended(t)>> \in Seq(GuestToHost)
      BY <2>2
    <3>2. Append(toHost, Started(t)) \in Seq(GuestToHost)
      BY <2>2
    <3> HIDE DEF t
    <3> QED
      BY <1>6, <3>1, <3>2 DEF HandleRunTurn, SendErr, t
  <2>4. inFlight' \in TurnIdOrNone
    BY <1>6, <2>1 DEF HandleRunTurn, TurnIdOrNone
  <2>5. queued' \in Nat /\ accepted' \in Nat /\ done' \in Nat
    BY <1>6 DEF HandleRunTurn
  <2> QED
    BY <1>6, <2>1, <2>3, <2>4, <2>5 DEF HandleRunTurn
<1>7. CASE HandleDrainRequest
  <2>1. toGuest' \in Seq(HostToGuest)
    BY <1>7, ReceiveTypes DEF HandleDrainRequest
  <2>2. DrainAck(inFlight) \in GuestToHost
    BY <1>a, MessageTypes
  <2>3. toHost' \in Seq(GuestToHost) /\ up' \in BOOLEAN
    BY <1>7, <2>2, SendTypes DEF HandleDrainRequest, Send
  <2> QED
    BY <1>7, <2>1, <2>3 DEF HandleDrainRequest
<1>8. CASE HandleDrainCancel
  BY <1>8, ReceiveTypes DEF HandleDrainCancel
<1>9. CASE HandlePing
  <2>1. toGuest' \in Seq(HostToGuest)
    BY <1>9, ReceiveTypes DEF HandlePing
  <2>2. toHost' \in Seq(GuestToHost) /\ up' \in BOOLEAN
    BY <1>9, <1>a, MessageTypes, SendTypes DEF HandlePing, Send
  <2> QED
    BY <1>9, <2>1, <2>2 DEF HandlePing
<1>10. CASE HostDrain
  <2>1. toGuest' \in Seq(HostToGuest)
    BY <1>10, PostTypes DEF HostDrain, HostToGuest
  <2> QED
    BY <1>10, <1>a, <2>1 DEF HostDrain, Post, FreshView
<1>11. CASE HostCancel
  <2>1. toGuest' \in Seq(HostToGuest)
    BY <1>11, PostTypes DEF HostCancel, HostToGuest
  <2> QED
    BY <1>11, <2>1 DEF HostCancel, Post
<1>12. CASE HostRunTurn
  <2>2. toGuest' \in Seq(HostToGuest)
    BY <1>12, PostTypes DEF HostRunTurn, HostToGuest
  <2> QED
    BY <1>12, <2>2 DEF HostRunTurn, Post
<1>13. CASE HostPing
  <2>1. toGuest' \in Seq(HostToGuest)
    BY <1>13, PostTypes DEF HostPing, HostToGuest
  <2> QED
    BY <1>13, <2>1 DEF HostPing, Post
<1>14. CASE HostReceive
  <2>1. Head(toHost) \in GuestToHost /\ toHost' \in Seq(GuestToHost)
    BY <1>14 DEF HostReceive
  <2>2. view' \in [gated : BOOLEAN, inFlight : TurnIdOrNone]
    BY <1>14, <1>a, <2>1 DEF HostReceive, Observe, GuestToHost, TurnIdOrNone
  <2> QED
    BY <1>14, <2>1, <2>2 DEF HostReceive
<1>15. CASE HostHangsUp
  <2>1. toHost' \in Seq(GuestToHost)
    BY <1>15 DEF HostHangsUp
  <2> QED
    BY <1>15, <2>1 DEF HostHangsUp
<1>16. CASE NewSession
  <2>1. toGuest' \in Seq(HostToGuest) /\ toHost' \in Seq(GuestToHost)
    BY <1>16 DEF NewSession
  <2>2. view' \in [gated : BOOLEAN, inFlight : TurnIdOrNone]
    BY <1>16, <1>a DEF NewSession, FreshView
  <2> QED
    BY <1>16, <1>a, <2>1, <2>2 DEF NewSession
<1>17. CASE UNCHANGED vars
  BY <1>17 DEF vars
<1> QED
  BY <1>1, <1>2, <1>3, <1>4, <1>5, <1>6, <1>7, <1>8, <1>9, <1>10, <1>11,
     <1>12, <1>13, <1>14, <1>15, <1>16, <1>17 DEF Next

\* Every reachable state is well typed.
THEOREM GuestTypeOK == Spec => []TypeOK
<1>1. Init => TypeOK
  <2> SUFFICES ASSUME Init PROVE TypeOK
    OBVIOUS
  <2>1. NoTurn \in TurnIdOrNone
    BY DEF TurnIdOrNone
  <2>2. view \in [gated : BOOLEAN, inFlight : TurnIdOrNone]
    BY <2>1 DEF Init, FreshView
  <2>3. toGuest \in Seq(HostToGuest) /\ toHost \in Seq(GuestToHost)
    BY DEF Init
  <2> QED
    BY <2>1, <2>2, <2>3 DEF Init, TypeOK
<1> QED
  BY <1>1, TypeInductive, PTL DEF Spec

----------------------------------------------------------------------------
\* Turns are conserved by every step, those with a failing send included.
LEMMA ConservationInductive ==
  TypeOK /\ ZeroDroppedTurns /\ [Next]_vars => ZeroDroppedTurns'
<1> SUFFICES ASSUME TypeOK, ZeroDroppedTurns, [Next]_vars
             PROVE  ZeroDroppedTurns'
  OBVIOUS
<1> USE NoTurnAssumption DEF TypeOK, ZeroDroppedTurns, Idle
<1>1. CASE StartTurn
  BY <1>1 DEF StartTurn, BeginTurn
<1>2. CASE BeginObservedTurn
  BY <1>2 DEF BeginObservedTurn, BeginTurn
<1>3. CASE ReplayNext
  BY <1>3 DEF ReplayNext, BeginTurn
<1>4. CASE EndTurn
  BY <1>4 DEF EndTurn
<1>5. CASE Resume
  BY <1>5 DEF Resume
<1>6. CASE HandleRunTurn
  \* hostd numbers its turns, so a RunTurn that starts puts a turn in flight.
  <2>a. Head(toGuest).turn \in Nat
    BY <1>6, ReceiveTypes DEF HandleRunTurn, Receive, HostToGuest
  <2>1. CASE ~Idle
    BY <1>6, <2>1 DEF HandleRunTurn
  <2>2. CASE Idle /\ gated
    BY <1>6, <2>2 DEF HandleRunTurn
  <2>3. CASE Idle /\ ~gated
    BY <1>6, <2>3, <2>a DEF HandleRunTurn
  <2> QED
    BY <2>1, <2>2, <2>3
<1>7. CASE HandleDrainRequest
  BY <1>7 DEF HandleDrainRequest
<1>8. CASE HandleDrainCancel
  BY <1>8 DEF HandleDrainCancel
<1>9. CASE HandlePing
  BY <1>9 DEF HandlePing
<1>10. CASE HostDrain
  BY <1>10 DEF HostDrain, Post
<1>11. CASE HostCancel
  BY <1>11 DEF HostCancel, Post
<1>12. CASE HostRunTurn
  BY <1>12 DEF HostRunTurn, Post
<1>13. CASE HostPing
  BY <1>13 DEF HostPing, Post
<1>14. CASE HostReceive
  BY <1>14 DEF HostReceive
<1>15. CASE HostHangsUp
  BY <1>15 DEF HostHangsUp
<1>16. CASE NewSession
  BY <1>16 DEF NewSession
<1>17. CASE UNCHANGED vars
  BY <1>17 DEF vars
<1> QED
  BY <1>1, <1>2, <1>3, <1>4, <1>5, <1>6, <1>7, <1>8, <1>9, <1>10, <1>11,
     <1>12, <1>13, <1>14, <1>15, <1>16, <1>17 DEF Next

----------------------------------------------------------------------------
(* ViewConverges                                                           *)

\* When the last message on the link bears on turns and names the new state,
\* it is the only message the property speaks of.
LEMMA AppendBearing ==
  ASSUME NEW m \in GuestToHost, NEW s \in Seq(GuestToHost),
         toHost' = Append(s, m),
         BearsOnTurns(m), InFlightAfter(m) = inFlight'
  PROVE  ViewConverges'
<1> DEFINE n == Len(toHost')
<1>1. n \in Nat \ {0} /\ n \in 1..n /\ toHost'[n] = m
  OBVIOUS
<1>2. \A i \in 1..n : SilentFrom(i)' => FALSE
  BY <1>1 DEF SilentFrom
<1>3. ASSUME NEW i \in 1..n, BearsOnTurns(toHost'[i]), SilentFrom(i + 1)'
      PROVE  InFlightAfter(toHost'[i]) = inFlight'
  <2>1. i = n
    BY <1>1, <1>2, <1>3
  <2> QED
    BY <1>1, <2>1
<1>4. ~SilentFrom(1)'
  BY <1>1, <1>2
<1> QED
  BY <1>3, <1>4 DEF ViewConverges, BearsOnTurns, InFlightAfter

\* Sending a message that does not bear on turns changes nothing of what the
\* earlier ones say.
LEMMA AppendSilent ==
  ASSUME NEW m \in GuestToHost, toHost \in Seq(GuestToHost),
         toHost' = Append(toHost, m), ~BearsOnTurns(m),
         up, ViewConverges, inFlight' = inFlight, view' = view
  PROVE  ViewConverges'
<1> DEFINE n == Len(toHost)
<1>1. n \in Nat /\ Len(toHost') = n + 1 /\ toHost'[n + 1] = m
      /\ \A i \in 1..n : toHost'[i] = toHost[i]
  OBVIOUS
<1>2. \A i \in 1..(n + 1) : SilentFrom(i)' => SilentFrom(i)
  BY <1>1 DEF SilentFrom
<1>3. ASSUME NEW i \in 1..(n + 1), BearsOnTurns(toHost'[i]), SilentFrom(i + 1)'
      PROVE  InFlightAfter(toHost'[i]) = inFlight'
  <2>1. i \in 1..n /\ i + 1 \in 1..(n + 1)
    BY <1>1, <1>3
  <2> QED
    BY <1>1, <1>2, <1>3, <2>1 DEF ViewConverges
<1> QED
  BY <1>1, <1>2, <1>3 DEF ViewConverges, BearsOnTurns, InFlightAfter

\* hostd taking the oldest message folds it into its view.
LEMMA FoldOldest ==
  ASSUME TypeOK, ViewConverges, HostReceive
  PROVE  ViewConverges'
<1> USE DEF TypeOK
<1> SUFFICES ASSUME up PROVE ViewConverges'
  BY DEF HostReceive, ViewConverges
<1> DEFINE n == Len(toHost)
           m == Head(toHost)
<1>1. n \in Nat \ {0} /\ m = toHost[1] /\ m \in GuestToHost
      /\ Len(toHost') = n - 1 /\ toHost' \in Seq(GuestToHost)
      /\ \A i \in 1..(n - 1) : toHost'[i] = toHost[i + 1]
  BY DEF HostReceive
<1>2. inFlight' = inFlight /\ view' = Observe(view, m)
  BY DEF HostReceive
<1>3. \A i \in 1..n : SilentFrom(i)' => SilentFrom(i + 1)
  <2> SUFFICES ASSUME NEW i \in 1..n, SilentFrom(i)',
                      NEW j \in (i + 1)..n
               PROVE  ~BearsOnTurns(toHost[j])
    BY <1>1 DEF SilentFrom
  <2>1. j - 1 \in i..(n - 1) /\ toHost'[j - 1] = toHost[j]
    BY <1>1
  <2> QED
    BY <1>1, <2>1 DEF SilentFrom, BearsOnTurns
<1>4. ASSUME NEW i \in 1..(n - 1), BearsOnTurns(toHost'[i]), SilentFrom(i + 1)'
      PROVE  InFlightAfter(toHost'[i]) = inFlight'
  <2>1. SilentFrom(i + 1 + 1) /\ BearsOnTurns(toHost[i + 1])
        /\ i + 1 \in 1..n
    BY <1>1, <1>3, <1>4 DEF BearsOnTurns
  <2> QED
    BY <1>1, <1>2, <2>1 DEF ViewConverges
<1>5. ASSUME view'.gated, SilentFrom(1)'
      PROVE  view'.inFlight = inFlight'
  <2>1. SilentFrom(2)
    BY <1>1, <1>3, <1>5
  <2>2. CASE BearsOnTurns(m)
    <3>1. InFlightAfter(m) = inFlight
      BY <1>1, <2>1, <2>2 DEF ViewConverges
    <3>2. view'.inFlight = InFlightAfter(m)
      BY <1>1, <1>2, <2>2 DEF Observe, BearsOnTurns, InFlightAfter
    <3> QED
      BY <1>2, <3>1, <3>2
  <2>3. CASE ~BearsOnTurns(m)
    <3>1. view' = view
      BY <1>1, <1>2, <2>3 DEF Observe, BearsOnTurns
    <3>2. SilentFrom(1)
      BY <1>1, <2>1, <2>3 DEF SilentFrom
    <3> QED
      BY <1>2, <1>5, <3>1, <3>2 DEF ViewConverges
  <2> QED
    BY <2>2, <2>3
<1> QED
  BY <1>1, <1>4, <1>5 DEF ViewConverges, BearsOnTurns, InFlightAfter

\* A step that leaves the link and both states alone keeps the property; so
\* does one that breaks the channel.
LEMMA QuietStep ==
  ASSUME ViewConverges,
         \/ ~up'
         \/ UNCHANGED <<up, toHost, view, inFlight>>
  PROVE  ViewConverges'
BY DEF ViewConverges, SilentFrom, BearsOnTurns, InFlightAfter

\* begin_turn announces the turn it has put in flight, or breaks the channel.
LEMMA BeginTurnConverges ==
  ASSUME TypeOK, ViewConverges, BeginTurn
  PROVE  ViewConverges'
<1>1. CASE SendOk(Started(nextTurn))
  <2>1. BearsOnTurns(Started(nextTurn))
        /\ InFlightAfter(Started(nextTurn)) = nextTurn
    BY DEF Started, BearsOnTurns, InFlightAfter
  <2>2. toHost' = Append(toHost, Started(nextTurn)) /\ inFlight' = nextTurn
    BY <1>1 DEF BeginTurn, SendOk
  <2> QED
    BY <2>1, <2>2, MessageTypes, AppendBearing DEF TypeOK
<1>2. CASE SendErr
  BY <1>2, QuietStep DEF SendErr
<1> QED
  BY <1>1, <1>2 DEF BeginTurn

\* Every step keeps hostd's view converging.
LEMMA ConvergenceInductive ==
  TypeOK /\ ViewConverges /\ [Next]_vars => ViewConverges'
<1> SUFFICES ASSUME TypeOK, ViewConverges, [Next]_vars
             PROVE  ViewConverges'
  OBVIOUS
<1>a. toHost \in Seq(GuestToHost) /\ inFlight \in TurnIdOrNone
  BY DEF TypeOK
<1>1. CASE StartTurn
  BY <1>1, BeginTurnConverges, QuietStep DEF StartTurn
<1>2. CASE BeginObservedTurn
  BY <1>2, BeginTurnConverges DEF BeginObservedTurn
<1>3. CASE ReplayNext
  BY <1>3, BeginTurnConverges DEF ReplayNext
<1>4. CASE EndTurn
  <2>1. CASE SendOk(Ended(inFlight)) /\ inFlight' = NoTurn
    <3>1. BearsOnTurns(Ended(inFlight))
          /\ InFlightAfter(Ended(inFlight)) = NoTurn
      BY DEF Ended, BearsOnTurns, InFlightAfter
    <3>2. Ended(inFlight) \in GuestToHost
      BY <1>4, <1>a, MessageTypes DEF EndTurn, Idle, TurnIdOrNone
    <3> QED
      BY <1>a, <2>1, <3>1, <3>2, AppendBearing DEF SendOk
  <2>2. CASE SendErr
    BY <2>2, QuietStep DEF SendErr
  <2> QED
    BY <1>4, <2>1, <2>2 DEF EndTurn
<1>5. CASE Resume
  <2>1. CASE SendOk(Resumed)
    <3>1. Resumed \in GuestToHost /\ ~BearsOnTurns(Resumed)
      BY MessageTypes DEF Resumed, BearsOnTurns
    <3>2. up /\ toHost' = Append(toHost, Resumed)
      BY <2>1 DEF SendOk
    <3>3. inFlight' = inFlight /\ view' = view
      BY <1>5 DEF Resume
    <3> QED
      BY <1>a, <3>1, <3>2, <3>3, AppendSilent
  <2>2. CASE SendErr
    BY <2>2, QuietStep DEF SendErr
  <2> QED
    BY <1>5, <2>1, <2>2 DEF Resume
<1>6. CASE HandleRunTurn
  <2> DEFINE t == Head(toGuest).turn
  <2>1. t \in Nat
    BY <1>6, ReceiveTypes DEF HandleRunTurn, Receive, HostToGuest, TypeOK
  <2>2. Started(t) \in GuestToHost /\ Ended(t) \in GuestToHost
    BY <2>1, MessageTypes
  <2>3. BearsOnTurns(Ended(t)) /\ InFlightAfter(Ended(t)) = NoTurn
    BY DEF Ended, BearsOnTurns, InFlightAfter
  <2> HIDE DEF t
  <2>4. CASE Idle /\ UNCHANGED inFlight
             /\ toHost' = toHost \o <<Started(t), Ended(t)>>
    <3>1. Append(toHost, Started(t)) \in Seq(GuestToHost)
          /\ toHost' = Append(Append(toHost, Started(t)), Ended(t))
      BY <1>a, <2>2, <2>4
    <3> QED
      BY <2>2, <2>3, <2>4, <3>1, AppendBearing DEF Idle
  <2>5. CASE ~up' \/ UNCHANGED <<up, toHost, view, inFlight>>
    BY <2>5, QuietStep
  <2> QED
    BY <1>6, <2>4, <2>5 DEF HandleRunTurn, SendErr, t
<1>7. CASE HandleDrainRequest
  <2>1. CASE SendOk(DrainAck(inFlight))
    <3>1. DrainAck(inFlight) \in GuestToHost
      BY <1>a, MessageTypes
    <3>2. BearsOnTurns(DrainAck(inFlight))
          /\ InFlightAfter(DrainAck(inFlight)) = inFlight
      BY DEF DrainAck, BearsOnTurns, InFlightAfter
    <3>3. toHost' = Append(toHost, DrainAck(inFlight)) /\ inFlight' = inFlight
      BY <1>7, <2>1 DEF HandleDrainRequest, SendOk
    <3> QED
      BY <1>a, <3>1, <3>2, <3>3, AppendBearing
  <2>2. CASE SendErr
    BY <2>2, QuietStep DEF SendErr
  <2> QED
    BY <1>7, <2>1, <2>2 DEF HandleDrainRequest, Send
<1>8. CASE HandleDrainCancel
  BY <1>8, QuietStep DEF HandleDrainCancel
<1>9. CASE HandlePing
  <2>1. CASE SendOk(Pong)
    <3>1. Pong \in GuestToHost /\ ~BearsOnTurns(Pong)
      BY MessageTypes DEF Pong, BearsOnTurns
    <3>2. up /\ toHost' = Append(toHost, Pong)
      BY <2>1 DEF SendOk
    <3>3. inFlight' = inFlight /\ view' = view
      BY <1>9 DEF HandlePing
    <3> QED
      BY <1>a, <3>1, <3>2, <3>3, AppendSilent
  <2>2. CASE SendErr
    BY <2>2, QuietStep DEF SendErr
  <2> QED
    BY <1>9, <2>1, <2>2 DEF HandlePing, Send
<1>10. CASE HostDrain
  \* A new attempt starts from a view that is not gated.
  BY <1>10 DEF HostDrain, Post, FreshView, ViewConverges, SilentFrom,
               BearsOnTurns, InFlightAfter
<1>11. CASE HostCancel
  BY <1>11, QuietStep DEF HostCancel, Post
<1>12. CASE HostRunTurn
  BY <1>12, QuietStep DEF HostRunTurn, Post
<1>13. CASE HostPing
  BY <1>13, QuietStep DEF HostPing, Post
<1>14. CASE HostReceive
  BY <1>14, FoldOldest
<1>15. CASE HostHangsUp
  BY <1>15, QuietStep DEF HostHangsUp
<1>16. CASE NewSession
  BY <1>16 DEF NewSession, FreshView, ViewConverges, SilentFrom,
               BearsOnTurns, InFlightAfter
<1>17. CASE UNCHANGED vars
  BY <1>17, QuietStep DEF vars
<1> QED
  BY <1>1, <1>2, <1>3, <1>4, <1>5, <1>6, <1>7, <1>8, <1>9, <1>10, <1>11,
     <1>12, <1>13, <1>14, <1>15, <1>16, <1>17 DEF Next

----------------------------------------------------------------------------
(* QuietViewIsTrue: one attempt at a time, no wrapped child                *)

\* What a message says of the end of the turn in flight is true for good.
Final(m) ==
  /\ m.type # "TurnStarted"
  /\ (BearsOnTurns(m) /\ InFlightAfter(m) = NoTurn) => Idle
FinalFrom(i) == \A k \in i..Len(toHost) : Final(toHost[k])

NoRequest == \A i \in 1..Len(toGuest) : toGuest[i].type # "DrainRequest"
NoCancel  == \A i \in 1..Len(toGuest) : toGuest[i].type # "DrainCancel"
NoAck     == \A i \in 1..Len(toHost) : toHost[i].type # "DrainAck"

\* One request, or its one ack, is under way or has been heard; no cancel
\* follows the request until its ack has been heard, and when the attempt ends
\* nothing of it is left.
OneAttempt ==
  /\ (up /\ ~draining) => (NoRequest /\ NoAck)
  /\ (draining /\ view.gated) => (NoRequest /\ NoAck /\ NoCancel)
  /\ \A i \in 1..Len(toHost) : toHost[i].type = "DrainAck" =>
       /\ NoRequest /\ NoCancel
       /\ \A k \in 1..Len(toHost) : toHost[k].type = "DrainAck" => k = i
  /\ \A i \in 1..Len(toGuest) : toGuest[i].type = "DrainRequest" =>
       \A k \in (i + 1)..Len(toGuest) :
         toGuest[k].type \notin {"DrainRequest", "DrainCancel"}

\* Once the guest has acked, it is gated: no turn starts any more, and what is
\* said from the ack on is final.
Settled ==
  (draining /\ ~wraps) =>
    /\ view.gated =>
         gated /\ (view.inFlight = NoTurn => Idle) /\ FinalFrom(1)
    /\ \A i \in 1..Len(toHost) :
         toHost[i].type = "DrainAck" => gated /\ FinalFrom(i)

\* Nothing the property speaks of changes when nothing is sent or folded and
\* no turn starts behind the gate.
LEMMA SettledUnsent ==
  ASSUME Settled, UNCHANGED <<wraps, toHost, view>>, draining' => draining,
         gated => gated' /\ (Idle => Idle')
  PROVE  Settled'
BY DEF Settled, FinalFrom, Final, BearsOnTurns, InFlightAfter

\* Behind a closed gate, a message that is final may follow the others; in
\* front of it, any but an ack may.
LEMMA SettledSent ==
  ASSUME Settled, toHost \in Seq(GuestToHost), NEW m \in GuestToHost,
         toHost' = Append(toHost, m), UNCHANGED <<wraps, view, draining>>,
         gated => gated' /\ (Idle => Idle'),
         gated' => Final(m)', m.type = "DrainAck" => gated'
  PROVE  Settled'
<1> SUFFICES ASSUME draining, ~wraps
             PROVE  /\ view.gated =>
                         /\ gated' /\ (view.inFlight = NoTurn => Idle')
                         /\ FinalFrom(1)'
                    /\ \A i \in 1..Len(toHost') :
                         toHost'[i].type = "DrainAck"
                           => gated' /\ FinalFrom(i)'
  BY DEF Settled
<1> DEFINE n == Len(toHost)
<1>1. n \in Nat /\ Len(toHost') = n + 1 /\ toHost'[n + 1] = m
      /\ \A i \in 1..n : toHost'[i] = toHost[i]
  OBVIOUS
<1>2. \A k \in 1..n : (gated /\ Final(toHost[k])) => Final(toHost[k])'
  BY <1>1 DEF Final, BearsOnTurns, InFlightAfter
<1>3. ASSUME NEW i \in 1..(n + 1), gated', i \in 1..n => gated /\ FinalFrom(i)
      PROVE  FinalFrom(i)'
  <2>1. ASSUME NEW k \in i..(n + 1) PROVE Final(toHost[k])'
    <3>1. CASE k = n + 1
      BY <1>1, <1>3, <3>1 DEF Final, BearsOnTurns, InFlightAfter
    <3>2. CASE k \in i..n
      BY <1>1, <1>2, <1>3, <3>2 DEF FinalFrom
    <3> QED
      BY <1>1, <2>1, <3>1, <3>2
  <2> QED
    BY <1>1, <2>1 DEF FinalFrom, Final, BearsOnTurns, InFlightAfter
<1>4. view.gated => /\ gated' /\ (view.inFlight = NoTurn => Idle')
                    /\ FinalFrom(1)'
  BY <1>1, <1>3 DEF Settled
<1>5. ASSUME NEW i \in 1..(n + 1), toHost'[i].type = "DrainAck"
      PROVE  gated' /\ FinalFrom(i)'
  <2>1. CASE i = n + 1
    BY <1>1, <1>3, <1>5, <2>1
  <2>2. CASE i \in 1..n
    BY <1>1, <1>3, <1>5, <2>2 DEF Settled
  <2> QED
    BY <1>1, <2>1, <2>2
<1> QED
  BY <1>1, <1>4, <1>5

\* In front of the gate nothing has been acked, whatever is sent there.
LEMMA SettledUngated ==
  ASSUME Settled, ~gated, UNCHANGED <<wraps, view>>, draining' => draining,
         \A i \in 1..Len(toHost') : toHost'[i].type = "DrainAck" =>
           \E k \in 1..Len(toHost) : toHost[k].type = "DrainAck"
  PROVE  Settled'
BY DEF Settled

\* hostd folds the oldest message; what it then holds to be final is.
LEMMA SettledReceive ==
  ASSUME Settled, TypeOK, HostReceive
  PROVE  Settled'
<1> DEFINE n == Len(toHost)
           m == Head(toHost)
<1>1. n \in Nat \ {0} /\ m = toHost[1] /\ m \in GuestToHost
      /\ Len(toHost') = n - 1
      /\ \A i \in 1..(n - 1) : toHost'[i] = toHost[i + 1]
  BY DEF HostReceive, TypeOK
<1>2. /\ UNCHANGED <<inFlight, gated, draining, wraps>>
      /\ view' = Observe(view, m)
      /\ view \in [gated : BOOLEAN, inFlight : TurnIdOrNone]
  BY DEF HostReceive, TypeOK
<1>3. \A i \in 1..(n - 1) : FinalFrom(i + 1) => FinalFrom(i)'
  <2> SUFFICES ASSUME NEW i \in 1..(n - 1), FinalFrom(i + 1),
                      NEW k \in i..(n - 1)
               PROVE  Final(toHost[k])'
    BY <1>1 DEF FinalFrom, Final, BearsOnTurns, InFlightAfter
  <2>1. k + 1 \in (i + 1)..n /\ toHost'[k] = toHost[k + 1]
    BY <1>1
  <2> QED
    BY <1>1, <1>2, <2>1 DEF FinalFrom, Final, Idle, BearsOnTurns, InFlightAfter
<1>4. FinalFrom(1) => FinalFrom(1)'
  <2>1. CASE n = 1
    BY <1>1, <2>1 DEF FinalFrom
  <2>2. CASE n > 1
    BY <1>1, <1>3, <2>2 DEF FinalFrom
  <2> QED
    BY <1>1, <2>1, <2>2
<1>5. ASSUME draining, ~wraps, view'.gated
      PROVE  gated /\ FinalFrom(1) /\ (view'.inFlight = NoTurn => Idle)
  <2>1. gated /\ FinalFrom(1)
    BY <1>1, <1>2, <1>5 DEF Settled, Observe
  <2>2. Final(m)
    BY <1>1, <2>1 DEF FinalFrom
  <2> QED
    BY <1>1, <1>2, <1>5, <2>1, <2>2
    DEF Settled, Observe, Final, BearsOnTurns, InFlightAfter
<1>6. ASSUME draining, ~wraps, NEW i \in 1..(n - 1),
             toHost'[i].type = "DrainAck"
      PROVE  gated /\ FinalFrom(i)'
  BY <1>1, <1>3, <1>6 DEF Settled
<1> QED
  BY <1>1, <1>2, <1>4, <1>5, <1>6 DEF Settled, Idle

\* The two links as a step sees them: the oldest message is gone, or one has
\* been added.
LEMMA LinkSteps ==
  ASSUME NEW S, NEW s \in Seq(S)
  PROVE  /\ Len(s) \in Nat
         /\ s # <<>> =>
              /\ 1 \in 1..Len(s) /\ Head(s) = s[1] /\ Len(Tail(s)) = Len(s) - 1
              /\ \A i \in 1..Len(Tail(s)) :
                   Tail(s)[i] = s[i + 1] /\ i + 1 \in 1..Len(s)
         /\ \A m \in S :
              /\ Len(Append(s, m)) = Len(s) + 1
              /\ Append(s, m)[Len(s) + 1] = m
              /\ \A i \in 1..Len(s) : Append(s, m)[i] = s[i]
OBVIOUS

\* Turn signals on the link leave its acks where they were.
LEMMA SignalsAreNoAcks ==
  ASSUME toHost \in Seq(GuestToHost), NEW a \in GuestToHost,
         NEW b \in GuestToHost, a.type # "DrainAck", b.type # "DrainAck",
         \/ toHost' = toHost
         \/ toHost' = Append(toHost, a)
         \/ toHost' = toHost \o <<a, b>>
  PROVE  \A i \in 1..Len(toHost') : toHost'[i].type = "DrainAck" =>
           i \in 1..Len(toHost) /\ toHost[i].type = "DrainAck"
<1>1. CASE toHost' = toHost
  BY <1>1
<1>2. CASE toHost' = Append(toHost, a)
  BY <1>2
<1>3. CASE toHost' = toHost \o <<a, b>>
  BY <1>3
<1> QED
  BY <1>1, <1>2, <1>3

\* What the guest's own steps do to the bookkeeping of the attempt: a message
\* of hostd's may be gone, and no ack has been added.
LEMMA AttemptStays ==
  ASSUME TypeOK, OneAttempt, view' = view, up' => up, draining' = draining,
         toGuest' = toGuest \/ (toGuest # <<>> /\ toGuest' = Tail(toGuest)),
         \A i \in 1..Len(toHost') : toHost'[i].type = "DrainAck" =>
           i \in 1..Len(toHost) /\ toHost[i].type = "DrainAck"
  PROVE  OneAttempt'
<1>1. \/ toGuest' = toGuest
      \/ /\ Len(toGuest') = Len(toGuest) - 1 /\ Len(toGuest) \in Nat
         /\ \A i \in 1..Len(toGuest') :
              toGuest'[i] = toGuest[i + 1] /\ i + 1 \in 1..Len(toGuest)
  <2>1. CASE toGuest' = toGuest
    BY <2>1
  <2>2. CASE toGuest # <<>> /\ toGuest' = Tail(toGuest)
    <3>1. toGuest \in Seq(HostToGuest)
      BY DEF TypeOK
    <3> QED
      BY <2>2, <3>1, LinkSteps
  <2> QED
    BY <2>1, <2>2
<1>2. (NoRequest => NoRequest') /\ (NoCancel => NoCancel')
  BY <1>1 DEF NoRequest, NoCancel
<1>3. NoAck => NoAck'
  BY DEF NoAck
<1>4. ASSUME NEW i \in 1..Len(toGuest'), toGuest'[i].type = "DrainRequest",
             NEW k \in (i + 1)..Len(toGuest')
      PROVE  toGuest'[k].type \notin {"DrainRequest", "DrainCancel"}
  <2>1. CASE toGuest' = toGuest
    BY <1>4, <2>1 DEF OneAttempt
  <2>2. CASE toGuest' # toGuest
    <3>1. /\ Len(toGuest) \in Nat /\ Len(toGuest') = Len(toGuest) - 1
          /\ k \in 1..Len(toGuest') /\ i + 1 \in 1..Len(toGuest)
          /\ toGuest'[i] = toGuest[i + 1] /\ toGuest'[k] = toGuest[k + 1]
      BY <1>1, <1>4, <2>2
    <3>2. k + 1 \in (i + 1 + 1)..Len(toGuest)
      BY <1>4, <3>1
    <3> QED
      BY <1>4, <3>1, <3>2 DEF OneAttempt
  <2> QED
    BY <2>1, <2>2
<1> QED
  BY <1>2, <1>3, <1>4 DEF OneAttempt

\* An attempt on the channel stays one attempt.
LEMMA OneInductive ==
  ASSUME TypeOK, TypeOK', OneAttempt, [Next]_vars
  PROVE  OneAttempt'
<1> USE DEF TypeOK
<1> DEFINE KeepsAcks ==
             \A i \in 1..Len(toHost') : toHost'[i].type = "DrainAck" =>
               i \in 1..Len(toHost) /\ toHost[i].type = "DrainAck"
<1>a. ASSUME NEW m \in GuestToHost, m.type # "DrainAck", SendOk(m) \/ SendErr
      PROVE  KeepsAcks /\ (up' => up)
  BY <1>a, SignalsAreNoAcks DEF SendOk, SendErr
<1>b. ASSUME BeginTurn PROVE KeepsAcks /\ (up' => up)
  BY <1>a, <1>b, MessageTypes DEF BeginTurn, Started
<1>c. ASSUME NEW type, NEW t, Post(type, t),
             [type |-> type, turn |-> t] \in HostToGuest
      PROVE  /\ toGuest'[Len(toGuest) + 1].type = type
             /\ Len(toGuest') = Len(toGuest) + 1 /\ Len(toGuest) \in Nat
             /\ \A i \in 1..Len(toGuest) : toGuest'[i] = toGuest[i]
             /\ toHost' = toHost /\ up /\ up'
  BY <1>c, LinkSteps DEF Post
<1>1. CASE StartTurn
  <2>1. KeepsAcks /\ (up' => up)
    BY <1>b, <1>1 DEF StartTurn
  <2> QED
    BY <1>1, <2>1, AttemptStays DEF StartTurn
<1>2. CASE BeginObservedTurn \/ ReplayNext
  BY <1>b, <1>2, AttemptStays DEF BeginObservedTurn, ReplayNext
<1>3. CASE EndTurn
  <2>1. Ended(inFlight) \in GuestToHost /\ Ended(inFlight).type # "DrainAck"
    BY <1>3, MessageTypes DEF EndTurn, Idle, TurnIdOrNone, Ended
  <2> QED
    BY <1>3, <1>a, <2>1, AttemptStays DEF EndTurn
<1>4. CASE Resume
  <2>1. KeepsAcks /\ (up' => up)
    BY <1>4, <1>a, MessageTypes DEF Resume, Resumed
  <2>2. CASE UNCHANGED draining
    BY <1>4, <2>1, <2>2, AttemptStays DEF Resume
  <2>3. CASE draining' = FALSE
    BY <1>4, <2>1, <2>3
    DEF Resume, Quiet, OneAttempt, NoRequest, NoCancel, NoAck
  <2> QED
    BY <1>4, <2>2, <2>3 DEF Resume
<1>5. CASE HandleRunTurn
  <2> DEFINE t == Head(toGuest).turn
  <2>1. Started(t) \in GuestToHost /\ Ended(t) \in GuestToHost
    BY <1>5, ReceiveTypes, MessageTypes DEF HandleRunTurn, Receive, HostToGuest
  <2>2. Started(t).type # "DrainAck" /\ Ended(t).type # "DrainAck"
    BY DEF Started, Ended
  <2> HIDE DEF t
  <2>3. \/ toHost' = toHost
        \/ toHost' = Append(toHost, Started(t))
        \/ toHost' = toHost \o <<Started(t), Ended(t)>>
    BY <1>5 DEF HandleRunTurn, SendErr, t
  <2>a. up' => up
    BY <1>5 DEF HandleRunTurn, SendErr
  <2>4. KeepsAcks
    BY <2>1, <2>2, <2>3, SignalsAreNoAcks
  <2> QED
    BY <1>5, <2>a, <2>4, AttemptStays DEF HandleRunTurn, Receive
<1>6. CASE HandleDrainRequest
  <2>1. CASE SendErr
    BY <1>6, <2>1, AttemptStays DEF HandleDrainRequest, Receive, SendErr
  <2>2. CASE SendOk(DrainAck(inFlight))
    <3>1. /\ 1 \in 1..Len(toGuest) /\ toGuest[1].type = "DrainRequest"
          /\ Len(toGuest) \in Nat /\ Len(toGuest') = Len(toGuest) - 1
          /\ \A i \in 1..Len(toGuest') :
               toGuest'[i] = toGuest[i + 1] /\ i + 1 \in 1..Len(toGuest)
      BY <1>6, LinkSteps DEF HandleDrainRequest, Receive
    <3>2. \A k \in (1 + 1)..Len(toGuest) :
            toGuest[k].type \notin {"DrainRequest", "DrainCancel"}
      BY <3>1 DEF OneAttempt
    <3>a. NoRequest' /\ NoCancel'
      <4> SUFFICES ASSUME NEW i \in 1..Len(toGuest')
                   PROVE  toGuest'[i].type \notin {"DrainRequest",
                                                   "DrainCancel"}
        BY DEF NoRequest, NoCancel
      <4>1. i + 1 \in (1 + 1)..Len(toGuest)
        BY <3>1
      <4> QED
        BY <3>1, <3>2, <4>1
    <3>3. ~NoRequest
      BY <3>1 DEF NoRequest
    <3>4. NoAck /\ draining /\ ~view.gated
      BY <2>2, <3>3 DEF OneAttempt, NoAck, SendOk
    <3>5. \A i \in 1..Len(toHost') : toHost'[i].type = "DrainAck" =>
            i = Len(toHost) + 1
      BY <2>2, <3>4 DEF SendOk, NoAck
    <3>6. draining' /\ ~view'.gated
      BY <1>6, <3>4 DEF HandleDrainRequest
    <3> QED
      BY <3>a, <3>5, <3>6 DEF OneAttempt, NoRequest
  <2> QED
    BY <1>6, <2>1, <2>2 DEF HandleDrainRequest, Send
<1>7. CASE HandleDrainCancel
  BY <1>7, AttemptStays DEF HandleDrainCancel, Receive
<1>8. CASE HandlePing
  <2>1. KeepsAcks /\ (up' => up)
    BY <1>8, <1>a, MessageTypes DEF HandlePing, Send, Pong
  <2> QED
    BY <1>8, <2>1, AttemptStays DEF HandlePing, Receive
<1>9. CASE HostDrain
  <2>1. [type |-> "DrainRequest", turn |-> NoTurn] \in HostToGuest
    BY DEF HostToGuest
  <2>2. Post("DrainRequest", NoTurn) /\ ~draining /\ draining' /\ ~view'.gated
    BY <1>9 DEF HostDrain, FreshView
  <2>3. NoRequest /\ NoAck /\ NoAck'
    BY <1>c, <2>1, <2>2 DEF OneAttempt, NoAck
  <2>4. ASSUME NEW i \in 1..Len(toGuest'), toGuest'[i].type = "DrainRequest"
        PROVE  i = Len(toGuest')
    BY <1>c, <2>1, <2>2, <2>3, <2>4 DEF NoRequest
  <2> QED
    BY <2>2, <2>3, <2>4 DEF OneAttempt, NoAck
<1>10. CASE HostCancel
  <2>1. [type |-> "DrainCancel", turn |-> NoTurn] \in HostToGuest
    BY DEF HostToGuest
  <2>2. /\ Post("DrainCancel", NoTurn) /\ draining' = FALSE
        /\ draining /\ view.gated
    BY <1>10 DEF HostCancel, HeardBusy
  <2>3. NoRequest /\ NoAck /\ NoAck'
    BY <1>c, <2>1, <2>2 DEF OneAttempt, NoAck
  <2>4. NoRequest'
    <3>1. /\ toGuest'[Len(toGuest) + 1].type = "DrainCancel"
          /\ Len(toGuest') = Len(toGuest) + 1 /\ Len(toGuest) \in Nat
          /\ \A i \in 1..Len(toGuest) : toGuest'[i] = toGuest[i]
      BY <1>c, <2>1, <2>2
    <3> SUFFICES ASSUME NEW i \in 1..Len(toGuest')
                 PROVE  toGuest'[i].type # "DrainRequest"
      BY DEF NoRequest
    <3>2. i = Len(toGuest) + 1 \/ i \in 1..Len(toGuest)
      BY <3>1
    <3> QED
      BY <2>3, <3>1, <3>2 DEF NoRequest
  <2> QED
    BY <2>2, <2>3, <2>4 DEF OneAttempt, NoAck, NoRequest
<1>11. CASE HostRunTurn \/ HostPing
  <2>1. PICK type \in {"RunTurn", "Ping"}, t \in TurnIdOrNone :
          /\ Post(type, t) /\ [type |-> type, turn |-> t] \in HostToGuest
          /\ UNCHANGED <<view, draining>>
    BY <1>11 DEF HostRunTurn, HostPing, HostToGuest, TurnIdOrNone
  <2>2. /\ toGuest'[Len(toGuest) + 1].type = type
        /\ Len(toGuest') = Len(toGuest) + 1 /\ Len(toGuest) \in Nat
        /\ \A i \in 1..Len(toGuest) : toGuest'[i] = toGuest[i]
        /\ toHost' = toHost /\ up /\ up'
    BY <1>c, <2>1
  <2>a. \A i \in 1..Len(toGuest') :
          \/ i = Len(toGuest) + 1 /\ toGuest'[i].type \in {"RunTurn", "Ping"}
          \/ i \in 1..Len(toGuest) /\ toGuest'[i] = toGuest[i]
    <3> SUFFICES ASSUME NEW i \in 1..Len(toGuest')
                 PROVE  \/ /\ i = Len(toGuest) + 1
                           /\ toGuest'[i].type \in {"RunTurn", "Ping"}
                        \/ i \in 1..Len(toGuest) /\ toGuest'[i] = toGuest[i]
      OBVIOUS
    <3>1. i = Len(toGuest) + 1 \/ i \in 1..Len(toGuest)
      BY <2>2
    <3> QED
      BY <2>1, <2>2, <3>1
  <2>3. (NoRequest => NoRequest') /\ (NoCancel => NoCancel')
    BY <2>a DEF NoRequest, NoCancel
  <2>4. ASSUME NEW i \in 1..Len(toGuest'), toGuest'[i].type = "DrainRequest",
               NEW k \in (i + 1)..Len(toGuest')
        PROVE  toGuest'[k].type \notin {"DrainRequest", "DrainCancel"}
    <3>1. i \in 1..Len(toGuest) /\ toGuest[i].type = "DrainRequest"
      BY <2>a, <2>4
    <3>2. k \in 1..Len(toGuest')
      BY <2>2, <2>4
    <3>3. CASE toGuest'[k].type \in {"RunTurn", "Ping"}
      BY <3>3
    <3>4. CASE k \in 1..Len(toGuest) /\ toGuest'[k] = toGuest[k]
      <4>1. k \in (i + 1)..Len(toGuest)
        BY <2>2, <2>4, <3>4
      <4> QED
        BY <3>1, <3>4, <4>1 DEF OneAttempt
    <3> QED
      BY <2>a, <3>2, <3>3, <3>4
  <2> QED
    BY <2>1, <2>2, <2>3, <2>4 DEF OneAttempt, NoAck
<1>12. CASE HostReceive
  <2>1. /\ 1 \in 1..Len(toHost) /\ Head(toHost) = toHost[1]
        /\ toHost[1] \in GuestToHost
        /\ Len(toHost) \in Nat /\ Len(toHost') = Len(toHost) - 1
        /\ \A i \in 1..Len(toHost') :
             toHost'[i] = toHost[i + 1] /\ i + 1 \in 1..Len(toHost)
    BY <1>12, LinkSteps DEF HostReceive
  <2>2. /\ UNCHANGED <<up, toGuest, draining>>
        /\ view' = Observe(view, toHost[1])
    BY <1>12, <2>1 DEF HostReceive
  <2>3. (NoRequest' <=> NoRequest) /\ (NoCancel' <=> NoCancel)
    BY <2>2 DEF NoRequest, NoCancel
  <2>4. NoAck => NoAck'
    BY <2>1 DEF NoAck
  <2>5. ASSUME toHost[1].type = "DrainAck"
        PROVE  NoRequest /\ NoCancel /\ NoAck'
    <3>1. ASSUME NEW i \in 1..Len(toHost'), toHost'[i].type = "DrainAck"
          PROVE  FALSE
      <4>1. i + 1 \in 1..Len(toHost) /\ toHost[i + 1].type = "DrainAck"
        BY <2>1, <3>1
      <4>2. i + 1 = 1
        BY <2>1, <2>5, <4>1 DEF OneAttempt
      <4> QED
        BY <4>2
    <3> QED
      BY <2>1, <2>5, <3>1 DEF OneAttempt, NoAck
  <2>6. view'.gated => view.gated \/ toHost[1].type = "DrainAck"
    BY <2>1, <2>2 DEF Observe, GuestToHost
  <2>7. ASSUME NEW i \in 1..Len(toHost'), toHost'[i].type = "DrainAck"
        PROVE  /\ NoRequest /\ NoCancel
               /\ \A k \in 1..Len(toHost') :
                    toHost'[k].type = "DrainAck" => k = i
    <3>1. i + 1 \in 1..Len(toHost) /\ toHost[i + 1].type = "DrainAck"
      BY <2>1, <2>7
    <3>2. ASSUME NEW k \in 1..Len(toHost'), toHost'[k].type = "DrainAck"
          PROVE  k = i
      <4>1. k + 1 \in 1..Len(toHost) /\ toHost[k + 1].type = "DrainAck"
        BY <2>1, <3>2
      <4>2. k + 1 = i + 1
        BY <3>1, <4>1 DEF OneAttempt
      <4> QED
        BY <4>2
    <3> QED
      BY <3>1, <3>2 DEF OneAttempt
  <2> QED
    BY <2>2, <2>3, <2>4, <2>5, <2>6, <2>7 DEF OneAttempt
<1>13. CASE HostHangsUp
  BY <1>13, AttemptStays DEF HostHangsUp, OneAttempt, NoRequest, NoCancel
<1>14. CASE NewSession
  BY <1>14 DEF NewSession, OneAttempt, NoRequest, NoCancel, NoAck
<1>15. CASE UNCHANGED vars
  BY <1>15, AttemptStays DEF vars
<1> QED
  BY <1>1, <1>2, <1>3, <1>4, <1>5, <1>6, <1>7, <1>8, <1>9, <1>10, <1>11,
     <1>12, <1>13, <1>14, <1>15 DEF Next

\* Every step keeps what was said final.
LEMMA SettledInductive ==
  ASSUME TypeOK, TypeOK', OneAttempt, Settled, [Next]_vars
  PROVE  Settled'
<1>a. toHost \in Seq(GuestToHost) /\ inFlight \in TurnIdOrNone
  BY DEF TypeOK
<1>b. ASSUME BeginTurn, ~gated, UNCHANGED <<wraps, view, draining>>
      PROVE  Settled'
  <2>1. Started(nextTurn) \in GuestToHost
        /\ Started(nextTurn).type # "DrainAck"
    BY MessageTypes DEF TypeOK, Started
  <2>2. toHost' = toHost \/ toHost' = Append(toHost, Started(nextTurn))
    BY <1>b DEF BeginTurn, SendOk, SendErr
  <2> QED
    BY <1>a, <1>b, <2>1, <2>2, SignalsAreNoAcks, SettledUngated
<1>1. CASE StartTurn
  BY <1>1, <1>b, SettledUnsent DEF StartTurn, Idle
<1>2. CASE BeginObservedTurn
  BY <1>2 DEF BeginObservedTurn, Settled
<1>3. CASE ReplayNext
  BY <1>3, <1>b DEF ReplayNext
<1>4. CASE EndTurn
  <2>1. CASE SendOk(Ended(inFlight)) /\ inFlight' = NoTurn
    <3>1. Ended(inFlight) \in GuestToHost
      BY <1>4, <1>a, MessageTypes DEF EndTurn, Idle, TurnIdOrNone
    <3> QED
      BY <1>4, <1>a, <2>1, <3>1, SettledSent
      DEF EndTurn, SendOk, Final, Idle, Ended
  <2>2. CASE SendErr /\ UNCHANGED inFlight
    BY <1>4, <2>2, SettledUnsent DEF EndTurn, SendErr, Idle
  <2> QED
    BY <1>4, <2>1, <2>2 DEF EndTurn
<1>5. CASE Resume
  <2>1. CASE draining' = FALSE
    BY <2>1 DEF Settled
  <2>2. CASE SendErr /\ UNCHANGED <<gated, draining>>
    BY <1>5, <2>2, SettledUnsent DEF Resume, SendErr, Idle
  <2> QED
    BY <1>5, <2>1, <2>2 DEF Resume
<1>6. CASE HandleRunTurn
  <2>1. CASE gated
    BY <1>6, <2>1, SettledUnsent DEF HandleRunTurn, Idle
  <2>2. CASE ~gated
    <3> DEFINE t == Head(toGuest).turn
    <3>1. Started(t) \in GuestToHost /\ Ended(t) \in GuestToHost
      BY <1>6, ReceiveTypes, MessageTypes
      DEF HandleRunTurn, Receive, HostToGuest, TypeOK
    <3>2. Started(t).type # "DrainAck" /\ Ended(t).type # "DrainAck"
      BY DEF Started, Ended
    <3> HIDE DEF t
    <3>3. \A i \in 1..Len(toHost') : toHost'[i].type = "DrainAck" =>
            \E k \in 1..Len(toHost) : toHost[k].type = "DrainAck"
      <4>1. \/ toHost' = toHost
            \/ toHost' = Append(toHost, Started(t))
            \/ toHost' = toHost \o <<Started(t), Ended(t)>>
        BY <1>6 DEF HandleRunTurn, SendErr, t
      <4> QED
        BY <1>a, <3>1, <3>2, <4>1, SignalsAreNoAcks
    <3> QED
      BY <1>6, <2>2, <3>3, SettledUngated DEF HandleRunTurn
  <2> QED
    BY <2>1, <2>2
<1>7. CASE HandleDrainRequest
  <2>1. CASE SendOk(DrainAck(inFlight))
    <3>1. DrainAck(inFlight) \in GuestToHost
      BY <1>a, MessageTypes
    <3>2. Final(DrainAck(inFlight))'
      BY <1>7 DEF HandleDrainRequest, Final, DrainAck, InFlightAfter, Idle
    <3> QED
      BY <1>7, <1>a, <2>1, <3>1, SettledSent
      DEF HandleDrainRequest, SendOk, Final, DrainAck, InFlightAfter, Idle
  <2>2. CASE SendErr
    BY <1>7, <2>2, SettledUnsent DEF HandleDrainRequest, SendErr, Idle
  <2> QED
    BY <1>7, <2>1, <2>2 DEF HandleDrainRequest, Send
<1>8. CASE HandleDrainCancel
  \* A cancel still to be read: the attempt's own request has not been acked.
  <2>1. ~NoCancel
    BY <1>8, LinkSteps DEF HandleDrainCancel, Receive, NoCancel, TypeOK
  <2>2. /\ ~(draining /\ view.gated)
        /\ \A i \in 1..Len(toHost) : toHost[i].type # "DrainAck"
    BY <2>1 DEF OneAttempt
  <2> QED
    BY <1>8, <2>2 DEF HandleDrainCancel, Settled
<1>9. CASE HandlePing
  <2>1. CASE SendOk(Pong)
    BY <1>9, <1>a, <2>1, MessageTypes, SettledSent
    DEF HandlePing, SendOk, Pong, Final, BearsOnTurns, Idle
  <2>2. CASE SendErr
    BY <1>9, <2>2, SettledUnsent DEF HandlePing, SendErr, Idle
  <2> QED
    BY <1>9, <2>1, <2>2 DEF HandlePing, Send
<1>10. CASE HostDrain
  BY <1>10 DEF HostDrain, Post, OneAttempt, NoAck, Settled, FreshView
<1>11. CASE HostCancel \/ HostHangsUp \/ NewSession
  BY <1>11 DEF HostCancel, HostHangsUp, NewSession, Settled
<1>12. CASE HostRunTurn
  BY <1>12, SettledUnsent DEF HostRunTurn, Post, Idle
<1>13. CASE HostPing
  BY <1>13, SettledUnsent DEF HostPing, Post, Idle
<1>14. CASE HostReceive
  BY <1>14, SettledReceive
<1>15. CASE UNCHANGED vars
  BY <1>15, SettledUnsent DEF vars, Idle
<1> QED
  BY <1>1, <1>2, <1>3, <1>4, <1>5, <1>6, <1>7, <1>8, <1>9, <1>10, <1>11,
     <1>12, <1>13, <1>14, <1>15 DEF Next

\* Whatever the gate, the cancels and the failing sends do, no turn the guest
\* accepted (start_turn, run_turn, begin_observed_turn) is lost or counted
\* twice: it has ended, waits in the backlog, or is in flight.
THEOREM GuestConservesTurns == Spec => []ZeroDroppedTurns
<1>1. Init => ZeroDroppedTurns
  BY DEF Init, ZeroDroppedTurns, Idle
<1> QED
  BY <1>1, GuestTypeOK, ConservationInductive, PTL DEF Spec

\* hostd's AppLayer, folding what is on the wire in order, always ends at the
\* turn the supervisor really has in flight, whether DrainAck or a turn
\* signal comes last.
THEOREM GuestViewConverges == Spec => []ViewConverges
<1>1. Init => ViewConverges
  BY DEF Init, ViewConverges, FreshView, SilentFrom, BearsOnTurns,
         InFlightAfter
<1> QED
  BY <1>1, GuestTypeOK, ConvergenceInductive, PTL DEF Spec

\* start_turn, run_turn and replay_next begin a turn only with the gate open;
\* only a wrapped child's own turn (begin_observed_turn) passes it.
THEOREM GuestGateHolds == Spec => NoStartWhileGated
<1>1. TypeOK /\ [Next]_vars
        => [(Idle /\ inFlight' # NoTurn /\ gated) => BeginObservedTurn]_vars
  <2> SUFFICES ASSUME TypeOK, [Next]_vars, Idle, inFlight' # NoTurn, gated
               PROVE  BeginObservedTurn
    OBVIOUS
  <2> USE DEF Idle
  <2>1. CASE inFlight' = inFlight
    BY <2>1
  <2>2. CASE BeginObservedTurn
    BY <2>2
  <2>3. CASE StartTurn \/ ReplayNext \/ EndTurn \/ HandleRunTurn
    BY <2>3 DEF StartTurn, ReplayNext, EndTurn, HandleRunTurn
  <2>4. CASE Resume \/ HandleDrainRequest \/ HandleDrainCancel \/ HandlePing
             \/ HostReceive
    BY <2>1, <2>4 DEF Resume, HandleDrainRequest, HandleDrainCancel,
                      HandlePing, HostReceive
  <2>5. CASE HostDrain \/ HostCancel \/ HostRunTurn \/ HostPing
    BY <2>1, <2>5 DEF HostDrain, HostCancel, HostRunTurn, HostPing, Post
  <2>6. CASE HostHangsUp \/ NewSession
    BY <2>6 DEF HostHangsUp, NewSession
  <2> QED
    BY <2>1, <2>2, <2>3, <2>4, <2>5, <2>6 DEF Next, vars
<1> QED
  BY <1>1, GuestTypeOK, PTL DEF Spec, NoStartWhileGated

\* The race rule, seen from drain_to_quiescence: once AppLayer has folded a
\* host-driven guest's ack and is quiet, the guest is gated and idle and stays
\* so until the attempt ends, whatever earlier attempts on the channel left and
\* even when the channel breaks.
THEOREM GuestQuietIsTrue == Spec => []QuietViewIsTrue
<1>1. Init => OneAttempt /\ Settled
  BY DEF Init, OneAttempt, NoRequest, NoCancel, NoAck, Settled
<1>2. TypeOK /\ TypeOK' /\ OneAttempt /\ Settled /\ [Next]_vars
        => (OneAttempt /\ Settled)'
  BY OneInductive, SettledInductive
<1>3. Settled => QuietViewIsTrue
  BY DEF Settled, QuietViewIsTrue, Quiet
<1> QED
  BY <1>1, <1>2, <1>3, GuestTypeOK, PTL DEF Spec

============================================================================
