-------------------------- MODULE RebalanceProofs --------------------------
(***************************************************************************)
(* Proofs about Rebalance, for any fleet, any sizes and any readings: the  *)
(* VM a send names is there, whatever the daemons report; and what a step  *)
(* that begins settled decides is true of the fleet.                       *)
(***************************************************************************)
EXTENDS Rebalance, WellFoundedInduction, FiniteSetTheorems, TLAPS

\* The types the argument needs.
FleetTypes ==
  /\ life \in [Guests -> Lives]
  /\ id \in [Guests -> VmIds]
  /\ pc \in Pcs
  /\ vms \in [Hosts -> SUBSET VmIds]

\* No two guests have one id.
IdsDiffer == \A g, k \in Guests : id[g] = id[k] => g = k

\* Until the send is answered, every id that was read is still registered
\* where it was read: restores only add to a registry.
ReadingHolds ==
  pc \in {"reading", "deciding", "receiving", "sending"} =>
    \A h \in Hosts : vms[h] \subseteq IdsOn(h)

\* The move under way names an id that was read on its source.
MoveWasRead ==
  pc \in {"receiving", "sending"} =>
    move.from \in Hosts /\ move.vm \in vms[move.from]

IInv == FleetTypes /\ IdsDiffer /\ ReadingHolds /\ MoveWasRead

\* A step that leaves the registries and the reading alone and starts no
\* reading or move of its own keeps the invariant.
LEMMA QuietStep ==
  ASSUME IInv, UNCHANGED <<host, life, id, vms, move>>,
         pc' \in Pcs,
         pc' \in {"reading", "deciding", "receiving", "sending"} =>
           pc \in {"reading", "deciding", "receiving", "sending"},
         pc' \in {"receiving", "sending"} => pc \in {"receiving", "sending"}
  PROVE  IInv'
  BY DEF IInv, FleetTypes, IdsDiffer, ReadingHolds, MoveWasRead, IdsOn,
         Registered

\* A step of a receiving task registers a guest that was not registered, or
\* changes nothing that a registry shows.
LEMMA ReadingSurvives ==
  ASSUME IInv, UNCHANGED <<host, vms, move, pc>>,
         life' \in [Guests -> Lives], id' \in [Guests -> VmIds],
         IdsDiffer',
         \A g \in Guests : life[g] \in {"listed", "cold"} =>
           life'[g] \in {"listed", "cold"} /\ id'[g] = id[g]
  PROVE  IInv'
<1>1. \A h \in Hosts : IdsOn(h) \subseteq IdsOn(h)'
  BY DEF IdsOn, Registered
<1>2. ReadingHolds'
  BY <1>1 DEF IInv, ReadingHolds
<1>3. QED
  BY <1>2 DEF IInv, FleetTypes, MoveWasRead

\* A fleet that has just been started has unique ids and nothing read.
LEMMA InitHolds == Init => IInv
<1> SUFFICES ASSUME Init PROVE IInv
  OBVIOUS
<1>1. FleetTypes
  BY DEF Init, FleetTypes, Lives, Pcs
<1>2. IdsDiffer
  BY DEF Init, IdsDiffer
<1>3. ReadingHolds
  BY DEF Init, ReadingHolds
<1>4. MoveWasRead
  BY DEF Init, MoveWasRead
<1>5. QED
  BY <1>1, <1>2, <1>3, <1>4 DEF IInv

\* What is added to the reading is registered where it is read.
LEMMA ReadStatusHolds ==
  ASSUME IInv, NEW h \in Hosts, ReadStatus(h)
  PROVE  IInv'
<1>1. /\ UNCHANGED <<host, life, id, move>>
      /\ pc = "reading" /\ pc' \in {"reading", "deciding"}
      /\ vms' = [vms EXCEPT ![h] = @ \cup IdsOn(h)]
  BY DEF ReadStatus, fleetVars
<1>2. \A k \in Hosts : IdsOn(k) \subseteq VmIds /\ IdsOn(k)' = IdsOn(k)
  BY <1>1 DEF IInv, FleetTypes, IdsOn, Registered
<1>3. FleetTypes'
  BY <1>1, <1>2 DEF IInv, FleetTypes, Pcs
<1>4. IdsDiffer'
  BY <1>1 DEF IInv, IdsDiffer
<1>5. ReadingHolds'
  BY <1>1, <1>2 DEF IInv, FleetTypes, ReadingHolds
<1>6. MoveWasRead'
  BY <1>1 DEF MoveWasRead
<1>7. QED
  BY <1>3, <1>4, <1>5, <1>6 DEF IInv

\* The move that is picked was read.
LEMMA DecideHolds ==
  ASSUME IInv, Decide
  PROVE  IInv'
<1>1. /\ UNCHANGED <<host, life, id, vms>>
      /\ pc = "deciding" /\ pc' = "receiving"
      /\ move' \in Picks
  BY DEF Decide, fleetVars, viewVars
<1>2. move'.from \in Hosts /\ move'.vm \in vms[move'.from]
  BY <1>1 DEF Picks, Moves, IsMostIdle
<1>3. FleetTypes' /\ IdsDiffer'
  BY <1>1 DEF IInv, FleetTypes, IdsDiffer, Pcs
<1>4. ReadingHolds'
  BY <1>1 DEF IInv, ReadingHolds, IdsOn, Registered
<1>5. MoveWasRead'
  BY <1>1, <1>2 DEF MoveWasRead
<1>6. QED
  BY <1>3, <1>4, <1>5 DEF IInv

\* Once the send is answered nothing is claimed of the reading any more.
LEMMA AnsweredHolds ==
  ASSUME IInv, UNCHANGED <<id, vms>>, life' \in [Guests -> Lives],
         pc' \in {"resting", "ended"}
  PROVE  IInv'
  BY DEF IInv, FleetTypes, IdsDiffer, ReadingHolds, MoveWasRead, Pcs

\* A new step starts from empty maps.
LEMMA NextStepHolds ==
  ASSUME IInv, NextStep
  PROVE  IInv'
<1>1. /\ UNCHANGED <<host, life, id>>
      /\ pc' = "reading"
      /\ vms' = [h \in Hosts |-> {}]
  BY DEF NextStep, StartReading, fleetVars
<1>2. QED
  BY <1>1 DEF IInv, FleetTypes, IdsDiffer, ReadingHolds, MoveWasRead, Pcs

\* No request of the rebalancer makes its reading wrong before the answer.
LEMMA LoopStepHolds ==
  ASSUME IInv, LoopStep
  PROVE  IInv'
<1>1. CASE \E h \in Hosts : ReadStatus(h)
  BY <1>1, ReadStatusHolds
<1>2. CASE Decide
  BY <1>2, DecideHolds
<1>3. CASE StatusFails \/ DecideNothing \/ ReceiveFails \/ SendRefused
             \/ LastStep
  BY <1>3, AnsweredHolds
  DEF StatusFails, DecideNothing, ReceiveFails, SendRefused, LastStep, End,
      fleetVars, viewVars, IInv, FleetTypes
<1>4. CASE Receive
  BY <1>4, QuietStep DEF Receive, viewVars, Pcs
<1>5. ASSUME NEW g \in Guests, SendMoves(g) \/ SendFails(g)
      PROVE  IInv'
  BY <1>5, AnsweredHolds
  DEF SendMoves, SendFails, End, viewVars, IInv, FleetTypes, Lives
<1>6. CASE NextStep
  BY <1>6, NextStepHolds
<1>7. QED
  BY <1>1, <1>2, <1>3, <1>4, <1>5, <1>6 DEF LoopStep

\* Restores that end meanwhile take a fresh id and take none away.
LEMMA FleetStepHolds ==
  ASSUME IInv, FleetStep
  PROVE  IInv'
<1>1. ASSUME NEW g \in Guests, Restored(g)
      PROVE  IInv'
  <2>1. PICK v \in FreshIds : id' = [id EXCEPT ![g] = v]
    BY <1>1 DEF Restored
  <2>2. v \in VmIds /\ \A k \in Guests : id[k] # v
    BY DEF FreshIds
  <2>3. IdsDiffer'
    BY <2>1, <2>2 DEF IInv, FleetTypes, IdsDiffer
  <2>4. /\ UNCHANGED <<host, vms, move, pc>>
        /\ life[g] = "restoring"
        /\ life' = [life EXCEPT ![g] = "cold"]
    BY <1>1 DEF Restored, viewVars, loopVars
  <2>5. life' \in [Guests -> Lives] /\ id' \in [Guests -> VmIds]
    BY <2>1, <2>2, <2>4 DEF IInv, FleetTypes, Lives
  <2>6. \A k \in Guests : life[k] \in {"listed", "cold"} =>
          life'[k] \in {"listed", "cold"} /\ id'[k] = id[k]
    BY <2>1, <2>4 DEF IInv, FleetTypes
  <2>7. QED
    BY <2>3, <2>4, <2>5, <2>6, ReadingSurvives
<1>2. ASSUME NEW g \in Guests, RestoreFails(g) \/ PagesIn(g)
      PROVE  IInv'
  <2>1. /\ UNCHANGED <<host, id, vms, move, pc>>
        /\ \/ life[g] = "restoring" /\ life' = [life EXCEPT ![g] = "lost"]
           \/ life[g] = "cold" /\ life' = [life EXCEPT ![g] = "listed"]
    BY <1>2 DEF RestoreFails, PagesIn, viewVars, loopVars
  <2>2. life' \in [Guests -> Lives] /\ id' \in [Guests -> VmIds]
    BY <2>1 DEF IInv, FleetTypes, Lives
  <2>3. IdsDiffer'
    BY <2>1 DEF IInv, IdsDiffer
  <2>4. \A k \in Guests : life[k] \in {"listed", "cold"} =>
          life'[k] \in {"listed", "cold"} /\ id'[k] = id[k]
    BY <2>1 DEF IInv, FleetTypes
  <2>5. QED
    BY <2>1, <2>2, <2>3, <2>4, ReadingSurvives
<1>3. ASSUME NEW h \in Hosts, AcceptTimesOut(h)
      PROVE  IInv'
  BY <1>3, QuietStep
  DEF AcceptTimesOut, viewVars, loopVars, IInv, FleetTypes
<1>4. QED
  BY <1>1, <1>2, <1>3 DEF FleetStep

\* Every step keeps what the send relies on.
LEMMA StepHolds ==
  ASSUME IInv, [Next]_vars
  PROVE  IInv'
<1>1. CASE Next
  BY <1>1, LoopStepHolds, FleetStepHolds DEF Next
<1>2. CASE UNCHANGED vars
  BY <1>2, QuietStep
  DEF vars, fleetVars, viewVars, loopVars, IInv, FleetTypes
<1>3. QED
  BY <1>1, <1>2

\* An id read on the source is still there, and is one guest's.
LEMMA NamedVmIsThere == IInv => VictimIsThere
<1> SUFFICES ASSUME IInv, pc = "sending"
             PROVE  \E g \in Guests : Victims = {g}
  BY DEF VictimIsThere
<1>1. move.vm \in IdsOn(move.from)
  BY DEF IInv, ReadingHolds, MoveWasRead
<1>2. PICK g \in Guests : Registered(g, move.from) /\ id[g] = move.vm
  BY <1>1 DEF IdsOn
<1>3. Victims = {g}
  BY <1>2 DEF Victims, IInv, IdsDiffer
<1>4. QED
  BY <1>3

\* The rebalancer never asks a daemon for a VM it does not have, and never
\* for one that two guests could answer to, however long the requests of a
\* step take and whatever the receiving tasks of earlier moves do meanwhile
\* (rebalance_once, control.rs:106-137).
THEOREM SendsFindTheirVm == Spec => []VictimIsThere
<1>1. Init => IInv
  BY InitHolds
<1>2. IInv /\ [Next]_vars => IInv'
  BY StepHolds
<1>3. IInv => VictimIsThere
  BY NamedVmIsThere
<1>4. QED
  BY <1>1, <1>2, <1>3, PTL DEF Spec

-----------------------------------------------------------------------------
(* Sums.  What a host uses is a sum over its guests, in an order nobody    *)
(* fixes; the library defines it by recursion over the set.  A set of      *)
(* naturals has a least element, and that is enough to reason about it.    *)

\* A descent ends: every set of naturals with an element has a least one.
LEMMA Least ==
  ASSUME NEW T \in SUBSET Nat, T # {}
  PROVE  \E n \in T : \A k \in T : n <= k
<1> DEFINE R == OpToRel(<, Nat)
<1>1. R = {ss \in Nat \X Nat : ss[1] < ss[2]}
  BY DEF OpToRel
<1>2. IsWellFoundedOn(R, Nat)
  BY NatLessThanWellFounded
<1> HIDE DEF R
<1>3. PICK n \in T : \A k \in T : ~(<<k, n>> \in R)
  BY <1>2, WFMin
<1>4. ASSUME NEW k \in T PROVE n <= k
  <2>1. n \in Nat /\ k \in Nat
    OBVIOUS
  <2>2. ~(k < n)
    BY <1>1, <1>3, <2>1
  <2> QED
    BY <2>1, <2>2
<1> QED
  BY <1>4

Pick(s) == CHOOSE x \in s : TRUE

\* One unfolding of the sum, on every subset of S at once.
AddUp(f, S) ==
  [s \in SUBSET S |->
     IF s = {} THEN 0 ELSE Size[Pick(s)] + f[s \ {Pick(s)}]]

\* f is the sum on the subsets of S that have no more than n guests.
AddsUp(f, n, S) ==
  /\ f \in [SUBSET S -> Nat]
  /\ \A s \in SUBSET S : Cardinality(s) <= n => f[s] = AddUp(f, S)[s]

\* The sum is the fixed point of its unfolding.
LEMMA SumUnfolds ==
  ASSUME NEW S
  PROVE  MapThenSumSet(LAMBDA g : Size[g], S) =
           (CHOOSE f : f = AddUp(f, S))[S]
BY DEF MapThenSumSet, MapThenFoldSet, Pick, AddUp

\* Taking one guest out of a set leaves a set that is smaller by one.
LEMMA PickTakesOne ==
  ASSUME NEW S, IsFiniteSet(S), NEW s \in SUBSET S, s # {}
  PROVE  /\ Pick(s) \in s
         /\ IsFiniteSet(s) /\ Cardinality(s) \in Nat
         /\ Cardinality(s \ {Pick(s)}) = Cardinality(s) - 1
         /\ Cardinality(s \ {Pick(s)}) \in Nat
<1>1. Pick(s) \in s
  BY DEF Pick
<1>2. IsFiniteSet(s)
  BY FS_Subset
<1> QED
  BY <1>1, <1>2, FS_RemoveElement, FS_CardinalityType

\* The unfolding of a sum of naturals is one.
LEMMA AddUpTypes ==
  ASSUME NEW S \in SUBSET Guests, NEW f \in [SUBSET S -> Nat]
  PROVE  AddUp(f, S) \in [SUBSET S -> Nat]
<1>1. ASSUME NEW s \in SUBSET S, s # {}
      PROVE  Size[Pick(s)] + f[s \ {Pick(s)}] \in Nat
  <2>1. Pick(s) \in Guests
    BY <1>1 DEF Pick
  <2>2. Size[Pick(s)] \in Nat
    BY <2>1, MemoryAssumption
  <2>3. s \ {Pick(s)} \in SUBSET S
    OBVIOUS
  <2>4. f[s \ {Pick(s)}] \in Nat
    BY <2>3
  <2> QED
    BY <2>2, <2>4
<1> QED
  BY <1>1 DEF AddUp

\* What is right up to n guests is, unfolded, right up to n + 1.
LEMMA AddsUpFurther ==
  ASSUME NEW S \in SUBSET Guests, IsFiniteSet(S), NEW n \in Nat,
         NEW f, AddsUp(f, n, S)
  PROVE  AddsUp(AddUp(f, S), n + 1, S)
<1> DEFINE h == AddUp(f, S)
<1>1. h \in [SUBSET S -> Nat]
  BY AddUpTypes DEF AddsUp
<1>2. ASSUME NEW s \in SUBSET S, Cardinality(s) <= n + 1
      PROVE  h[s] = AddUp(h, S)[s]
  <2>1. CASE s = {}
    BY <2>1 DEF AddUp
  <2>2. CASE s # {}
    <3> DEFINE t == s \ {Pick(s)}
    <3>1. t \in SUBSET S
      OBVIOUS
    <3>2. Cardinality(t) <= n
      BY <1>2, <2>2, PickTakesOne
    <3>3. f[t] = h[t]
      BY <3>1, <3>2 DEF AddsUp
    <3>4. h[s] = Size[Pick(s)] + f[t]
      BY <2>2 DEF AddUp
    <3>5. AddUp(h, S)[s] = Size[Pick(s)] + h[t]
      <4> HIDE DEF h
      <4> QED
        BY <2>2 DEF AddUp
    <3> QED
      BY <3>3, <3>4, <3>5
  <2> QED
    BY <2>1, <2>2
<1> QED
  BY <1>1, <1>2 DEF AddsUp

\* So there is a sum that is right up to any number of guests.
LEMMA SomeAddsUp ==
  ASSUME NEW S \in SUBSET Guests, IsFiniteSet(S)
  PROVE  \A n \in Nat : \E f : AddsUp(f, n, S)
<1> DEFINE Bad == {n \in Nat : ~ \E f : AddsUp(f, n, S)}
<1> SUFFICES ASSUME Bad # {} PROVE FALSE
  OBVIOUS
<1>1. PICK n \in Bad : \A k \in Bad : n <= k
  <2> HIDE DEF Bad
  <2>1. Bad \in SUBSET Nat
    BY DEF Bad
  <2> QED
    BY <2>1, Least
<1>2. AddsUp([s \in SUBSET S |-> 0], 0, S)
  <2> DEFINE z == [s \in SUBSET S |-> 0]
  <2>1. z \in [SUBSET S -> Nat]
    OBVIOUS
  <2>2. ASSUME NEW s \in SUBSET S, Cardinality(s) <= 0
        PROVE  z[s] = AddUp(z, S)[s]
    <3>1. IsFiniteSet(s) /\ Cardinality(s) \in Nat
      BY FS_Subset, FS_CardinalityType
    <3>2. s = {}
      BY <2>2, <3>1, FS_EmptySet
    <3> QED
      BY <3>2 DEF AddUp
  <2> QED
    BY <2>1, <2>2 DEF AddsUp
<1>3. n # 0
  BY <1>2
<1>4. n - 1 \in Nat /\ n - 1 \notin Bad
  BY <1>1, <1>3
<1>5. PICK f : AddsUp(f, n - 1, S)
  BY <1>4
<1>6. AddsUp(AddUp(f, S), n - 1 + 1, S)
  BY <1>4, <1>5, AddsUpFurther
<1>7. n - 1 + 1 = n
  BY <1>1
<1> QED
  BY <1>1, <1>6, <1>7

\* The library's sum over finitely many guests is a natural number.
LEMMA SumIsNatural ==
  ASSUME NEW S \in SUBSET Guests, IsFiniteSet(S)
  PROVE  MapThenSumSet(LAMBDA g : Size[g], S) \in Nat
<1> DEFINE f == CHOOSE h : h = AddUp(h, S)
<1>1. PICK h : AddsUp(h, Cardinality(S), S)
  BY SomeAddsUp, FS_CardinalityType
<1>2. h = AddUp(h, S)
  <2>1. \A s \in SUBSET S : Cardinality(s) <= Cardinality(S)
    BY FS_Subset
  <2>2. AddUp(h, S) \in [SUBSET S -> Nat]
    BY <1>1, AddUpTypes DEF AddsUp
  <2> QED
    BY <1>1, <2>1, <2>2 DEF AddsUp
<1>3. f = AddUp(f, S)
  BY <1>2
<1> HIDE DEF f
<1> DEFINE Bad == {Cardinality(s) : s \in {t \in SUBSET S : f[t] \notin Nat}}
<1>4. Bad = {}
  <2> SUFFICES ASSUME Bad # {} PROVE FALSE
    OBVIOUS
  <2>1. Bad \in SUBSET Nat
    BY FS_Subset, FS_CardinalityType
  <2>2. PICK n \in Bad : \A k \in Bad : n <= k
    <3> HIDE DEF Bad
    <3> QED
      BY <2>1, Least
  <2>3. PICK s \in SUBSET S : f[s] \notin Nat /\ n = Cardinality(s)
    BY <2>2
  <2>4. s # {}
    BY <1>3, <2>3 DEF AddUp
  <2>5. f[s] = Size[Pick(s)] + f[s \ {Pick(s)}]
    BY <1>3, <2>4 DEF AddUp
  <2>6. Size[Pick(s)] \in Nat
    BY <2>4, MemoryAssumption, PickTakesOne
  <2>7. f[s \ {Pick(s)}] \notin Nat
    BY <2>3, <2>5, <2>6
  <2>8. Cardinality(s \ {Pick(s)}) \in Bad
    BY <2>7
  <2>9. /\ Cardinality(s) \in Nat
        /\ Cardinality(s \ {Pick(s)}) = Cardinality(s) - 1
    BY <2>4, PickTakesOne
  <2> HIDE DEF Bad
  <2> QED
    BY <2>2, <2>3, <2>8, <2>9
<1>5. f[S] \in Nat
  BY <1>4
<1> QED
  BY <1>5, SumUnfolds DEF f
-----------------------------------------------------------------------------
(* What the daemons report.                                                *)

\* Every guest has an id of its own, and there are finitely many ids.
LEMMA GuestsAreFinite ==
  ASSUME FleetTypes, IdsDiffer
  PROVE  IsFiniteSet(Guests)
<1>1. id \in Injection(Guests, VmIds)
  BY DEF FleetTypes, IdsDiffer, Injection, IsInjective
<1> QED
  BY <1>1, IdsAssumption, FS_Injection

\* A pressure is a share of the memory there is.
LEMMA PressureTypes ==
  ASSUME FleetTypes, IdsDiffer, NEW h \in Hosts
  PROVE  /\ Load(h) \in Loads
         /\ Readings(h) \subseteq Loads
<1>1. ASSUME NEW S \in SUBSET Guests
      PROVE  Clamped(Used(S, h)) \in Loads
  <2>1. IsFiniteSet(S)
    BY GuestsAreFinite, FS_Subset
  <2>2. Used(S, h) \in Nat
    <3> DEFINE sum == MapThenSumSet(LAMBDA g : Size[g], S)
    <3>1. sum \in Nat
      BY <2>1, SumIsNatural
    <3>2. Used(S, h) = Other[h] + sum
      BY DEF Used
    <3> HIDE DEF sum
    <3> QED
      BY <3>1, <3>2, MemoryAssumption
  <2> QED
    BY <2>2, MemoryAssumption DEF Clamped, Loads
<1>2. \A lives : On(h, lives) \in SUBSET Guests
  BY DEF On
<1>3. Load(h) \in Loads
  BY <1>1, <1>2 DEF Load
<1>4. ASSUME NEW p \in Readings(h) PROVE p \in Loads
  <2>1. PICK warm \in SUBSET On(h, {"cold", "restoring"}) :
          p = Clamped(Used(On(h, {"listed"}) \cup warm, h))
    BY <1>4 DEF Readings
  <2>2. On(h, {"listed"}) \cup warm \in SUBSET Guests
    BY <1>2
  <2> QED
    BY <1>1, <2>1, <2>2
<1> QED
  BY <1>3, <1>4

Settled == \A g \in Guests : life[g] \in {"listed", "lost"}

\* With every restore settled, /proc/meminfo shows the whole load.
LEMMA SettledReading ==
  ASSUME Settled, NEW h \in Hosts
  PROVE  Readings(h) = {Load(h)}
<1>1. On(h, {"cold", "restoring"}) = {}
  BY DEF Settled, On
<1>2. On(h, {"listed", "cold", "restoring"}) = On(h, {"listed"})
  BY DEF Settled, On
<1>3. On(h, {"listed"}) \cup {} = On(h, {"listed"})
  OBVIOUS
<1> QED
  BY <1>1, <1>2, <1>3 DEF Readings, Load

-----------------------------------------------------------------------------
(* Types.                                                                  *)

\* The move that is asked for is one.
TypeInv == TypeOK /\ (pc \in {"receiving", "sending"} => move \in Moves)

\* Nothing but a reading writes a pressure, and the rebalancer ends with a
\* result.
LEMMA TypesKept ==
  ASSUME IInv, TypeInv, [Next]_vars
  PROVE  TypeInv'
<1> USE DEF TypeInv, TypeOK, fleetVars, viewVars, loopVars, Pcs, Lives,
            Results, Answers
<1>1. ASSUME NEW h \in Hosts, ReadStatus(h) PROVE TypeInv'
  <2>1. pressure' \in [Hosts -> Loads]
    BY <1>1, PressureTypes DEF ReadStatus, IInv
  <2>2. vms' \in [Hosts -> SUBSET VmIds]
    <3>1. IdsOn(h) \in SUBSET VmIds
      BY DEF IdsOn
    <3> QED
      BY <1>1, <3>1 DEF ReadStatus
  <2> QED
    BY <1>1, <2>1, <2>2 DEF ReadStatus
<1>2. CASE StatusFails
  BY <1>2 DEF StatusFails, End
<1>3. CASE Decide
  BY <1>3 DEF Decide, Picks
<1>4. CASE DecideNothing
  BY <1>4 DEF DecideNothing, End
<1>5. CASE Receive
  <2>1. move.to \in Hosts
    BY <1>5 DEF Receive, Moves
  <2> QED
    BY <1>5, <2>1 DEF Receive
<1>6. CASE ReceiveFails
  BY <1>6 DEF ReceiveFails, End
<1>7. ASSUME NEW g \in Guests, SendMoves(g) PROVE TypeInv'
  <2>1. move.to \in Hosts
    BY <1>7 DEF SendMoves
  <2> QED
    BY <1>7, <2>1 DEF SendMoves
<1>8. ASSUME NEW g \in Guests, SendFails(g) PROVE TypeInv'
  BY <1>8 DEF SendFails, End
<1>9. CASE SendRefused
  BY <1>9 DEF SendRefused, End
<1>10. CASE NextStep
  <2>1. step' \in 1..MaxSteps
    BY <1>10, StepsAssumption DEF NextStep
  <2>2. 0 \in Loads
    BY MemoryAssumption DEF Loads
  <2> QED
    BY <1>10, <2>1, <2>2 DEF NextStep, StartReading
<1>11. CASE LastStep
  BY <1>11 DEF LastStep, End
<1>12. ASSUME NEW g \in Guests, Restored(g) PROVE TypeInv'
  BY <1>12 DEF Restored, FreshIds
<1>13. ASSUME NEW g \in Guests, RestoreFails(g) \/ PagesIn(g) PROVE TypeInv'
  BY <1>13 DEF RestoreFails, PagesIn
<1>14. ASSUME NEW h \in Hosts, AcceptTimesOut(h) PROVE TypeInv'
  BY <1>14 DEF AcceptTimesOut
<1>15. CASE UNCHANGED vars
  BY <1>15 DEF vars
<1> QED
  BY <1>1, <1>2, <1>3, <1>4, <1>5, <1>6, <1>7, <1>8, <1>9, <1>10, <1>11,
     <1>12, <1>13, <1>14, <1>15 DEF Next, LoopStep, FleetStep
-----------------------------------------------------------------------------
(* The choice.                                                             *)

\* Pressures and ids are ordered, so ties are broken one way: pick_victim has
\* one answer at most.
LEMMA OneChoice ==
  ASSUME TypeOK, NEW m \in Picks, NEW n \in Picks
  PROVE  m = n
<1>1. /\ m \in Moves /\ n \in Moves
      /\ IsHottest(m.from) /\ IsHottest(n.from)
      /\ IsCoolest(m.to, Targets(m.from)) /\ IsCoolest(n.to, Targets(n.from))
      /\ IsMostIdle(m.vm, vms[m.from]) /\ IsMostIdle(n.vm, vms[n.from])
  BY DEF Picks
<1>2. \A h \in Hosts : h \in Nat /\ pressure[h] \in Nat
  BY OrderAssumption, MemoryAssumption DEF TypeOK, Loads
<1>3. /\ m.from \in Hosts /\ n.from \in Hosts /\ m.to \in Hosts
      /\ n.to \in Hosts /\ m.vm \in Nat /\ n.vm \in Nat
  BY <1>1, OrderAssumption DEF Moves
<1>4. m.from = n.from
  <2> SUFFICES ASSUME m.from # n.from PROVE FALSE
    OBVIOUS
  <2> QED
    BY <1>1, <1>2, <1>3 DEF IsHottest
<1>5. m.to = n.to
  <2> SUFFICES ASSUME m.to # n.to PROVE FALSE
    OBVIOUS
  <2> QED
    BY <1>1, <1>2, <1>3, <1>4 DEF IsCoolest
<1>6. m.vm = n.vm
  BY <1>1, <1>3, <1>4 DEF IsMostIdle
<1> QED
  BY <1>1, <1>4, <1>5, <1>6 DEF Moves

\* Of the hosts in S one is coolest.
LEMMA SomeCoolest ==
  ASSUME TypeOK, NEW S \in SUBSET Hosts, S # {}
  PROVE  \E h \in S : IsCoolest(h, S)
<1> DEFINE Ps == {pressure[h] : h \in S}
<1>1. \A h \in S : h \in Nat /\ pressure[h] \in Nat
  BY OrderAssumption, MemoryAssumption DEF TypeOK, Loads
<1>2. PICK p \in Ps : \A q \in Ps : p <= q
  <2>1. Ps \in SUBSET Nat /\ Ps # {}
    BY <1>1
  <2> HIDE DEF Ps
  <2> QED
    BY <2>1, Least
<1> DEFINE Low == {h \in S : pressure[h] = p}
<1>3. PICK h \in Low : \A k \in Low : h <= k
  <2>1. Low \in SUBSET Nat /\ Low # {}
    BY <1>1, <1>2
  <2> HIDE DEF Low
  <2> QED
    BY <2>1, Least
<1>4. ASSUME NEW k \in S \ {h}
      PROVE  \/ pressure[h] < pressure[k]
             \/ (pressure[h] = pressure[k] /\ h < k)
  <2>1. /\ h \in Nat /\ k \in Nat /\ h # k
        /\ pressure[h] \in Nat /\ pressure[k] \in Nat
        /\ pressure[h] <= pressure[k]
    BY <1>1, <1>2, <1>3, <1>4
  <2>2. pressure[k] = pressure[h] => h <= k
    BY <1>3, <1>4
  <2> QED
    BY <2>1, <2>2
<1> QED
  BY <1>3, <1>4 DEF IsCoolest

\* Of all hosts one is hottest.
LEMMA SomeHottest ==
  ASSUME TypeOK
  PROVE  \E h \in Hosts : IsHottest(h)
<1> DEFINE Free == {Total - pressure[h] : h \in Hosts}
<1>1. \A h \in Hosts : /\ h \in Nat /\ pressure[h] \in Nat
                       /\ pressure[h] <= Total
  BY OrderAssumption, MemoryAssumption DEF TypeOK, Loads
<1>2. Total \in Nat
  BY MemoryAssumption
<1>3. PICK p \in Free : \A q \in Free : p <= q
  <2>1. \A h \in Hosts : Total - pressure[h] \in Nat
    BY <1>1, <1>2
  <2>2. Free \in SUBSET Nat /\ Free # {}
    BY <2>1, OrderAssumption
  <2> HIDE DEF Free
  <2> QED
    BY <2>2, Least
<1> DEFINE High == {h \in Hosts : Total - pressure[h] = p}
<1>4. PICK h \in High : \A k \in High : h <= k
  <2>1. High \in SUBSET Nat /\ High # {}
    BY <1>1, <1>3
  <2> HIDE DEF High
  <2> QED
    BY <2>1, Least
<1>5. ASSUME NEW k \in Hosts \ {h}
      PROVE  \/ pressure[k] < pressure[h]
             \/ (pressure[k] = pressure[h] /\ h < k)
  <2>1. /\ h \in Nat /\ k \in Nat /\ h # k
        /\ pressure[h] \in Nat /\ pressure[k] \in Nat
        /\ Total - pressure[h] <= Total - pressure[k]
    BY <1>1, <1>3, <1>4, <1>5
  <2>2. pressure[k] = pressure[h] => h <= k
    BY <1>4, <1>5
  <2> QED
    BY <1>2, <2>1, <2>2
<1> QED
  BY <1>4, <1>5 DEF IsHottest

\* A fleet with a host over the watermark and no move to make is stuck: the
\* hottest host has reported no guest, or no cooler host is compatible.
LEMMA NothingToMove ==
  ASSUME TypeOK, Picks = {}, NEW o \in Hosts, pressure[o] > Watermark
  PROVE  \E h \in Hosts :
           /\ pressure[h] > Watermark
           /\ \A k \in Hosts : pressure[k] <= pressure[h]
           /\ \/ vms[h] = {}
              \/ \A k \in Targets(h) : pressure[k] >= pressure[h]
<1>1. PICK h \in Hosts : IsHottest(h)
  BY SomeHottest
<1>2. \A k \in Hosts : pressure[k] \in Nat
  BY MemoryAssumption DEF TypeOK, Loads
<1>3. \A k \in Hosts : pressure[k] <= pressure[h]
  BY <1>1, <1>2 DEF IsHottest
<1>4. pressure[h] > Watermark
  BY <1>2, <1>3, MemoryAssumption DEF Loads
<1>5. ASSUME vms[h] # {}, NEW k \in Targets(h)
      PROVE  pressure[k] >= pressure[h]
  <2>1. Targets(h) \in SUBSET Hosts /\ Targets(h) # {}
    BY <1>5 DEF Targets
  <2>2. PICK c \in Targets(h) : IsCoolest(c, Targets(h))
    BY <2>1, SomeCoolest
  <2>3. vms[h] \in SUBSET VmIds /\ vms[h] \in SUBSET Nat
    BY OrderAssumption DEF TypeOK
  <2>4. PICK v \in vms[h] : \A w \in vms[h] : v <= w
    BY <1>5, <2>3, Least
  <2> DEFINE m == [vm |-> v, from |-> h, to |-> c]
  <2>5. m \in Moves
    BY <2>1, <2>2, <2>3, <2>4 DEF Moves
  <2>6. ~(pressure[c] < pressure[h])
    BY <1>1, <1>4, <2>2, <2>4, <2>5 DEF Picks, IsMostIdle
  <2>7. pressure[c] <= pressure[k]
    BY <1>2, <2>1, <2>2, <1>5 DEF IsCoolest
  <2> QED
    BY <1>2, <1>5, <2>1, <2>2, <2>6, <2>7
<1> QED
  BY <1>3, <1>4, <1>5

-----------------------------------------------------------------------------
(* The decision.                                                           *)

Decided ==
  pc \in {"deciding", "receiving"} \/ result \in {"converged", "stuck"}

\* Until the move is sent, what a calm step has read of a host is what is
\* there.
ReadingIsTrue ==
  calm /\ (pc = "reading" \/ Decided) =>
    /\ Settled
    /\ \A h \in read : pressure[h] = Load(h) /\ vms[h] = IdsOn(h)

\* A decision is taken on a whole reading.
DecidedOnAll ==
  /\ Decided => read = Hosts
  /\ pc = "reading" => \A h \in Hosts \ read : vms[h] = {}
  /\ pc = "receiving" => move \in Picks
  /\ result = "converged" => \A h \in Hosts : ~(pressure[h] > Watermark)
  /\ result = "stuck" =>
       Picks = {} /\ \E h \in Hosts : pressure[h] > Watermark

DecisionInv == ReadingIsTrue /\ DecidedOnAll

\* The picks are of the view.
LEMMA SameView ==
  ASSUME UNCHANGED <<pressure, vms>>
  PROVE  Picks' = Picks
BY DEF Picks, IsHottest, IsCoolest, IsMostIdle, Targets, CompatibleWith

\* The loads and the ids are of the fleet.
LEMMA SameFleet ==
  ASSUME UNCHANGED <<host, life, id>>
  PROVE  /\ Settled' = Settled
         /\ \A h \in Hosts : Load(h)' = Load(h) /\ IdsOn(h)' = IdsOn(h)
<1>1. Settled' = Settled
  BY DEF Settled
<1>2. ASSUME NEW h \in Hosts
      PROVE  Load(h)' = Load(h) /\ IdsOn(h)' = IdsOn(h)
  <2>1. On(h, {"listed", "cold", "restoring"})'
          = On(h, {"listed", "cold", "restoring"})
    BY DEF On
  <2>2. Load(h)' = Load(h)
    BY <2>1 DEF Load
  <2>3. IdsOn(h)' = IdsOn(h)
    BY DEF IdsOn, Registered
  <2> QED
    BY <2>2, <2>3
<1> QED
  BY <1>1, <1>2

\* A step that leaves fleet, view and move alone, and decides nothing.
LEMMA NothingNew ==
  ASSUME TypeOK, DecisionInv,
         UNCHANGED <<host, life, id, read, vms, pressure, calm>>,
         pc' = "reading" => pc = "reading", Decided' => Decided,
         pc' = "receiving" => pc = "receiving" /\ move' = move,
         \A r \in {"converged", "stuck"} : result' = r => result = r
  PROVE  DecisionInv'
<1>1. ReadingIsTrue'
  <2> SUFFICES ASSUME calm', pc' = "reading" \/ Decided'
               PROVE  /\ Settled'
                      /\ \A h \in read' : /\ pressure'[h] = Load(h)'
                                          /\ vms'[h] = IdsOn(h)'
    BY DEF ReadingIsTrue
  <2>1. Settled /\ \A h \in read : pressure[h] = Load(h) /\ vms[h] = IdsOn(h)
    BY DEF DecisionInv, ReadingIsTrue
  <2>2. read \in SUBSET Hosts
    BY DEF TypeOK
  <2> QED
    BY <2>1, <2>2, SameFleet
<1>2. DecidedOnAll'
  BY SameView DEF DecisionInv, DecidedOnAll
<1> QED
  BY <1>1, <1>2 DEF DecisionInv

\* A status is read as it is, once.
LEMMA ReadStatusKeepsDecision ==
  ASSUME TypeOK, DecisionInv, NEW h \in Hosts, ReadStatus(h)
  PROVE  DecisionInv'
<1>1. /\ pc = "reading" /\ pc' \in {"reading", "deciding"} /\ h \notin read
      /\ vms' = [vms EXCEPT ![h] = @ \cup IdsOn(h)]
      /\ read' = read \cup {h}
      /\ pc' = "deciding" => read' = Hosts
      /\ UNCHANGED <<host, life, id, result, calm, move>>
  BY DEF ReadStatus, fleetVars
<1>2. PICK p \in Readings(h) : pressure' = [pressure EXCEPT ![h] = p]
  BY DEF ReadStatus
<1>3. result = "none"
  BY <1>1 DEF TypeOK
<1>4. ReadingIsTrue'
  <2> SUFFICES ASSUME calm, NEW k \in read \cup {h}
               PROVE  Settled' /\ pressure'[k] = Load(k)'
                      /\ vms'[k] = IdsOn(k)'
    BY <1>1 DEF ReadingIsTrue
  <2>1. /\ Settled
        /\ \A j \in read : pressure[j] = Load(j) /\ vms[j] = IdsOn(j)
    BY <1>1 DEF DecisionInv, ReadingIsTrue
  <2>2. k \in Hosts /\ vms[h] = {}
    BY <1>1 DEF TypeOK, DecisionInv, DecidedOnAll
  <2>3. p = Load(h)
    BY <1>2, <2>1, SettledReading
  <2>4. pressure'[k] = Load(k) /\ vms'[k] = IdsOn(k)
    BY <1>1, <1>2, <2>1, <2>2, <2>3 DEF TypeOK
  <2>5. Settled' /\ Load(k)' = Load(k) /\ IdsOn(k)' = IdsOn(k)
    BY <1>1, <2>1, <2>2, SameFleet
  <2> QED
    BY <2>4, <2>5
<1>5. DecidedOnAll'
  BY <1>1, <1>3 DEF DecisionInv, DecidedOnAll, Decided, TypeOK
<1> QED
  BY <1>4, <1>5 DEF DecisionInv

\* What is decided is decided on what was read.
LEMMA DecideKeepsDecision ==
  ASSUME TypeOK, DecisionInv, Decide \/ DecideNothing
  PROVE  DecisionInv'
<1>1. /\ pc = "deciding" /\ result = "none"
      /\ UNCHANGED <<host, life, id, read, vms, pressure, calm>>
  BY DEF Decide, DecideNothing, TypeOK, fleetVars, viewVars
<1>2. ReadingIsTrue'
  <2>1. calm => /\ Settled
                /\ \A h \in read : pressure[h] = Load(h) /\ vms[h] = IdsOn(h)
    BY <1>1 DEF DecisionInv, ReadingIsTrue, Decided
  <2>2. read \in SUBSET Hosts
    BY DEF TypeOK
  <2> QED
    BY <1>1, <2>1, <2>2, SameFleet DEF ReadingIsTrue
<1>3. read = Hosts
  BY <1>1 DEF DecisionInv, DecidedOnAll, Decided
<1>4. CASE Decide
  <2>1. pc' = "receiving" /\ result' = "none" /\ move' \in Picks
    BY <1>1, <1>4 DEF Decide
  <2>2. move' \in Picks'
    BY <1>1, <2>1, SameView
  <2> QED
    BY <1>1, <1>2, <1>3, <2>1, <2>2 DEF DecisionInv, DecidedOnAll
<1>5. CASE DecideNothing
  <2>1. /\ pc' = "ended" /\ Picks = {}
        /\ result' = IF \E h \in Hosts : pressure[h] > Watermark
                     THEN "stuck" ELSE "converged"
    BY <1>5 DEF DecideNothing, End
  <2>2. Picks' = {}
    BY <1>1, <2>1, SameView
  <2> QED
    BY <1>1, <1>2, <1>3, <2>1, <2>2 DEF DecisionInv, DecidedOnAll
<1> QED
  BY <1>4, <1>5

\* The other steps of the loop leave the decision behind.
LEMMA LoopKeepsDecision ==
  ASSUME TypeOK, DecisionInv, LoopStep
  PROVE  DecisionInv'
<1> USE DEF fleetVars, viewVars, loopVars
<1>1. CASE \E h \in Hosts : ReadStatus(h)
  BY <1>1, ReadStatusKeepsDecision
<1>2. CASE Decide \/ DecideNothing
  BY <1>2, DecideKeepsDecision
<1>3. CASE StatusFails \/ ReceiveFails \/ SendRefused \/ LastStep
  BY <1>3, NothingNew
  DEF StatusFails, ReceiveFails, SendRefused, LastStep, End, Decided
<1>4. CASE Receive
  BY <1>4, NothingNew DEF Receive, Decided
<1>5. ASSUME NEW g \in Guests, SendMoves(g) \/ SendFails(g)
      PROVE  DecisionInv'
  <2>1. /\ pc' \in {"resting", "ended"} /\ result' \in {"none", "error"}
    BY <1>5 DEF SendMoves, SendFails, End, TypeOK
  <2> QED
    BY <2>1 DEF DecisionInv, ReadingIsTrue, DecidedOnAll, Decided
<1>6. CASE NextStep
  <2>1. /\ pc' = "reading" /\ read' = {} /\ vms' = [h \in Hosts |-> {}]
        /\ result' = "none"
        /\ calm' = Settled /\ UNCHANGED life
    BY <1>6 DEF NextStep, StartReading, TypeOK, Settled
  <2> QED
    BY <2>1 DEF DecisionInv, ReadingIsTrue, DecidedOnAll, Decided, Settled
<1> QED
  BY <1>1, <1>2, <1>3, <1>4, <1>5, <1>6 DEF LoopStep

\* In a calm step nothing is left to be restored until the move is sent.
LEMMA FleetKeepsDecision ==
  ASSUME TypeOK, DecisionInv, FleetStep
  PROVE  DecisionInv'
<1>1. UNCHANGED <<read, vms, pressure, pc, move, result, calm>>
  BY DEF FleetStep, Restored, RestoreFails, PagesIn, AcceptTimesOut, viewVars,
         loopVars
<1>2. DecidedOnAll'
  BY <1>1, SameView DEF DecisionInv, DecidedOnAll, Decided
<1>3. CASE \E g \in Guests : Restored(g) \/ RestoreFails(g) \/ PagesIn(g)
  <2>1. ~Settled
    BY <1>3 DEF Restored, RestoreFails, PagesIn, Settled
  <2> QED
    BY <1>1, <1>2, <2>1 DEF DecisionInv, ReadingIsTrue, Decided
<1>4. CASE \E h \in Hosts : AcceptTimesOut(h)
  BY <1>1, <1>4, NothingNew DEF AcceptTimesOut, Decided
<1> QED
  BY <1>3, <1>4 DEF FleetStep

\* A decision taken on the truth is true.
LEMMA TrueDecisions ==
  ASSUME TypeOK, DecisionInv
  PROVE  DecisionsAreTrue
<1>1. pc = "deciding" => \A m, n \in Picks : m = n
  BY OneChoice
<1>2. ASSUME calm, Decided
      PROVE  \A h \in Hosts : /\ pressure[h] = Load(h) /\ vms[h] = IdsOn(h)
                              /\ pressure[h] \in Nat
  BY <1>2, MemoryAssumption
  DEF DecisionInv, ReadingIsTrue, DecidedOnAll, TypeOK, Loads
<1>3. ASSUME calm, pc = "receiving"
      PROVE  /\ Load(move.from) > Watermark
             /\ \A h \in Hosts : Load(h) <= Load(move.from)
             /\ Load(move.to) < Load(move.from)
  <2>1. move \in Picks
    BY <1>3 DEF DecisionInv, DecidedOnAll
  <2>2. /\ move.from \in Hosts /\ move.to \in Hosts
        /\ pressure[move.from] > Watermark
        /\ pressure[move.to] < pressure[move.from]
        /\ IsHottest(move.from)
    BY <2>1 DEF Picks, Moves
  <2>3. \A h \in Hosts : pressure[h] = Load(h) /\ pressure[h] \in Nat
    BY <1>2, <1>3 DEF Decided
  <2>4. \A h \in Hosts : pressure[h] <= pressure[move.from]
    BY <2>2, <2>3 DEF IsHottest
  <2> QED
    BY <2>2, <2>3, <2>4
<1>4. ASSUME calm, result = "converged"
      PROVE  \A h \in Hosts : Load(h) <= Watermark
  <2>1. \A h \in Hosts : ~(pressure[h] > Watermark)
    BY <1>4 DEF DecisionInv, DecidedOnAll
  <2> QED
    BY <1>2, <1>4, <2>1, MemoryAssumption DEF Decided, Loads
<1>5. ASSUME calm, result = "stuck"
      PROVE  \E h \in Hosts :
               /\ Load(h) > Watermark
               /\ \A k \in Hosts : Load(k) <= Load(h)
               /\ IdsOn(h) = {} \/ \A k \in Targets(h) : Load(k) >= Load(h)
  <2>1. Picks = {} /\ \E h \in Hosts : pressure[h] > Watermark
    BY <1>5 DEF DecisionInv, DecidedOnAll
  <2>2. PICK h \in Hosts :
          /\ pressure[h] > Watermark
          /\ \A k \in Hosts : pressure[k] <= pressure[h]
          /\ \/ vms[h] = {}
             \/ \A k \in Targets(h) : pressure[k] >= pressure[h]
    BY <2>1, NothingToMove
  <2>3. \A k \in Hosts : pressure[k] = Load(k) /\ vms[k] = IdsOn(k)
    BY <1>2, <1>5 DEF Decided
  <2>4. Targets(h) \in SUBSET Hosts
    BY DEF Targets
  <2> QED
    BY <2>2, <2>3, <2>4
<1> QED
  BY <1>1, <1>3, <1>4, <1>5 DEF DecisionsAreTrue

-----------------------------------------------------------------------------
PolicyInv == IInv /\ TypeInv /\ DecisionInv

\* The invariant holds of every behaviour.
LEMMA PolicyHolds == Spec => []PolicyInv
<1>1. Init => PolicyInv
  <2> SUFFICES ASSUME Init PROVE PolicyInv
    OBVIOUS
  <2>1. TypeInv
    <3>1. 0 \in Loads /\ 1 \in 1..MaxSteps
      BY MemoryAssumption, StepsAssumption DEF Loads
    <3> QED
      BY <3>1 DEF Init, TypeInv, TypeOK, Lives, Pcs, Results, Answers
  <2>2. DecisionInv
    BY DEF Init, DecisionInv, ReadingIsTrue, DecidedOnAll, Decided, Settled
  <2> QED
    BY <2>1, <2>2, InitHolds DEF PolicyInv
<1>2. PolicyInv /\ [Next]_vars => PolicyInv'
  <2> SUFFICES ASSUME PolicyInv, [Next]_vars PROVE PolicyInv'
    OBVIOUS
  <2>1. IInv' /\ TypeInv'
    BY StepHolds, TypesKept DEF PolicyInv
  <2>2. DecisionInv'
    <3>1. TypeOK /\ DecisionInv
      BY DEF PolicyInv, TypeInv
    <3>2. CASE UNCHANGED vars
      BY <3>1, <3>2, NothingNew
      DEF vars, fleetVars, viewVars, loopVars, Decided
    <3> QED
      BY <3>1, <3>2, LoopKeepsDecision, FleetKeepsDecision DEF Next
  <2> QED
    BY <2>1, <2>2 DEF PolicyInv
<1> QED
  BY <1>1, <1>2, PTL DEF Spec

\* Every variable keeps its type, for any fleet: what a daemon reports of its
\* memory is never above what there is (pressure.rs, clamped).
THEOREM FleetIsTyped == Spec => []TypeOK
<1>1. PolicyInv => TypeOK
  BY DEF PolicyInv, TypeInv
<1> QED
  BY <1>1, PolicyHolds, PTL

\* pick_victim and the loop around it, for any fleet, sizes and watermark:
\* there is one choice at most, a step that begins settled moves a guest from
\* the truly hottest host to a truly cooler one, reports convergence only when
\* no host is over the watermark, and gives up only where nothing can be done.
THEOREM DecisionsHold == Spec => []DecisionsAreTrue
<1>1. PolicyInv => DecisionsAreTrue
  BY TrueDecisions DEF PolicyInv, TypeInv
<1> QED
  BY <1>1, PolicyHolds, PTL

============================================================================
