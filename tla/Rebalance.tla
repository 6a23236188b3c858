----------------------------- MODULE Rebalance -----------------------------
(***************************************************************************)
(* The rebalancer process (crates/rebalancer/src/bin/rebalance.rs): it     *)
(* polls every daemon's /status, picks one move (placement.rs), asks the   *)
(* target to receive and the source to send (control.rs), sleeps and       *)
(* starts over.  A daemon's two endpoints are reduced to what they do to   *)
(* the registries and to the data port; module Migration has them whole.   *)
(*                                                                         *)
(* The receiving task works on after the source's answer, so a restore may *)
(* still hold the target's port, list no VM and have touched little memory *)
(* when the next reading is taken.                                         *)
(***************************************************************************)
EXTENDS Integers, FiniteSets, FiniteSetsExt

CONSTANTS
  Hosts,      \* the configured hosts, as naturals in HostId order
  Guests,     \* the virtual machines, whatever id they are registered under
  VmIds,      \* ids VmId::new() may return, as naturals in VmId order (bound)
  Class,      \* each host's CompatClass: cpu, kernel and tsc_khz
  Size,       \* the memory each guest uses once its pages are in
  Other,      \* the memory used on each host beside its guests
  Total,      \* MemTotal of a host, the same on all (bound)
  Watermark,  \* the configured watermark, of Total
  MaxSteps,   \* the configured max_steps
  NoMove

Loads == 0..Total

ASSUME OrderAssumption ==
  /\ Hosts \subseteq Nat /\ Hosts # {} /\ IsFiniteSet(Hosts)
  /\ VmIds \subseteq Nat
\* Bound: an id is left for every restore.
ASSUME IdsAssumption ==
  IsFiniteSet(VmIds) /\ Cardinality(Guests) < Cardinality(VmIds)
ASSUME ClassAssumption ==
  \A h \in Hosts : Class[h].tsc_khz \in Nat
ASSUME MemoryAssumption ==
  /\ Total \in Nat
  /\ Watermark \in Loads
  /\ Size \in [Guests -> Nat]
  /\ Other \in [Hosts -> Nat]
ASSUME StepsAssumption == MaxSteps \in Nat \ {0}

VARIABLES
  host,      \* the host a guest is on, or is being restored on
  life,      \* listed: registered; cold: registered, pages still faulting in
  id,        \* the VM id a guest has, or had before it was sent
  waiting,   \* hosts whose receiver waits for a sender
  pc,        \* where the rebalancer is
  step,      \* the for loop's step
  read,      \* hosts whose status this step has read
  vms,       \* placement: the ids each host reported
  pressure,  \* the pressure each host reported
  move,      \* the move under way
  result,    \* how the process ended
  answer,    \* history: what the last send was answered
  calm       \* history: the step began with every guest listed

fleetVars == <<host, life, id, waiting>>
viewVars == <<read, vms, pressure>>
loopVars == <<pc, step, move, result>>
vars == <<fleetVars, viewVars, loopVars, answer, calm>>

Pcs == {"reading", "deciding", "receiving", "sending", "resting", "ended"}
Lives == {"listed", "cold", "restoring", "lost"}
Results == {"none", "converged", "stuck", "max", "error"}
Answers == {"none", "ok", "busy", "missing", "failed"}
Moves == [vm : VmIds, from : Hosts, to : Hosts]

-----------------------------------------------------------------------------
(* The daemons, as /status shows them.                                     *)

Registered(g, h) == host[g] = h /\ life[g] \in {"listed", "cold"}

IdsOn(h) == {id[g] : g \in {x \in Guests : Registered(x, h)}}

Used(gs, h) == Other[h] + MapThenSumSet(LAMBDA g : Size[g], gs)

Clamped(m) == IF m > Total THEN Total ELSE m

On(h, lives) == {g \in Guests : host[g] = h /\ life[g] \in lives}

\* What /proc/meminfo may show: the pages of a guest that is being restored,
\* or was a moment ago, are in as far as it has touched them.
Readings(h) ==
  {Clamped(Used(On(h, {"listed"}) \cup warm, h)) :
     warm \in SUBSET On(h, {"cold", "restoring"})}

\* The pressure once everything that is on the host has its pages.
Load(h) == Clamped(Used(On(h, {"listed", "cold", "restoring"}), h))

PortFree(h) == h \notin waiting /\ On(h, {"restoring"}) = {}

-----------------------------------------------------------------------------
(* The decision.                                                           *)

Abs(x) == IF x < 0 THEN -x ELSE x
Larger(x, y) == IF x < y THEN y ELSE x

TscWithinTolerance(x, y) == Abs(x - y) * 1000000 <= Larger(x, y) * 250

CompatibleWith(h, k) ==
  /\ Class[h].cpu = Class[k].cpu
  /\ Class[h].kernel = Class[k].kernel
  /\ TscWithinTolerance(Class[h].tsc_khz, Class[k].tsc_khz)

IsHottest(h) ==
  \A k \in Hosts \ {h} :
    \/ pressure[k] < pressure[h]
    \/ (pressure[k] = pressure[h] /\ h < k)

IsCoolest(h, S) ==
  /\ h \in S
  /\ \A k \in S \ {h} :
       \/ pressure[h] < pressure[k]
       \/ (pressure[h] = pressure[k] /\ h < k)

Targets(h) == {k \in Hosts \ {h} : CompatibleWith(h, k)}

\* The binary reports every VM as equally idle, so the lowest id is picked.
IsMostIdle(v, S) == v \in S /\ \A w \in S : v <= w

\* pick_victim: one move, or none.
Picks ==
  {m \in Moves :
     /\ IsHottest(m.from)
     /\ pressure[m.from] > Watermark
     /\ IsCoolest(m.to, Targets(m.from))
     /\ pressure[m.to] < pressure[m.from]
     /\ IsMostIdle(m.vm, vms[m.from])}

-----------------------------------------------------------------------------
(* The control loop.  Any error leaves main through `?`.                   *)

End(why) == pc' = "ended" /\ result' = why

\* Mutant: a host that was cool in an earlier step is not measured again.
ReadStatusOnce(h) ==
  /\ pc = "reading"
  /\ h \notin read
  /\ \A k \in Hosts \ read : h <= k
  /\ \E p \in Readings(h) :
       pressure' = [pressure EXCEPT ![h] = IF step = 1 THEN p ELSE @]
  /\ vms' = [vms EXCEPT ![h] = @ \cup IdsOn(h)]
  /\ read' = read \cup {h}
  /\ pc' = IF read' = Hosts THEN "deciding" ELSE pc
  /\ UNCHANGED <<fleetVars, step, move, result, answer, calm>>

\* The daemons are asked in the configured order, the same in every step.
ReadStatus(h) ==
  /\ pc = "reading"
  /\ h \notin read
  /\ \A k \in Hosts \ read : h <= k
  /\ \E p \in Readings(h) : pressure' = [pressure EXCEPT ![h] = p]
  /\ vms' = [vms EXCEPT ![h] = @ \cup IdsOn(h)]
  /\ read' = read \cup {h}
  /\ pc' = IF read' = Hosts THEN "deciding" ELSE pc
  /\ UNCHANGED <<fleetVars, step, move, result, answer, calm>>

StatusFails ==
  /\ pc = "reading"
  /\ End("error")
  /\ UNCHANGED <<fleetVars, viewVars, step, move, answer, calm>>

Decide ==
  /\ pc = "deciding"
  /\ \E m \in Picks : move' = m
  /\ pc' = "receiving"
  /\ UNCHANGED <<fleetVars, viewVars, step, result, answer, calm>>

DecideNothing ==
  /\ pc = "deciding"
  /\ Picks = {}
  /\ End(IF \E h \in Hosts : pressure[h] > Watermark
         THEN "stuck" ELSE "converged")
  /\ UNCHANGED <<fleetVars, viewVars, step, move, answer, calm>>

\* POST /migrate/recv binds the data port and answers 202.
Receive ==
  /\ pc = "receiving"
  /\ PortFree(move.to)
  /\ waiting' = waiting \cup {move.to}
  /\ pc' = "sending"
  /\ UNCHANGED <<host, life, id, viewVars, step, move, result, answer, calm>>

\* The port is taken, or the daemon fails otherwise: 500, or no answer.
ReceiveFails ==
  /\ pc = "receiving"
  /\ End("error")
  /\ UNCHANGED <<fleetVars, viewVars, step, move, answer, calm>>

Victims == {g \in Guests : Registered(g, move.from) /\ id[g] = move.vm}

\* POST /migrate/send drained the guest and streamed it to the target.
SendMoves(g) ==
  /\ pc = "sending"
  /\ g \in Victims
  /\ move.to \in waiting
  /\ waiting' = waiting \ {move.to}
  /\ host' = [host EXCEPT ![g] = move.to]
  /\ life' = [life EXCEPT ![g] = "restoring"]
  /\ answer' = "ok"
  /\ pc' = "resting"
  /\ UNCHANGED <<id, viewVars, step, move, result, calm>>

\* 409: the guest was busy or out of reach and is registered again.
\* 404: no such VM here.
SendRefused ==
  /\ pc = "sending"
  /\ answer' = IF Victims = {} THEN "missing" ELSE "busy"
  /\ End("error")
  /\ UNCHANGED <<fleetVars, viewVars, step, move, calm>>

\* The move failed after the drain: the source tears its VM down, 500.  The
\* receiver saw nothing, or a stream that broke off.
SendFails(g) ==
  /\ pc = "sending"
  /\ g \in Victims
  /\ life' = [life EXCEPT ![g] = "lost"]
  /\ \E w \in {waiting, waiting \ {move.to}} : waiting' = w
  /\ answer' = "failed"
  /\ End("error")
  /\ UNCHANGED <<host, id, viewVars, step, move, calm>>

\* Mutant: the placement is created once, before the loop.
StartReadingOn ==
  /\ pc' = "reading"
  /\ read' = {}
  /\ pressure' = [h \in Hosts |-> 0]
  /\ calm' = (\A g \in Guests : life[g] \in {"listed", "lost"})
  /\ UNCHANGED <<fleetVars, vms, move, result, answer>>

\* The five seconds are over: the next step starts from empty maps.
StartReading ==
  /\ pc' = "reading"
  /\ read' = {}
  /\ vms' = [h \in Hosts |-> {}]
  /\ pressure' = [h \in Hosts |-> 0]
  /\ calm' = (\A g \in Guests : life[g] \in {"listed", "lost"})
  /\ UNCHANGED <<fleetVars, move, result, answer>>

\* Mutant: one step too many.
NextStepOnceMore ==
  pc = "resting" /\ step <= MaxSteps /\ step' = step + 1 /\ StartReading

NextStep ==
  pc = "resting" /\ step < MaxSteps /\ step' = step + 1 /\ StartReading

LastStep ==
  /\ pc = "resting"
  /\ step = MaxSteps
  /\ End("max")
  /\ UNCHANGED <<fleetVars, viewVars, step, move, answer, calm>>

-----------------------------------------------------------------------------
(* What the receiving tasks and the restored guests do meanwhile.          *)

\* No two registered guests have one id; the random ids never repeat.
FreshIds == VmIds \ {id[g] : g \in Guests}

Restored(g) ==
  /\ life[g] = "restoring"
  /\ \E v \in FreshIds : id' = [id EXCEPT ![g] = v]
  /\ life' = [life EXCEPT ![g] = "cold"]
  /\ UNCHANGED <<host, waiting, viewVars, loopVars, answer, calm>>

RestoreFails(g) ==
  /\ life[g] = "restoring"
  /\ life' = [life EXCEPT ![g] = "lost"]
  /\ UNCHANGED <<host, id, waiting, viewVars, loopVars, answer, calm>>

PagesIn(g) ==
  /\ life[g] = "cold"
  /\ life' = [life EXCEPT ![g] = "listed"]
  /\ UNCHANGED <<host, id, waiting, viewVars, loopVars, answer, calm>>

\* A receiver nobody connects to gives up after ACCEPT_TIMEOUT.
AcceptTimesOut(h) ==
  /\ h \in waiting
  /\ waiting' = waiting \ {h}
  /\ UNCHANGED <<host, life, id, viewVars, loopVars, answer, calm>>

-----------------------------------------------------------------------------
Init ==
  /\ host \in [Guests -> Hosts]
  /\ life = [g \in Guests |-> "listed"]
  /\ id \in [Guests -> VmIds]
  /\ \A g, k \in Guests : id[g] = id[k] => g = k
  /\ waiting = {}
  /\ pc = "reading" /\ step = 1
  /\ read = {}
  /\ vms = [h \in Hosts |-> {}]
  /\ pressure = [h \in Hosts |-> 0]
  /\ move = NoMove
  /\ result = "none" /\ answer = "none" /\ calm = TRUE

LoopStep ==
  \/ \E h \in Hosts : ReadStatus(h)
  \/ StatusFails \/ Decide \/ DecideNothing \/ Receive \/ ReceiveFails
  \/ \E g \in Guests : SendMoves(g) \/ SendFails(g)
  \/ SendRefused \/ NextStep \/ LastStep

FleetStep ==
  \/ \E g \in Guests : Restored(g) \/ RestoreFails(g) \/ PagesIn(g)
  \/ \E h \in Hosts : AcceptTimesOut(h)

Next == LoopStep \/ FleetStep

Spec == Init /\ [][Next]_vars

-----------------------------------------------------------------------------
(* Properties.                                                             *)

\* Every variable keeps its type, and the process has a result once ended.
TypeOK ==
  /\ host \in [Guests -> Hosts]
  /\ life \in [Guests -> Lives]
  /\ id \in [Guests -> VmIds]
  /\ waiting \subseteq Hosts
  /\ pc \in Pcs
  /\ step \in 1..MaxSteps
  /\ read \subseteq Hosts
  /\ vms \in [Hosts -> SUBSET VmIds]
  /\ pressure \in [Hosts -> Loads]
  /\ move \in Moves \cup {NoMove}
  /\ result \in Results /\ (result = "none" <=> pc # "ended")
  /\ answer \in Answers
  /\ calm \in BOOLEAN

\* The send names exactly one VM of its source: between the reading and the
\* send no restore that ends and no receiver that gives up makes the chosen id
\* unknown to its daemon or lets two guests answer to it (rebalance_once acts
\* on a reading that is several requests old).
VictimIsThere == pc = "sending" => \E g \in Guests : Victims = {g}

\* Whatever the readings, ties included, there is at most one move to make:
\* pick_victim promises a deterministic choice.  A step that begins after
\* every restore has settled decides on the truth: it moves a guest off the
\* most loaded host, which is over the watermark, to a less loaded one; it
\* reports convergence only when no host is over the watermark; and it gives
\* up only when the most loaded host has no guest or nowhere cooler to send
\* one.
DecisionsAreTrue ==
  /\ pc = "deciding" => \A m, n \in Picks : m = n
  /\ calm =>
       /\ pc = "receiving" =>
            /\ Load(move.from) > Watermark
            /\ \A h \in Hosts : Load(h) <= Load(move.from)
            /\ Load(move.to) < Load(move.from)
       /\ result = "converged" => \A h \in Hosts : Load(h) <= Watermark
       /\ result = "stuck" =>
            \E h \in Hosts :
              /\ Load(h) > Watermark
              /\ \A k \in Hosts : Load(k) <= Load(h)
              /\ IdsOn(h) = {} \/ \A k \in Targets(h) : Load(k) >= Load(h)

\* Fairness: the process is scheduled, and every request is answered or fails.
LiveSpec == Spec /\ WF_vars(LoopStep)

\* A send the source stood down from is tried again: the process goes on to
\* read the fleet's status once more.
BusyIsRetried == answer = "busy" ~> pc = "reading"

============================================================================
