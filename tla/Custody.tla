------------------------------ MODULE Custody ------------------------------
(***************************************************************************)
(* What moving microVMs between hostd daemons promises about each guest,   *)
(* however the daemons do it: a guest executes on at most one host, leaves *)
(* a host only for the wire, reaches a host only from the wire, and once   *)
(* lost is never seen again (no second copy turns up later).               *)
(***************************************************************************)
CONSTANTS Hosts, Guests

VARIABLE place   \* where each guest executes, or why it does not

Away == {"unborn", "moving", "lost"}

CustodyTypeOK == place \in [Guests -> Hosts \cup Away]

Init == place = [g \in Guests |-> "unborn"]

Born(g, h)   == place[g] = "unborn" /\ place' = [place EXCEPT ![g] = h]
Depart(g)    == place[g] \in Hosts  /\ place' = [place EXCEPT ![g] = "moving"]
Arrive(g, h) == place[g] = "moving" /\ place' = [place EXCEPT ![g] = h]
Lose(g) ==
  place[g] \in Hosts \cup {"moving"} /\ place' = [place EXCEPT ![g] = "lost"]

Next ==
  \E g \in Guests :
    \/ Depart(g) \/ Lose(g)
    \/ \E h \in Hosts : Born(g, h) \/ Arrive(g, h)

Spec == Init /\ [][Next]_place

============================================================================
