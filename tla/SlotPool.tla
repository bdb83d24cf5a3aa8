-------------------------------- MODULE SlotPool --------------------------------
(***************************************************************************)
(* What the Slots of all Hosts promise, without counters, dispatchers,     *)
(* leases, recovery or sweeps.  A Slot is taken once, by a Run that holds  *)
(* no other, on a Host that has room when the Slots it gave out are        *)
(* counted; it is given back once, and nothing happens to it after that.   *)
(* A Host may change its limits, but never below what it gave out.         *)
(***************************************************************************)
EXTENDS Integers, FiniteSets

CONSTANTS
  Hosts,            \* runtime_host_id
  Runs,             \* run_id
  Slots,            \* reservation_id
  Limits,           \* the limits a Host may have: total and per scope
  None              \* no value

VARIABLES
  limit,            \* what each Host takes
  place             \* what became of each Slot

vars == <<limit, place>>

Scopes == {"product_thread", "detached_task"}
Dims == Scopes \cup {"total"}

Init ==
  /\ limit = [h \in Hosts |-> [d \in Dims |-> 0]]
  /\ place = [s \in Slots |-> [state |-> "unused", run |-> None, host |-> None, scope |-> None]]

\* The Slots that are out on Host h and count in dimension d.
Out(h, d) == {s \in Slots : place[s].state = "held" /\ place[s].host = h /\ d \in {"total", place[s].scope}}

\* A Run takes Slot s on a Host with room in total and in the Run's scope.
Take(s) ==
  /\ place[s].state = "unused"
  /\ \E r \in Runs, h \in Hosts, scope \in Scopes :
       /\ \A t \in Slots : place[t].state = "held" => place[t].run # r
       /\ \A d \in {"total", scope} : Cardinality(Out(h, d)) < limit[h][d]
       /\ place' = [place EXCEPT ![s] = [state |-> "held", run |-> r, host |-> h, scope |-> scope]]
  /\ UNCHANGED limit

\* Slot s is given back, by whomever.
GiveBack(s) ==
  /\ place[s].state = "held"
  /\ place' = [place EXCEPT ![s].state = "closed"]
  /\ UNCHANGED limit

\* Host h has new limits.
SetLimit(h, max) ==
  /\ \A d \in Dims : Cardinality(Out(h, d)) <= max[d]
  /\ limit' = [limit EXCEPT ![h] = max]
  /\ UNCHANGED place

\* Renewals and acceptance leave the pool as it is.
Rest == UNCHANGED vars

Next ==
  \/ Rest
  \/ \E s \in Slots : Take(s) \/ GiveBack(s)
  \/ \E h \in Hosts, max \in Limits : SetLimit(h, max)

Spec == Init /\ [][Next]_vars
===============================================================================
