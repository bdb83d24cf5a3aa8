-------------------------- MODULE MCRuntimeHostSlots --------------------------
(***************************************************************************)
(* Small instances of RuntimeHostSlots for TLC.                            *)
(***************************************************************************)
EXTENDS RuntimeHostSlots, TLC

CONSTANTS h1, r1, r2, s1, s2, w1, w2

\* A Host that takes one Run of a scope and two in total.
TwoRuns == [d \in Dims |-> IF d = "total" THEN 2 ELSE 1]
OneRun == [d \in Dims |-> 1]

OneLimit == {TwoRuns}
TwoLimits == {TwoRuns, OneRun}

OneHost == {h1}
OneRunOnly == {r1}
BothRuns == {r1, r2}
OneSlot == {s1}
TwoSlots == {s1, s2}
NoWorkers == {}
OneWorker == {w1}
TwoWorkers == {w1, w2}
Succeeded == {"succeeded"}
SucceededOrFailed == {"succeeded", "failed"}

\* Runs, reservations and workers are interchangeable; no property is a
\* liveness property.
SymmetryNoWorkers == Permutations(Runs) \cup Permutations(Slots)
Symmetry == SymmetryNoWorkers \cup Permutations(Workers)
\* A Host that registered and was heard of, and stays so: the state space is
\* left to the reservations of one Run that follow each other.
InitReady ==
  /\ host = [h \in Hosts |-> [status |-> "ready", recovery |-> "reconciled", max |-> TwoRuns]]
  /\ reserved = [h \in Hosts |-> [d \in Dims |-> 0]]
  /\ active = [h \in Hosts |-> [d \in Dims |-> 0]]
  /\ slot = [s \in Slots |-> UnusedSlot]
  /\ dispatch = [s \in Slots |-> NoDispatch]
  /\ record = [r \in Runs |-> [status |-> "none", slot |-> None]]
  /\ owner = [s \in Slots |-> "none"]
  /\ worker = [w \in Workers |-> Idle]
  /\ leases = [s \in Slots |-> 0]
  /\ expiring = {}
  /\ offline = {}
  /\ orphaning = {}

\* Who takes part: one recovery worker while the reservations of a Run follow
\* each other at a steady Host, or two workers at one Slot of a Host that comes
\* and goes, where the Run is of one scope and does not fail.
VARIABLE crew

Retries == {[workers |-> {w}, slots |-> Slots, leases |-> 1] : w \in Workers}
Rivals == {[workers |-> Workers, slots |-> {s}, leases |-> MaxFence] : s \in Slots}

CrewNext ==
  /\ Next
  /\ crew \in Retries => UNCHANGED host
  /\ \A w \in Workers \ crew.workers : worker'[w] = worker[w]
  /\ \A s \in Slots : leases'[s] <= crew.leases
  /\ \A s \in Slots \ crew.slots : slot'[s] = slot[s]
  /\ crew \in Rivals => /\ \A r \in Runs : record'[r].status # "failed"
                        /\ \A s \in Slots : slot'[s].scope # "detached_task"
  /\ UNCHANGED crew

CrewInit == (InitReady /\ crew \in Retries) \/ (Init /\ crew \in Rivals)
SteadyInit == InitReady /\ crew = {}
AdmissionInit == Init /\ crew = {}

CrewSpec == CrewInit /\ [][CrewNext]_<<vars, crew>>

\* Everybody takes part, from the registration of the Host on.
AdmissionSpec == AdmissionInit /\ [][Next /\ UNCHANGED crew]_<<vars, crew>>

SteadySpec == SteadyInit /\ [][Next /\ UNCHANGED <<host, crew>>]_<<vars, crew>>
===============================================================================
