-------------------------- MODULE MCCapacityAdmission --------------------------
(***************************************************************************)
(* Small instances of CapacityAdmission for TLC: two Runs of two attempts  *)
(* each, of which some take part, that compete for one unit of capacity.   *)
(***************************************************************************)
EXTENDS CapacityAdmission, TLC

CONSTANTS r1, r2, a1, a2, a3, a4, model

MCRunOf == [a \in Attempts |-> IF a \in {a3, a4} THEN r2 ELSE r1]
MCKeysOf == [r \in Runs |-> {model}]
MCLimit == [c \in CapacityKeys |-> 1]

\* The two Runs, with their attempts, are alike.
MCSymmetry == {r1 :> r2 @@ r2 :> r1 @@ a1 :> a3 @@ a3 :> a1 @@ a2 :> a4 @@ a4 :> a2}

VARIABLE scene    \* who takes part, and what may fail

Retry(first, second) ==
  [team |-> {first, second}, versions |-> MaxVersion, restarts |-> 0, lost |-> {first}]
Contention == [team |-> {a1, a3}, versions |-> 1, restarts |-> 0, lost |-> {}]
Recovery == [team |-> {a1, a2}, versions |-> MaxVersion, restarts |-> 1, lost |-> {}]
HostLoss == [team |-> {a1}, versions |-> 1, restarts |-> 2, lost |-> {a1}]

SceneNext ==
  /\ Next
  /\ \A a \in Attempts \ scene.team : attempt'[a] = attempt[a]
  /\ \A k \in Keys : k[2] > scene.versions => row'[k] = row[k]
  /\ restarts' <= scene.restarts
  /\ down' \subseteq scene.lost
  /\ UNCHANGED scene

SafetyInit == Init /\ scene \in {Retry(a1, a2), Retry(a3, a4), Contention}
ProgressInit == Init /\ scene \in {Recovery, HostLoss}
OfflineInit == Init /\ scene = HostLoss
OversellInit == Init /\ scene = Contention

SafetySpec == SafetyInit /\ [][SceneNext]_<<vars, scene>>
ProgressSpec == ProgressInit /\ [][SceneNext]_<<vars, scene>> /\ Fairness
OfflineSpec == OfflineInit /\ [][SceneNext]_<<vars, scene>> /\ Fairness
OversellSpec == OversellInit /\ [][SceneNext]_<<vars, scene>>
===============================================================================
