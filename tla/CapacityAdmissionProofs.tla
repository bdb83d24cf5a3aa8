------------------------ MODULE CapacityAdmissionProofs ------------------------
(* Proofs of the properties of CapacityAdmission for every set of Runs,      *)
(* attempts and capacity keys.                                               *)
EXTENDS CapacityAdmission, FiniteSetTheorems, TLAPS

\* A row's version tells how often it moved since it was inserted.
RowsFitKeys ==
  \A k \in Keys :
    /\ row[k].state = "none" <=> row[k].version = 0
    /\ row[k].version # 0 => row[k].version >= k[2]
    /\ row[k].state = "reserved" => row[k].version = k[2]
    /\ row[k].state = "accepted" => row[k].version = k[2] + 1

\* A version an attempt holds is that of a row it inserted, and nobody else did.
AttemptsOwnRows ==
  \A a \in Attempts :
    /\ attempt[a].version # 0 =>
         /\ row[KeyOf(a)].state # "none"
         /\ \A b \in Attempts : KeyOf(b) = KeyOf(a) => b = a
    /\ attempt[a].pc \in {"none", "started"} => attempt[a].version = 0
    /\ attempt[a].pc \in BeforeSubmit \cup {"submitted", "accepting"} => attempt[a].version # 0
    /\ attempt[a].pc = "accepting" => row[KeyOf(a)].state = "reserved"

\* A Dispatch exists only for an attempt that holds a version.
DispatchesFollow ==
  \A a \in Attempts :
    /\ attempt[a].pc \in {"none", "started", "reserved", "scheduled"} => dispatch[a] = "none"
    /\ dispatch[a] # "none" => attempt[a].version # 0

\* What the recovery worker works on.
SweepIsSound ==
  /\ sweep.step # "next" => sweep.at \in Attempts /\ dispatch[sweep.at] # "none"
  /\ sweep.step \in {"project", "lookup", "release"} =>
       dispatch[sweep.at] \in {"orphaned", "closed"}
  /\ sweep.step = "release" => sweep.found = attempt[sweep.at].version
  /\ \A a \in sweep.todo : dispatch[a] # "none" /\ (sweep.phase = "orphans" => dispatch[a] = "orphaned")

CapacityInv ==
  /\ TypeOK
  /\ RowsFitKeys
  /\ AttemptsOwnRows
  /\ DispatchesFollow
  /\ SweepIsSound
  /\ ClosedHoldsNothing

-------------------------------------------------------------------------------
(* Types *)

\* A moved row is a row.
LEMMA MovedTyped ==
  ASSUME row \in [Keys -> Row], NEW k \in Keys, NEW state \in RowStates
  PROVE  Moved(k, state) \in Row
<1>1. row[k] \in [state : RowStates, version : Nat, lapsed : BOOLEAN]
  BY DEF Row
<1>2. row[k].version + 1 \in Nat /\ row[k].lapsed \in BOOLEAN
  BY <1>1
<1> QED BY <1>2 DEF Moved, Row

\* Releasing a row keeps the rows typed.
LEMMA ReleaseRowTyped ==
  ASSUME row \in [Keys -> Row], NEW k \in Keys, NEW v, ReleaseRow(k, v)
  PROVE  row' \in [Keys -> Row]
<1>1. Moved(k, "released") \in Row
  BY MovedTyped DEF RowStates
<1> QED BY <1>1 DEF ReleaseRow

\* The reservation of an attempt that holds a version is a key.
LEMMA HeldKey ==
  ASSUME TypeOK, NEW a \in Attempts, attempt[a].version # 0
  PROVE  KeyOf(a) \in Keys
<1>1. attempt[a].version \in Versions
  BY DEF TypeOK
<1>2. RunOf[a] \in Runs
  BY CapacityAssumption
<1> QED BY <1>1, <1>2 DEF KeyOf, Keys

\* The recovery worker releases the row its Dispatch is bound to.
LEMMA ReleasesOwnRow ==
  ASSUME DispatchesFollow, SweepIsSound, TypeOK, NEW a \in Attempts, ReleaseOrphanedCapacity(a)
  PROVE  /\ KeyOf(a) \in Keys
         /\ ReleaseRow(KeyOf(a), sweep.seen)
         /\ dispatch[a] \in {"orphaned", "closed"}
<1>1. dispatch[a] \in {"orphaned", "closed"} /\ sweep.found = attempt[a].version
  BY DEF ReleaseOrphanedCapacity, SweepIsSound
<1>2. KeyOf(a) \in Keys
  BY <1>1, HeldKey DEF DispatchesFollow
<1>3. <<RunOf[a], sweep.found>> = KeyOf(a)
  BY <1>1 DEF KeyOf
<1> QED BY <1>1, <1>2, <1>3 DEF ReleaseOrphanedCapacity

\* Where a dispatcher goes next is typed.
LEMMA GoTyped ==
  ASSUME TypeOK, NEW a \in Attempts, NEW pc \in AttemptStates, Go(a, pc)
  PROVE  attempt' \in [Attempts -> [pc : AttemptStates, version : Versions \cup {0}]]
BY DEF Go, TypeOK

\* The types hold before the first reservation.
LEMMA InitTyped == Init => TypeOK
<1> SUFFICES ASSUME Init PROVE TypeOK
  OBVIOUS
<1>1. row \in [Keys -> Row]
  BY DEF Init, Row, RowStates
<1>2. Resting \in SweepState
  BY DEF Resting, SweepState
<1> QED BY <1>1, <1>2 DEF Init, TypeOK, AttemptStates, DispatchStates, RunStates

\* The calls of a dispatcher (ProcessWithProof) keep the types.
LEMMA DispatcherTyped ==
  ASSUME TypeOK, RowsFitKeys, AttemptsOwnRows, NEW a \in Attempts, Start(a) \/ Proceed(a)
  PROVE  TypeOK'
<1> DEFINE A == [Attempts -> [pc : AttemptStates, version : Versions \cup {0}]]
<1>0. /\ RunOf[a] \in Runs
      /\ attempt[a].pc \in BeforeSubmit \cup {"submitted", "accepting"} => KeyOf(a) \in Keys
  BY CapacityAssumption, HeldKey DEF AttemptsOwnRows
<1>g. \A pc \in AttemptStates : Go(a, pc) => attempt' \in A
  BY GoTyped
<1>s. {"started", "submitted", "accepting", "failing", "over", "scheduled", "created", "authorized"} \subseteq AttemptStates
  BY DEF AttemptStates, BeforeSubmit
<1>1. CASE Start(a) \/ Schedule(a) \/ CommitAcceptedCheck(a) \/ AcceptFails(a) \/ Crash(a)
  <2>1. attempt' \in A
    BY <1>1, <1>g, <1>s DEF Start, Schedule, CommitAcceptedCheck, AcceptFails, Crash
  <2> QED BY <1>1, <2>1 DEF TypeOK, Start, Schedule, CommitAcceptedCheck, AcceptFails, Crash, hostVars, sweepVars
<1>2. CASE Reserve(a)
  <2>1. PICK v \in Versions :
          /\ row' = [row EXCEPT ![<<RunOf[a], v>>] = [state |-> "reserved", version |-> v, lapsed |-> FALSE]]
          /\ attempt' = [attempt EXCEPT ![a] = [pc |-> "reserved", version |-> v]]
    BY <1>2 DEF Reserve
  <2>2. [state |-> "reserved", version |-> v, lapsed |-> FALSE] \in Row
    BY CapacityAssumption DEF Row, RowStates, Versions
  <2>3. row' \in [Keys -> Row]
    BY <2>1, <2>2 DEF TypeOK
  <2>4. attempt' \in A
    BY <2>1 DEF TypeOK, AttemptStates, BeforeSubmit
  <2> QED BY <1>2, <2>3, <2>4 DEF TypeOK, Reserve, hostVars, sweepVars
<1>3. CASE CreateDispatch(a)
  <2>1. attempt' \in A
    BY <1>3, <1>g, <1>s DEF CreateDispatch
  <2>2. dispatch' \in [Attempts -> DispatchStates]
    BY <1>3 DEF TypeOK, CreateDispatch, DispatchStates, ActiveDispatch
  <2> QED BY <1>3, <2>1, <2>2 DEF TypeOK, CreateDispatch, hostVars, sweepVars
<1>4. CASE AuthorizeDispatchSubmit(a)
  <2>1. attempt' \in A
    BY <1>4, <1>g, <1>s DEF AuthorizeDispatchSubmit
  <2>2. run' \in [Runs -> RunStates]
    BY <1>4, <1>0 DEF TypeOK, AuthorizeDispatchSubmit, RunStates
  <2> QED BY <1>4, <2>1, <2>2 DEF TypeOK, AuthorizeDispatchSubmit, hostVars, sweepVars
<1>5. CASE Submit(a)
  <2>1. attempt' \in A
    BY <1>5, <1>g, <1>s DEF Submit
  <2>2. hosted' \in [Attempts -> {"no", "running", "finished"}]
    BY <1>5 DEF TypeOK, Submit
  <2> QED BY <1>5, <2>1, <2>2 DEF TypeOK, Submit, sweepVars
<1>6. CASE Accept(a)
  <2>1. attempt' \in A
    BY <1>6, <1>g, <1>s DEF Accept
  <2>2. dispatch' \in [Attempts -> DispatchStates]
    BY <1>6 DEF TypeOK, Accept, DispatchStates, ActiveDispatch
  <2>3. KeyOf(a) \in Keys
    BY <1>6, <1>0 DEF Accept
  <2>4. row' \in [Keys -> Row]
    <3>1. Moved(KeyOf(a), "accepted") \in Row
      BY <2>3, MovedTyped DEF TypeOK, RowStates
    <3> QED BY <1>6, <3>1 DEF TypeOK, Accept
  <2> QED BY <1>6, <2>1, <2>2, <2>4 DEF TypeOK, Accept, hostVars, sweepVars
<1>7. CASE ReleaseBeforeAccept(a)
  <2>1. attempt' \in A
    BY <1>7, <1>g, <1>s DEF ReleaseBeforeAccept
  <2>2. row' \in [Keys -> Row]
    BY <1>7, <1>0, ReleaseRowTyped DEF TypeOK, ReleaseBeforeAccept
  <2> QED BY <1>7, <2>1, <2>2 DEF TypeOK, ReleaseBeforeAccept, hostVars, sweepVars
<1>8. CASE FailRun(a)
  <2>1. attempt' \in A
    BY <1>8, <1>g, <1>s DEF FailRun
  <2>2. run' \in [Runs -> RunStates]
    BY <1>8, <1>0 DEF TypeOK, FailRun, RunStates
  <2> QED BY <1>8, <2>1, <2>2 DEF TypeOK, FailRun, hostVars, sweepVars
<1> QED BY <1>1, <1>2, <1>3, <1>4, <1>5, <1>6, <1>7, <1>8 DEF Proceed

\* Time, Hosts and the event worker keep the types.
LEMMA EnvironmentTyped ==
  ASSUME TypeOK, DispatchesFollow, EnvironmentStep
  PROVE  TypeOK'
<1>1. ASSUME NEW k \in Keys, Lapse(k) PROVE TypeOK'
  <2>1. row' \in [Keys -> Row]
    BY <1>1 DEF TypeOK, Lapse, Row
  <2> QED BY <1>1, <2>1 DEF TypeOK, Lapse, hostVars, sweepVars
<1>2. ASSUME NEW a \in Attempts, Age(a) PROVE TypeOK'
  BY <1>2 DEF TypeOK, Age, sweepVars
<1>3. ASSUME NEW a \in Attempts, HostGoesOffline(a) \/ HostReturns(a) PROVE TypeOK'
  BY <1>3 DEF TypeOK, HostGoesOffline, HostReturns, sweepVars
<1>4. ASSUME NEW a \in Attempts, HostEndsRun(a) PROVE TypeOK'
  BY <1>4 DEF TypeOK, HostEndsRun, sweepVars
<1>5. ASSUME NEW a \in Attempts, LoseDispatchLease(a) PROVE TypeOK'
  <2>1. dispatch' \in [Attempts -> DispatchStates]
    BY <1>5 DEF TypeOK, LoseDispatchLease, DispatchStates, ActiveDispatch
  <2> QED BY <1>5, <2>1 DEF TypeOK, LoseDispatchLease, hostVars, sweepVars
<1>6. ASSUME NEW a \in Attempts, Converge(a) PROVE TypeOK'
  <2>1. dispatch' \in [Attempts -> DispatchStates]
    BY <1>6 DEF TypeOK, Converge, DispatchStates
  <2>2. run' \in [Runs -> RunStates]
    BY <1>6, CapacityAssumption DEF TypeOK, Converge, RunStates
  <2>3. row' \in [Keys -> Row]
    BY <1>6, ReleaseRowTyped DEF TypeOK, Converge
  <2> QED BY <1>6, <2>1, <2>2, <2>3 DEF TypeOK, Converge, hostVars, sweepVars
<1> QED BY <1>1, <1>2, <1>3, <1>4, <1>5, <1>6 DEF EnvironmentStep

\* What the recovery worker remembers keeps its type.
LEMMA SweepTyped ==
  ASSUME sweep \in SweepState
  PROVE  /\ Abandon => sweep' \in SweepState
         /\ \A phase \in {"rest", "offline", "orphans", "stale", "capacity"}, todo \in SUBSET Attempts :
              Enter(phase, todo) => sweep' \in SweepState
         /\ \A a \in Attempts : Done(a) => sweep' \in SweepState
         /\ \A a \in Attempts, step \in {"finalize", "claimed", "project", "lookup"} :
              To(a, step) => sweep' \in SweepState
<1>1. Abandon => sweep' \in SweepState
  BY DEF SweepState, Resting, Abandon
<1>2. ASSUME NEW phase \in {"rest", "offline", "orphans", "stale", "capacity"},
             NEW todo \in SUBSET Attempts, Enter(phase, todo)
      PROVE  sweep' \in SweepState
  BY <1>2 DEF SweepState, Resting, Enter
<1>3. ASSUME NEW a \in Attempts, Done(a) PROVE sweep' \in SweepState
  <2>1. sweep.todo \ {a} \in SUBSET Attempts
    BY DEF SweepState
  <2> QED BY <1>3, <2>1 DEF SweepState, Done
<1>4. ASSUME NEW a \in Attempts, NEW step \in {"finalize", "claimed", "project", "lookup"}, To(a, step)
      PROVE  sweep' \in SweepState
  BY <1>4 DEF SweepState, To
<1> QED BY <1>1, <1>2, <1>3, <1>4

\* The steps of Reconcile keep the types.
LEMMA ReconcileTyped ==
  ASSUME TypeOK, DispatchesFollow, SweepIsSound, ReconcileStep
  PROVE  TypeOK'
<1>t. sweep \in SweepState /\ row \in [Keys -> Row] /\ dispatch \in [Attempts -> DispatchStates]
  BY DEF TypeOK
<1>d. {"recovering", "accepted", "orphaned"} \subseteq DispatchStates
  BY DEF DispatchStates, ActiveDispatch
<1>1. CASE StartReconcile \/ ListOrphans \/ ListDueDispatches \/ EndStaleDispatches
  <2>1. PICK phase \in {"rest", "offline", "orphans", "stale", "capacity"}, todo \in SUBSET Attempts : Enter(phase, todo)
    BY <1>1, <1>t DEF StartReconcile, ListOrphans, ListDueDispatches, EndStaleDispatches, TypeOK
  <2>2. sweep' \in SweepState
    BY <2>1, <1>t, SweepTyped
  <2> QED BY <1>1, <2>2 DEF TypeOK, StartReconcile, ListOrphans, ListDueDispatches, EndStaleDispatches, hostVars
<1>2. CASE Recover
  <2>1. sweep' \in SweepState
    BY <1>2, <1>t, SweepTyped DEF Recover
  <2>2. \A k \in Keys : Moved(k, "expired") \in Row
    BY <1>t, MovedTyped DEF RowStates
  <2>3. row' \in [Keys -> Row]
    BY <1>2, <1>t, <2>2 DEF Recover
  <2> QED BY <1>2, <2>1, <2>3 DEF TypeOK, Recover, hostVars
<1>3. ASSUME NEW a \in Attempts, OrphanOfflineRun(a) PROVE TypeOK'
  <2>1. sweep' \in SweepState
    BY <1>3, <1>t, SweepTyped DEF OrphanOfflineRun
  <2>2. run' \in [Runs -> RunStates]
    BY <1>3, CapacityAssumption DEF OrphanOfflineRun, TypeOK, RunStates
  <2> QED BY <1>3, <2>1, <2>2 DEF TypeOK, OrphanOfflineRun, hostVars
<1>4. ASSUME NEW a \in Attempts, FinalizeOfflineDispatch(a) PROVE TypeOK'
  <2>1. sweep' \in SweepState
    BY <1>4, <1>t, SweepTyped DEF FinalizeOfflineDispatch
  <2>2. dispatch' \in [Attempts -> DispatchStates]
    BY <1>4, <1>t, <1>d DEF FinalizeOfflineDispatch
  <2> QED BY <1>4, <2>1, <2>2 DEF TypeOK, FinalizeOfflineDispatch, hostVars
<1>5. ASSUME NEW a \in Attempts, RecheckOrphan(a) \/ SkipDispatch(a) PROVE TypeOK'
  <2>1. sweep' \in SweepState
    BY <1>5, <1>t, SweepTyped DEF RecheckOrphan, SkipDispatch
  <2> QED BY <1>5, <2>1 DEF TypeOK, RecheckOrphan, SkipDispatch, hostVars
<1>6. ASSUME NEW a \in Attempts, ClaimDispatch(a) \/ AdvanceDispatch(a) \/ OrphanDispatch(a) PROVE TypeOK'
  <2>1. sweep' \in SweepState
    BY <1>6, <1>t, SweepTyped DEF ClaimDispatch, AdvanceDispatch, OrphanDispatch
  <2>2. dispatch' \in [Attempts -> DispatchStates]
    BY <1>6, <1>t, <1>d DEF ClaimDispatch, AdvanceDispatch, OrphanDispatch
  <2> QED BY <1>6, <2>1, <2>2 DEF TypeOK, ClaimDispatch, AdvanceDispatch, OrphanDispatch, hostVars
<1>7. ASSUME NEW a \in Attempts, ProjectOrphanedRun(a) PROVE TypeOK'
  <2>1. sweep' \in SweepState
    BY <1>7, <1>t, SweepTyped DEF ProjectOrphanedRun
  <2>2. run' \in [Runs -> RunStates]
    BY <1>7, CapacityAssumption DEF ProjectOrphanedRun, TypeOK, RunStates
  <2> QED BY <1>7, <2>1, <2>2 DEF TypeOK, ProjectOrphanedRun, hostVars
<1>8. ASSUME NEW a \in Attempts, FindOrphanedCapacity(a) PROVE TypeOK'
  <2>1. \A k \in Keys : row[k].version \in Nat /\ k[2] \in Nat
    BY <1>t DEF Row, Keys, Versions
  <2>2. \A k \in Keys : [sweep EXCEPT !.step = "release", !.found = k[2], !.seen = row[k].version] \in SweepState
    BY <1>t, <2>1 DEF SweepState
  <2>3. sweep' \in SweepState
    BY <1>8, <1>t, <2>2, SweepTyped DEF FindOrphanedCapacity, ActiveKeys
  <2> QED BY <1>8, <2>3 DEF TypeOK, FindOrphanedCapacity, hostVars
<1>9. ASSUME NEW a \in Attempts, ReleaseOrphanedCapacity(a) PROVE TypeOK'
  <2>1. sweep' \in SweepState
    BY <1>9, <1>t, SweepTyped DEF ReleaseOrphanedCapacity
  <2>4. row' \in [Keys -> Row]
    BY <1>9, <1>t, ReleasesOwnRow, ReleaseRowTyped
  <2> QED BY <1>9, <2>1, <2>4 DEF TypeOK, ReleaseOrphanedCapacity, hostVars
<1> QED BY <1>1, <1>2, <1>3, <1>4, <1>5, <1>6, <1>7, <1>8, <1>9 DEF ReconcileStep

\* A restart of the recovery worker keeps the types.
LEMMA RestartTyped ==
  ASSUME TypeOK, RestartWorker
  PROVE  TypeOK'
<1>1. sweep' \in SweepState
  BY SweepTyped DEF RestartWorker, TypeOK
<1> QED BY <1>1 DEF TypeOK, RestartWorker, hostVars

\* Every step keeps the types.
LEMMA StepTyped ==
  ASSUME TypeOK, RowsFitKeys, AttemptsOwnRows, DispatchesFollow, SweepIsSound, [Next]_vars
  PROVE  TypeOK'
<1>1. CASE UNCHANGED vars
  BY <1>1 DEF vars, TypeOK
<1> QED
  BY <1>1, DispatcherTyped, EnvironmentTyped, ReconcileTyped, RestartTyped DEF Next, DispatcherStep

-------------------------------------------------------------------------------
(* How rows move *)

\* What a step other than Reserve does to a row.
RowProgress(k) ==
  \/ row'[k] = row[k]
  \/ row[k].state = "reserved" /\ row'[k] = [state |-> "reserved", version |-> row[k].version, lapsed |-> TRUE]
  \/ /\ row[k].state = "reserved"
     /\ row'[k] = Moved(k, "accepted")
     /\ \E a \in Attempts : KeyOf(a) = k /\ attempt[a].pc = "accepting" /\ attempt'[a].pc # "accepting"
  \/ Active(k) /\ ~Locked(k) /\ row'[k] \in {Moved(k, "released"), Moved(k, "expired")}

\* No row is inserted, and each one stays or moves forward.
RowsProgress ==
  /\ \A k \in Keys : RowProgress(k)
  /\ \A a \in Attempts : attempt'[a].version = attempt[a].version

\* A release ends the row it names or changes nothing.
LEMMA ReleaseProgress ==
  ASSUME TypeOK, NEW k \in Keys, NEW v, ReleaseRow(k, v)
  PROVE  \A j \in Keys : RowProgress(j)
<1> SUFFICES ASSUME NEW j \in Keys PROVE RowProgress(j)
  OBVIOUS
<1>1. row \in [Keys -> Row]
  BY DEF TypeOK
<1>2. row' = row \/ (Active(k) /\ ~Locked(k) /\ row' = [row EXCEPT ![k] = Moved(k, "released")])
  BY DEF ReleaseRow
<1>3. CASE Active(k) /\ ~Locked(k) /\ row' = [row EXCEPT ![k] = Moved(k, "released")]
  BY <1>1, <1>3 DEF RowProgress
<1> QED BY <1>2, <1>3 DEF RowProgress

\* What a dispatcher does but reserve only moves rows forward.
LEMMA DispatcherProgress ==
  ASSUME TypeOK, RowsFitKeys, AttemptsOwnRows, NEW a \in Attempts, Start(a) \/ Proceed(a), ~Reserve(a)
  PROVE  RowsProgress
<1>a. attempt \in [Attempts -> [pc : AttemptStates, version : Versions \cup {0}]]
  BY DEF TypeOK
<1>g. \A pc : Go(a, pc) => \A b \in Attempts : attempt'[b].version = attempt[b].version
  BY <1>a DEF Go
<1>k. attempt[a].pc \in BeforeSubmit \cup {"submitted", "accepting"} => KeyOf(a) \in Keys
  BY HeldKey DEF AttemptsOwnRows
<1>1. CASE Accept(a)
  <2>1. KeyOf(a) \in Keys
    BY <1>1, <1>k DEF Accept
  <2>2. attempt[a].pc = "accepting" /\ attempt'[a].pc # "accepting" /\ row[KeyOf(a)].state = "reserved"
    BY <1>1, <1>a DEF Accept, Go, AttemptsOwnRows
  <2>3. \A k \in Keys : k # KeyOf(a) => row'[k] = row[k]
    BY <1>1, <2>1 DEF Accept, TypeOK
  <2>4. row'[KeyOf(a)] = Moved(KeyOf(a), "accepted")
    BY <1>1, <2>1 DEF Accept, TypeOK
  <2>5. \A k \in Keys : RowProgress(k)
    BY <2>2, <2>3, <2>4 DEF RowProgress
  <2> QED BY <1>1, <1>g, <2>5 DEF Accept, RowsProgress
<1>2. CASE ReleaseBeforeAccept(a)
  <2>1. KeyOf(a) \in Keys
    BY <1>2, <1>k DEF ReleaseBeforeAccept
  <2>2. \A k \in Keys : RowProgress(k)
    BY <1>2, <2>1, ReleaseProgress DEF ReleaseBeforeAccept
  <2> QED BY <1>2, <1>g, <2>2 DEF ReleaseBeforeAccept, RowsProgress
<1>3. CASE UNCHANGED row /\ \E pc : Go(a, pc)
  BY <1>3, <1>g DEF RowsProgress, RowProgress
<1> QED
  BY <1>1, <1>2, <1>3 DEF Proceed, Start, Schedule, CreateDispatch, AuthorizeDispatchSubmit, Submit,
     CommitAcceptedCheck, AcceptFails, FailRun, Crash

\* Lapsing and convergence only move rows forward.
LEMMA EnvironmentProgress ==
  ASSUME TypeOK, DispatchesFollow, EnvironmentStep
  PROVE  RowsProgress
<1>1. ASSUME NEW k \in Keys, Lapse(k) PROVE RowsProgress
  <2>1. \A j \in Keys : RowProgress(j)
    <3> SUFFICES ASSUME NEW j \in Keys PROVE RowProgress(j)
      OBVIOUS
    <3>1. CASE j = k
      <4>1. row \in [Keys -> Row] /\ row[k] \in [state : RowStates, version : Nat, lapsed : BOOLEAN]
        BY DEF TypeOK, Row
      <4>2. row'[k] = [row[k] EXCEPT !.lapsed = TRUE]
        BY <1>1, <4>1 DEF Lapse
      <4>3. row'[k] = [state |-> row[k].state, version |-> row[k].version, lapsed |-> TRUE]
        BY <4>1, <4>2
      <4> QED BY <1>1, <3>1, <4>3 DEF Lapse, RowProgress
    <3>2. CASE j # k
      BY <1>1, <3>2 DEF Lapse, RowProgress, TypeOK
    <3> QED BY <3>1, <3>2
  <2> QED BY <1>1, <2>1 DEF RowsProgress, Lapse
<1>2. ASSUME NEW a \in Attempts, Converge(a) PROVE RowsProgress
  <2>1. \A k \in Keys : RowProgress(k)
    BY <1>2, ReleaseProgress DEF Converge
  <2> QED BY <1>2, <2>1 DEF RowsProgress, Converge
<1>3. CASE UNCHANGED <<row, attempt>>
  BY <1>3 DEF RowsProgress, RowProgress
<1> QED
  BY <1>1, <1>2, <1>3 DEF EnvironmentStep, Age, HostGoesOffline, HostReturns, HostEndsRun, LoseDispatchLease

\* Recovery only moves rows forward: it expires and releases.
LEMMA ReconcileProgress ==
  ASSUME TypeOK, DispatchesFollow, SweepIsSound, ReconcileStep
  PROVE  RowsProgress
<1>1. CASE Recover
  <2>1. \A k \in Keys : RowProgress(k)
    <3> SUFFICES ASSUME NEW k \in Keys PROVE RowProgress(k)
      OBVIOUS
    <3>1. row'[k] = row[k] \/ (row[k].state = "reserved" /\ ~Locked(k) /\ row'[k] = Moved(k, "expired"))
      BY <1>1 DEF Recover
    <3> QED BY <3>1 DEF RowProgress, Active, ActiveRow
  <2> QED BY <1>1, <2>1 DEF Recover, RowsProgress
<1>2. ASSUME NEW a \in Attempts, ReleaseOrphanedCapacity(a) PROVE RowsProgress
  <2>3. \A k \in Keys : RowProgress(k)
    BY <1>2, ReleasesOwnRow, ReleaseProgress
  <2> QED BY <1>2, <2>3 DEF ReleaseOrphanedCapacity, RowsProgress
<1>3. CASE UNCHANGED <<row, attempt>>
  BY <1>3 DEF RowsProgress, RowProgress
<1> QED
  BY <1>1, <1>2, <1>3 DEF ReconcileStep, StartReconcile, ListOrphans, ListDueDispatches, EndStaleDispatches,
     OrphanOfflineRun, FinalizeOfflineDispatch, RecheckOrphan, SkipDispatch, ClaimDispatch, AdvanceDispatch,
     OrphanDispatch, ProjectOrphanedRun, FindOrphanedCapacity

\* Every step but Reserve moves rows forward, and attempts keep their versions.
LEMMA StepProgress ==
  ASSUME TypeOK, RowsFitKeys, AttemptsOwnRows, DispatchesFollow, SweepIsSound, [Next]_vars,
         ~\E a \in Attempts : Reserve(a)
  PROVE  RowsProgress
<1>1. CASE RestartWorker \/ UNCHANGED vars
  BY <1>1 DEF RowsProgress, RowProgress, RestartWorker, vars
<1> QED
  BY <1>1, DispatcherProgress, EnvironmentProgress, ReconcileProgress DEF Next, DispatcherStep

-------------------------------------------------------------------------------
(* Limits *)

\* Reservations can be counted.
LEMMA KeysFinite == IsFiniteSet(Keys)
<1>1. IsFiniteSet(Versions)
  BY CapacityAssumption, FS_Interval DEF Versions
<1> QED BY <1>1, CapacityAssumption, FS_Product DEF Keys

\* Adding an element adds at most one to a cardinality.
LEMMA OneMore ==
  ASSUME NEW S, IsFiniteSet(S), NEW x
  PROVE  /\ IsFiniteSet(S \cup {x})
         /\ Cardinality(S \cup {x}) <= Cardinality(S) + 1
         /\ Cardinality(S) \in Nat
         /\ Cardinality(S \cup {x}) \in Nat
<1>1. IsFiniteSet(S \cup {x}) /\ Cardinality(S) \in Nat
  BY FS_AddElement, FS_CardinalityType
<1>2. Cardinality(S \cup {x}) = Cardinality(S) \/ Cardinality(S \cup {x}) = Cardinality(S) + 1
  BY FS_AddElement
<1> QED BY <1>1, <1>2, FS_CardinalityType

\* A row that is timely after a step other than Reserve was timely before.
LEMMA ProgressKeepsLimits ==
  ASSUME TypeOK, RowsProgress, TimelyWithinLimit
  PROVE  TimelyWithinLimit'
<1> SUFFICES ASSUME NEW c \in CapacityKeys PROVE Cardinality(TimelyKeys(c)') <= Limit[c]
  BY DEF TimelyWithinLimit
<1>1. TimelyKeys(c)' \subseteq TimelyKeys(c)
  <2> SUFFICES ASSUME NEW k \in Keys, Active(k)', ~row'[k].lapsed PROVE Active(k) /\ ~row[k].lapsed
    BY DEF TimelyKeys
  <2>1. RowProgress(k)
    BY DEF RowsProgress
  <2> QED BY <2>1 DEF RowProgress, Moved, Active, ActiveRow
<1>2. IsFiniteSet(TimelyKeys(c))
  BY KeysFinite, FS_Subset DEF TimelyKeys
<1>3. Cardinality(TimelyKeys(c)') <= Cardinality(TimelyKeys(c))
  BY <1>1, <1>2, FS_Subset
<1>4. /\ Cardinality(TimelyKeys(c)') \in Nat
      /\ Cardinality(TimelyKeys(c)) \in Nat
      /\ Limit[c] \in Nat
  BY <1>1, <1>2, FS_Subset, FS_CardinalityType, CapacityAssumption
<1> QED BY <1>3, <1>4 DEF TimelyWithinLimit

\* Reserve admits a row only where the rows it counts, which include all timely
\* ones, leave room.
LEMMA ReserveKeepsLimits ==
  ASSUME TypeOK, TimelyWithinLimit, NEW a \in Attempts, Reserve(a)
  PROVE  TimelyWithinLimit'
<1> SUFFICES ASSUME NEW c \in CapacityKeys PROVE Cardinality(TimelyKeys(c)') <= Limit[c]
  BY DEF TimelyWithinLimit
<1> DEFINE counted == {k \in Keys : c \in KeysOf[k[1]] /\ Counted(k)}
<1>1. PICK v \in Versions :
        row' = [row EXCEPT ![<<RunOf[a], v>>] = [state |-> "reserved", version |-> v, lapsed |-> FALSE]]
  BY DEF Reserve
<1> DEFINE new == <<RunOf[a], v>>
<1>2. RunOf[a] \in Runs /\ new \in Keys /\ Limit[c] \in Nat
  BY CapacityAssumption DEF Keys
<1>3. \A k \in Keys : k # new => row'[k] = row[k]
  BY <1>1 DEF TypeOK
<1>4. IsFiniteSet(TimelyKeys(c)) /\ IsFiniteSet(counted)
  BY KeysFinite, FS_Subset DEF TimelyKeys
<1>5. CASE c \in KeysOf[RunOf[a]]
  <2>1. Cardinality(counted) + 1 <= Limit[c]
    BY <1>5 DEF Reserve, Used
  <2>2. TimelyKeys(c)' \subseteq counted \cup {new}
    <3> SUFFICES ASSUME NEW k \in Keys, c \in KeysOf[k[1]], Active(k)', ~row'[k].lapsed, k # new PROVE k \in counted
      BY DEF TimelyKeys
    <3>1. Active(k) /\ ~row[k].lapsed
      BY <1>3 DEF Active
    <3> QED BY <3>1 DEF Counted, Active, ActiveRow
  <2>3. /\ IsFiniteSet(counted \cup {new})
        /\ Cardinality(counted \cup {new}) <= Cardinality(counted) + 1
        /\ Cardinality(counted) \in Nat
        /\ Cardinality(counted \cup {new}) \in Nat
    BY <1>4, OneMore
  <2>4. Cardinality(TimelyKeys(c)') <= Cardinality(counted \cup {new}) /\ Cardinality(TimelyKeys(c)') \in Nat
    BY <2>2, <2>3, FS_Subset, FS_CardinalityType
  <2> QED BY <1>2, <2>1, <2>3, <2>4
<1>6. CASE c \notin KeysOf[RunOf[a]]
  <2>1. TimelyKeys(c)' \subseteq TimelyKeys(c)
    <3> SUFFICES ASSUME NEW k \in Keys, c \in KeysOf[k[1]], Active(k)', ~row'[k].lapsed PROVE Active(k) /\ ~row[k].lapsed
      BY DEF TimelyKeys
    <3>1. k # new
      BY <1>6
    <3> QED BY <1>3, <3>1 DEF Active
  <2>2. Cardinality(TimelyKeys(c)') <= Cardinality(TimelyKeys(c))
    BY <1>4, <2>1, FS_Subset
  <2>3. /\ Cardinality(TimelyKeys(c)') \in Nat
        /\ Cardinality(TimelyKeys(c)) \in Nat
    BY <1>4, <2>1, FS_Subset, FS_CardinalityType
  <2> QED BY <1>2, <2>2, <2>3 DEF TimelyWithinLimit
<1> QED BY <1>5, <1>6

-------------------------------------------------------------------------------
(* Rows and the attempts that hold them *)

\* A row moves from reserved to accepted or to an end, one version at a time.
LEMMA StepRowsFit ==
  ASSUME CapacityInv, [Next]_vars
  PROVE  RowsFitKeys'
<1>a. TypeOK /\ RowsFitKeys
  BY DEF CapacityInv
<1>n. \A k \in Keys : row[k].version \in Nat /\ k[2] \in Nat \ {0}
  BY <1>a, CapacityAssumption DEF TypeOK, Row, Keys, Versions
<1>1. CASE RowsProgress
  <2> SUFFICES ASSUME NEW k \in Keys
               PROVE  /\ row'[k].state = "none" <=> row'[k].version = 0
                      /\ row'[k].version # 0 => row'[k].version >= k[2]
                      /\ row'[k].state = "reserved" => row'[k].version = k[2]
                      /\ row'[k].state = "accepted" => row'[k].version = k[2] + 1
    BY DEF RowsFitKeys
  <2>1. RowProgress(k)
    BY <1>1 DEF RowsProgress
  <2>2. row[k].version \in Nat /\ k[2] \in Nat \ {0}
    BY <1>n
  <2>3. /\ row[k].state = "none" <=> row[k].version = 0
        /\ row[k].version # 0 => row[k].version >= k[2]
        /\ row[k].state = "reserved" => row[k].version = k[2]
        /\ row[k].state = "accepted" => row[k].version = k[2] + 1
    BY <1>a DEF RowsFitKeys
  <2> QED BY <2>1, <2>2, <2>3 DEF RowProgress, Moved, Active, ActiveRow
<1>2. ASSUME NEW a \in Attempts, Reserve(a) PROVE RowsFitKeys'
  <2>1. PICK v \in Versions :
          row' = [row EXCEPT ![<<RunOf[a], v>>] = [state |-> "reserved", version |-> v, lapsed |-> FALSE]]
    BY <1>2 DEF Reserve
  <2>2. RunOf[a] \in Runs /\ <<RunOf[a], v>> \in Keys /\ v \in Nat \ {0}
    BY CapacityAssumption DEF Keys, Versions
  <2>3. /\ row'[<<RunOf[a], v>>].state = "reserved" /\ row'[<<RunOf[a], v>>].version = v
        /\ \A k \in Keys : k # <<RunOf[a], v>> => row'[k] = row[k]
    BY <1>a, <2>1, <2>2 DEF TypeOK
  <2> QED BY <1>a, <2>2, <2>3 DEF RowsFitKeys
<1> QED BY <1>1, <1>2, StepProgress DEF CapacityInv

\* Reserve inserts a row that did not exist, and that no attempt holds.
LEMMA ReserveIsFresh ==
  ASSUME CapacityInv, NEW a \in Attempts, Reserve(a)
  PROVE  \E v \in Versions :
           /\ row' = [row EXCEPT ![<<RunOf[a], v>>] = [state |-> "reserved", version |-> v, lapsed |-> FALSE]]
           /\ attempt' = [attempt EXCEPT ![a] = [pc |-> "reserved", version |-> v]]
           /\ <<RunOf[a], v>> \in Keys
           /\ row[<<RunOf[a], v>>].state = "none"
           /\ v # 0
<1>1. PICK v \in Versions :
        /\ IsNextVersion(RunOf[a], v)
        /\ row' = [row EXCEPT ![<<RunOf[a], v>>] = [state |-> "reserved", version |-> v, lapsed |-> FALSE]]
        /\ attempt' = [attempt EXCEPT ![a] = [pc |-> "reserved", version |-> v]]
  BY DEF Reserve
<1> DEFINE k == <<RunOf[a], v>>
<1>2. k \in Keys /\ k[2] = v /\ v \in Nat \ {0}
  BY CapacityAssumption DEF Keys, Versions
<1>3. row[k].version < v /\ row[k].version \in Nat
  BY <1>1, <1>2 DEF IsNextVersion, CapacityInv, TypeOK, Row
<1>4. row[k].version = 0
  BY <1>2, <1>3 DEF CapacityInv, RowsFitKeys
<1>5. row[k].state = "none"
  BY <1>2, <1>4 DEF CapacityInv, RowsFitKeys
<1> QED BY <1>1, <1>2, <1>5

\* A new row gets a version no row of its Run had, so no two attempts hold one row.
LEMMA StepAttemptsOwn ==
  ASSUME CapacityInv, [Next]_vars
  PROVE  AttemptsOwnRows'
<1>a. TypeOK /\ RowsFitKeys /\ AttemptsOwnRows
  BY DEF CapacityInv
<1>t. attempt \in [Attempts -> [pc : AttemptStates, version : Versions \cup {0}]]
  BY <1>a DEF TypeOK
<1>h. \A b \in Attempts : attempt[b].version # 0 => KeyOf(b) \in Keys
  BY <1>a, HeldKey
<1>1. ASSUME NEW a \in Attempts, Reserve(a) PROVE AttemptsOwnRows'
  <2>1. PICK v \in Versions :
           /\ row' = [row EXCEPT ![<<RunOf[a], v>>] = [state |-> "reserved", version |-> v, lapsed |-> FALSE]]
           /\ attempt' = [attempt EXCEPT ![a] = [pc |-> "reserved", version |-> v]]
           /\ <<RunOf[a], v>> \in Keys
           /\ row[<<RunOf[a], v>>].state = "none"
           /\ v # 0
    BY <1>1, ReserveIsFresh
  <2> DEFINE new == <<RunOf[a], v>>
  <2>2. attempt'[a] = [pc |-> "reserved", version |-> v] /\ \A b \in Attempts : b # a => attempt'[b] = attempt[b]
    BY <1>t, <2>1
  <2>3. row'[new].state = "reserved" /\ \A k \in Keys : k # new => row'[k] = row[k]
    BY <1>a, <2>1 DEF TypeOK
  <2>4. KeyOf(a)' = new /\ \A b \in Attempts : b # a => KeyOf(b)' = KeyOf(b)
    BY <2>2 DEF KeyOf
  <2>5. \A b \in Attempts : attempt[b].version # 0 => KeyOf(b) # new
    BY <1>a, <2>1 DEF AttemptsOwnRows
  <2>6. attempt[a].version = 0
    BY <1>a, <1>1 DEF AttemptsOwnRows, Reserve
  <2>7. \A b \in Attempts : attempt[b].version = 0 => KeyOf(b)[2] = 0
    BY DEF KeyOf
  <2>8. \A b \in Attempts : KeyOf(b) # new
    BY <2>1, <2>5, <2>7
  <2> SUFFICES ASSUME NEW b \in Attempts
               PROVE /\ attempt'[b].version # 0 =>
                          /\ row'[KeyOf(b)'].state # "none"
                          /\ \A d \in Attempts : KeyOf(d)' = KeyOf(b)' => d = b
                     /\ attempt'[b].pc \in {"none", "started"} => attempt'[b].version = 0
                     /\ attempt'[b].pc \in BeforeSubmit \cup {"submitted", "accepting"} => attempt'[b].version # 0
                     /\ attempt'[b].pc = "accepting" => row'[KeyOf(b)'].state = "reserved"
    BY DEF AttemptsOwnRows
  <2>9. CASE b = a
    BY <2>1, <2>2, <2>3, <2>4, <2>8, <2>9
  <2>10. CASE b # a
    <3>1. attempt'[b] = attempt[b] /\ KeyOf(b)' = KeyOf(b)
      BY <2>2, <2>4, <2>10
    <3>2. attempt[b].version # 0 => row'[KeyOf(b)] = row[KeyOf(b)]
      BY <1>h, <2>3, <2>8
    <3>3. attempt[b].version # 0 => \A d \in Attempts : KeyOf(d)' = KeyOf(b)' => d = b
      BY <1>a, <2>4, <2>8, <3>1 DEF AttemptsOwnRows
    <3> QED BY <1>a, <3>1, <3>2, <3>3 DEF AttemptsOwnRows
  <2> QED BY <2>9, <2>10
<1>2. ASSUME RowsProgress, ~\E a \in Attempts : Reserve(a) PROVE AttemptsOwnRows'
  <2>1. \A b \in Attempts : attempt'[b].version = attempt[b].version /\ KeyOf(b)' = KeyOf(b)
    BY <1>2 DEF RowsProgress, KeyOf
  <2>p. \A b \in Attempts :
          /\ attempt'[b].pc \in {"none", "started"} => attempt[b].version = 0
          /\ attempt'[b].pc \in BeforeSubmit \cup {"submitted", "accepting"} => attempt[b].version # 0
          /\ attempt'[b].pc = "accepting" =>
               attempt[b].pc = "accepting" \/ (row' = row /\ row[KeyOf(b)].state = "reserved")
    <3>1. CASE attempt' = attempt
      BY <1>a, <3>1 DEF AttemptsOwnRows
    <3>2. ASSUME NEW a \in Attempts, NEW pc, Go(a, pc),
                 pc \notin {"none", "accepting"},
                 pc = "started" => attempt[a].pc \in {"none", "started"},
                 pc \in BeforeSubmit \cup {"submitted"} => attempt[a].pc \in BeforeSubmit
          PROVE  \A b \in Attempts :
                    /\ attempt'[b].pc \in {"none", "started"} => attempt[b].version = 0
                    /\ attempt'[b].pc \in BeforeSubmit \cup {"submitted", "accepting"} => attempt[b].version # 0
                    /\ attempt'[b].pc = "accepting" => attempt[b].pc = "accepting"
      <4>1. attempt'[a].pc = pc /\ \A b \in Attempts : b # a => attempt'[b] = attempt[b]
        BY <1>t, <3>2 DEF Go
      <4> QED BY <1>a, <3>2, <4>1 DEF AttemptsOwnRows
    <3>3. ASSUME NEW a \in Attempts, CommitAcceptedCheck(a)
          PROVE  \A b \in Attempts :
                    /\ attempt'[b].pc \in {"none", "started"} => attempt[b].version = 0
                    /\ attempt'[b].pc \in BeforeSubmit \cup {"submitted", "accepting"} => attempt[b].version # 0
                    /\ attempt'[b].pc = "accepting" =>
                         attempt[b].pc = "accepting" \/ (row' = row /\ row[KeyOf(b)].state = "reserved")
      <4>1. attempt'[a].pc = "accepting" /\ \A b \in Attempts : b # a => attempt'[b] = attempt[b]
        BY <1>t, <3>3 DEF CommitAcceptedCheck, Go
      <4> QED BY <1>a, <3>3, <4>1 DEF AttemptsOwnRows, CommitAcceptedCheck
    <3>4. CASE \E a \in Attempts, pc \in {"started", "scheduled", "created", "authorized", "submitted", "over", "failing"} :
                 /\ Go(a, pc)
                 /\ pc = "started" => attempt[a].pc = "none"
                 /\ pc \in {"scheduled", "created", "authorized", "submitted"} => attempt[a].pc \in BeforeSubmit
      BY <3>2, <3>4 DEF BeforeSubmit
    <3>5. CASE DispatcherStep
      <4>1. PICK a \in Attempts : Start(a) \/ Proceed(a)
        BY <3>5 DEF DispatcherStep
      <4>2. CASE Reserve(a)
        BY <4>2, <1>2
      <4>3. CASE CommitAcceptedCheck(a)
        BY <4>3, <3>3
      <4> QED BY <4>1, <4>2, <4>3, <3>4 DEF Proceed, Start, Schedule, CreateDispatch, AuthorizeDispatchSubmit,
               Submit, Accept, AcceptFails, ReleaseBeforeAccept, FailRun, Crash, BeforeSubmit
    <3> QED BY <3>1, <3>5 DEF Next, vars, EnvironmentStep, Lapse, Age, HostGoesOffline, HostReturns, HostEndsRun,
          LoseDispatchLease, Converge, ReconcileStep, StartReconcile, ListOrphans, ListDueDispatches,
          EndStaleDispatches, Recover, OrphanOfflineRun, FinalizeOfflineDispatch, RecheckOrphan, SkipDispatch,
          ClaimDispatch, AdvanceDispatch, OrphanDispatch, ProjectOrphanedRun, FindOrphanedCapacity,
          ReleaseOrphanedCapacity, RestartWorker
  <2>2. \A b \in Attempts : attempt[b].version # 0 => row'[KeyOf(b)].state # "none"
    <3> SUFFICES ASSUME NEW b \in Attempts, attempt[b].version # 0 PROVE row'[KeyOf(b)].state # "none"
      OBVIOUS
    <3>1. row[KeyOf(b)].state # "none" /\ RowProgress(KeyOf(b))
      BY <1>a, <1>h, <1>2 DEF AttemptsOwnRows, RowsProgress
    <3> QED BY <3>1 DEF RowProgress, Moved
  <2>3. ASSUME NEW b \in Attempts, attempt[b].pc = "accepting", attempt'[b].pc = "accepting"
        PROVE  row'[KeyOf(b)].state = "reserved"
    <3>1. attempt[b].version # 0 /\ row[KeyOf(b)].state = "reserved" /\ KeyOf(b) \in Keys /\ RowProgress(KeyOf(b))
      BY <1>a, <1>h, <1>2, <2>3 DEF AttemptsOwnRows, RowsProgress
    <3>2. Locked(KeyOf(b))
      BY <2>3 DEF Locked
    <3>3. \A a \in Attempts : KeyOf(a) = KeyOf(b) => a = b
      BY <1>a, <3>1 DEF AttemptsOwnRows
    <3>4. row'[KeyOf(b)] = row[KeyOf(b)] \/ row'[KeyOf(b)] = [state |-> "reserved", version |-> row[KeyOf(b)].version, lapsed |-> TRUE]
      BY <2>3, <3>1, <3>2, <3>3 DEF RowProgress
    <3> QED BY <3>1, <3>4
  <2> SUFFICES ASSUME NEW b \in Attempts
               PROVE /\ attempt'[b].version # 0 =>
                          /\ row'[KeyOf(b)'].state # "none"
                          /\ \A d \in Attempts : KeyOf(d)' = KeyOf(b)' => d = b
                     /\ attempt'[b].pc \in {"none", "started"} => attempt'[b].version = 0
                     /\ attempt'[b].pc \in BeforeSubmit \cup {"submitted", "accepting"} => attempt'[b].version # 0
                     /\ attempt'[b].pc = "accepting" => row'[KeyOf(b)'].state = "reserved"
    BY DEF AttemptsOwnRows
  <2>4. attempt[b].version # 0 => \A d \in Attempts : KeyOf(d)' = KeyOf(b)' => d = b
    BY <1>a, <2>1 DEF AttemptsOwnRows
  <2>5. attempt'[b].pc = "accepting" => row'[KeyOf(b)].state = "reserved"
    BY <2>p, <2>3
  <2> QED BY <2>1, <2>p, <2>2, <2>4, <2>5
<1> QED BY <1>1, <1>2, StepProgress DEF CapacityInv

-------------------------------------------------------------------------------
(* Dispatches *)

\* What a step that is none of the dispatcher's does to Dispatches.
DispatchesKeep ==
  /\ attempt' = attempt
  /\ \A a \in Attempts : dispatch'[a] = "none" <=> dispatch[a] = "none"

\* Events and Hosts neither create Dispatches nor reopen ended ones.
LEMMA EnvironmentKeeps ==
  ASSUME TypeOK, EnvironmentStep
  PROVE  /\ DispatchesKeep
         /\ sweep' = sweep
         /\ \A a \in Attempts : dispatch[a] \in {"orphaned", "closed"} => dispatch'[a] = dispatch[a]
<1>t. dispatch \in [Attempts -> DispatchStates]
  BY DEF TypeOK
<1>1. CASE UNCHANGED dispatch
  BY <1>1 DEF DispatchesKeep, EnvironmentStep, Lapse, Age, HostGoesOffline, HostReturns, HostEndsRun,
     LoseDispatchLease, Converge, sweepVars, hostVars
<1>2. CASE \E a \in Attempts : LoseDispatchLease(a) \/ Converge(a)
  BY <1>t, <1>2 DEF DispatchesKeep, LoseDispatchLease, Converge, sweepVars, ActiveDispatch
<1> QED
  BY <1>1, <1>2 DEF EnvironmentStep, Lapse, Age, HostGoesOffline, HostReturns, HostEndsRun, hostVars, sweepVars

\* Recovery creates no Dispatch, closes none, and works on those it listed.
LEMMA ReconcileKeeps ==
  ASSUME TypeOK, SweepIsSound, ReconcileStep
  PROVE  /\ DispatchesKeep
         /\ SweepIsSound'
         /\ \A a \in Attempts : dispatch'[a] = "closed" => dispatch[a] = "closed"
<1>t. dispatch \in [Attempts -> DispatchStates] /\ sweep \in SweepState
  BY DEF TypeOK
<1>r. Resting.step = "next" /\ Resting.todo = {} /\ "none" \notin ActiveDispatch
  BY DEF Resting, ActiveDispatch
<1>e. \A phase, todo : Enter(phase, todo) => sweep'.step = "next" /\ sweep'.todo = todo /\ sweep'.phase = phase
  BY DEF Enter, Resting
<1>o. \A a : Done(a) => sweep'.step = "next" /\ sweep'.todo \subseteq sweep.todo /\ sweep'.phase = sweep.phase
  BY <1>t DEF Done, SweepState
<1>w. \A a, step : To(a, step) => sweep'.step = step /\ sweep'.at = a /\ sweep'.todo = sweep.todo /\ sweep'.phase = sweep.phase
  BY <1>t DEF To, SweepState
<1>d. \A a \in Attempts : sweep.at = a /\ sweep.step # "next" => dispatch[a] # "none"
  BY DEF SweepIsSound
<1>1. CASE StartReconcile \/ ListOrphans \/ ListDueDispatches \/ EndStaleDispatches
  <2>1. UNCHANGED <<dispatch, attempt>>
    BY <1>1 DEF StartReconcile, ListOrphans, ListDueDispatches, EndStaleDispatches
  <2>2. sweep'.step = "next" /\ \A a \in sweep'.todo : dispatch[a] # "none" /\ (sweep'.phase = "orphans" => dispatch[a] = "orphaned")
    BY <1>1, <1>e, <1>r DEF StartReconcile, ListOrphans, ListDueDispatches, EndStaleDispatches
  <2> QED BY <2>1, <2>2 DEF DispatchesKeep, SweepIsSound
<1>2. CASE Recover
  BY <1>2, <1>r DEF Recover, Abandon, DispatchesKeep, SweepIsSound
<1>3. ASSUME NEW a \in Attempts, OrphanOfflineRun(a)
      PROVE  /\ DispatchesKeep /\ SweepIsSound'
             /\ \A b \in Attempts : dispatch'[b] = "closed" => dispatch[b] = "closed"
  <2>1. UNCHANGED <<dispatch, attempt>> /\ a \in sweep.todo
    BY <1>3 DEF OrphanOfflineRun
  <2>2. CASE Abandon
    BY <2>1, <2>2, <1>r DEF Abandon, DispatchesKeep, SweepIsSound
  <2>3. CASE To(a, "finalize")
    BY <2>1, <2>3, <1>w DEF DispatchesKeep, SweepIsSound
  <2> QED BY <1>3, <2>2, <2>3 DEF OrphanOfflineRun
<1>4. ASSUME NEW a \in Attempts, FinalizeOfflineDispatch(a)
      PROVE  /\ DispatchesKeep /\ SweepIsSound'
             /\ \A b \in Attempts : dispatch'[b] = "closed" => dispatch[b] = "closed"
  <2>1. dispatch'[a] \in {"orphaned", "closed"} /\ \A b \in Attempts : b # a => dispatch'[b] = dispatch[b]
    BY <1>4, <1>t, <1>d DEF FinalizeOfflineDispatch, DispatchStates, At
  <2>2. dispatch'[a] = "closed" => dispatch[a] = "closed"
    BY <1>4, <1>t DEF FinalizeOfflineDispatch
  <2>3. dispatch[a] # "none" /\ attempt' = attempt
    BY <1>4, <1>d DEF FinalizeOfflineDispatch, At
  <2>4. sweep.phase = "offline" /\ sweep'.phase = "offline" /\ sweep'.todo = sweep.todo /\ sweep'.at = a /\ sweep'.step = "lookup"
    BY <1>4, <1>w DEF FinalizeOfflineDispatch, At
  <2>5. sweep.todo \subseteq Attempts
    BY <1>t DEF SweepState
  <2> QED BY <2>1, <2>2, <2>3, <2>4, <2>5 DEF DispatchesKeep, SweepIsSound
<1>5. ASSUME NEW a \in Attempts, RecheckOrphan(a)
      PROVE  /\ DispatchesKeep /\ SweepIsSound'
             /\ \A b \in Attempts : dispatch'[b] = "closed" => dispatch[b] = "closed"
  <2>1. UNCHANGED <<dispatch, attempt>> /\ a \in sweep.todo /\ dispatch[a] = "orphaned"
    BY <1>5 DEF RecheckOrphan, SweepIsSound, At
  <2>2. CASE Abandon
    BY <2>1, <2>2, <1>r DEF Abandon, DispatchesKeep, SweepIsSound
  <2>3. CASE To(a, "project")
    BY <2>1, <2>3, <1>w DEF DispatchesKeep, SweepIsSound
  <2>4. CASE Done(a)
    BY <2>1, <2>4, <1>o DEF DispatchesKeep, SweepIsSound
  <2> QED BY <1>5, <2>2, <2>3, <2>4 DEF RecheckOrphan
<1>6. ASSUME NEW a \in Attempts, SkipDispatch(a) \/ ReleaseOrphanedCapacity(a)
      PROVE  /\ DispatchesKeep /\ SweepIsSound'
             /\ \A b \in Attempts : dispatch'[b] = "closed" => dispatch[b] = "closed"
  BY <1>6, <1>o DEF SkipDispatch, ReleaseOrphanedCapacity, DispatchesKeep, SweepIsSound
<1>7. ASSUME NEW a \in Attempts, ClaimDispatch(a) \/ AdvanceDispatch(a) \/ OrphanDispatch(a)
      PROVE  /\ DispatchesKeep /\ SweepIsSound'
             /\ \A b \in Attempts : dispatch'[b] = "closed" => dispatch[b] = "closed"
  <2>1. dispatch[a] # "none" /\ sweep.phase = "stale" /\ attempt' = attempt
    BY <1>7, <1>d, <1>r DEF ClaimDispatch, AdvanceDispatch, OrphanDispatch, At
  <2>2. dispatch'[a] \in {"recovering", "accepted", "orphaned"} /\ \A b \in Attempts : b # a => dispatch'[b] = dispatch[b]
    BY <1>7, <1>t DEF ClaimDispatch, AdvanceDispatch, OrphanDispatch
  <2>3. sweep'.todo \subseteq sweep.todo /\ sweep'.phase = "stale" /\ sweep.todo \subseteq Attempts
    BY <1>7, <1>o, <1>w, <1>t, <2>1 DEF ClaimDispatch, AdvanceDispatch, OrphanDispatch, SweepState
  <2>4. /\ sweep'.step # "next" => sweep'.at = a
        /\ sweep'.step \in {"project", "lookup", "release"} => dispatch'[a] = "orphaned"
        /\ sweep'.step # "release"
    BY <1>7, <1>t, <1>o, <1>w DEF ClaimDispatch, AdvanceDispatch, OrphanDispatch
  <2> QED BY <2>1, <2>2, <2>3, <2>4 DEF DispatchesKeep, SweepIsSound
<1>8. ASSUME NEW a \in Attempts, ProjectOrphanedRun(a)
      PROVE  /\ DispatchesKeep /\ SweepIsSound'
             /\ \A b \in Attempts : dispatch'[b] = "closed" => dispatch[b] = "closed"
  <2>1. UNCHANGED <<dispatch, attempt>> /\ a = sweep.at /\ To(a, "lookup") /\ sweep.step = "project"
    BY <1>8 DEF ProjectOrphanedRun
  <2> QED BY <2>1, <1>w DEF DispatchesKeep, SweepIsSound
<1>9. ASSUME NEW a \in Attempts, FindOrphanedCapacity(a)
      PROVE  /\ DispatchesKeep /\ SweepIsSound'
             /\ \A b \in Attempts : dispatch'[b] = "closed" => dispatch[b] = "closed"
  <2>1. UNCHANGED <<dispatch, attempt>>
    BY <1>9 DEF FindOrphanedCapacity
  <2>2. CASE Abandon
    BY <2>1, <2>2, <1>r DEF Abandon, DispatchesKeep, SweepIsSound
  <2>3. CASE Done(a)
    BY <2>1, <2>3, <1>o DEF DispatchesKeep, SweepIsSound
  <2>4. ASSUME NEW k, MatchesCapacityReservation(a, k),
               sweep' = [sweep EXCEPT !.step = "release", !.found = k[2], !.seen = row[k].version]
        PROVE  /\ DispatchesKeep /\ SweepIsSound'
               /\ \A b \in Attempts : dispatch'[b] = "closed" => dispatch[b] = "closed"
    <3>1. /\ sweep'.at = sweep.at /\ sweep'.todo = sweep.todo /\ sweep'.phase = sweep.phase
          /\ sweep.step = "lookup" /\ sweep.at = a /\ sweep'.found = k[2]
      BY <1>9, <1>t, <2>4 DEF SweepState, FindOrphanedCapacity
    <3>2. k[2] = attempt[a].version
      BY <2>4 DEF MatchesCapacityReservation, KeyOf
    <3> QED BY <2>1, <3>1, <3>2 DEF DispatchesKeep, SweepIsSound
  <2> QED BY <1>9, <2>2, <2>3, <2>4 DEF FindOrphanedCapacity
<1> QED BY <1>1, <1>2, <1>3, <1>4, <1>5, <1>6, <1>7, <1>8, <1>9 DEF ReconcileStep

\* A dispatcher creates a Dispatch once and never ends one.
LEMMA DispatcherKeeps ==
  ASSUME CapacityInv, DispatcherStep
  PROVE  /\ DispatchesFollow'
         /\ sweep' = sweep
         /\ \A a \in Attempts : dispatch[a] \in {"orphaned", "closed"} => dispatch'[a] = dispatch[a]
         /\ \A a \in Attempts : dispatch'[a] = "closed" => dispatch[a] = "closed"
         /\ \A a \in Attempts : dispatch[a] # "none" =>
              dispatch'[a] # "none" /\ attempt'[a].version = attempt[a].version
<1>a. TypeOK /\ AttemptsOwnRows /\ DispatchesFollow
  BY DEF CapacityInv
<1>t. /\ dispatch \in [Attempts -> DispatchStates]
      /\ attempt \in [Attempts -> [pc : AttemptStates, version : Versions \cup {0}]]
  BY <1>a DEF TypeOK
<1>g. \A a \in Attempts : \A pc : Go(a, pc) =>
        /\ attempt'[a].pc = pc /\ attempt'[a].version = attempt[a].version
        /\ \A b \in Attempts : b # a => attempt'[b] = attempt[b]
  BY <1>t DEF Go
<1>1. PICK a \in Attempts : Start(a) \/ Proceed(a)
  BY DEF DispatcherStep
<1>s. sweep' = sweep
  BY <1>1 DEF Proceed, Start, Reserve, Schedule, CreateDispatch, AuthorizeDispatchSubmit, Submit, CommitAcceptedCheck,
     Accept, AcceptFails, ReleaseBeforeAccept, FailRun, Crash, sweepVars
<1>2. CASE Start(a) \/ Schedule(a)
  BY <1>2, <1>a, <1>g, <1>s DEF Start, Schedule, DispatchesFollow
<1>3. CASE Reserve(a)
  <2>1. PICK v \in Versions : attempt' = [attempt EXCEPT ![a] = [pc |-> "reserved", version |-> v]]
    BY <1>3 DEF Reserve
  <2>2. attempt'[a] = [pc |-> "reserved", version |-> v] /\ \A b \in Attempts : b # a => attempt'[b] = attempt[b]
    BY <1>t, <2>1
  <2>3. dispatch' = dispatch /\ dispatch[a] = "none"
    BY <1>3, <1>a DEF Reserve, DispatchesFollow
  <2> QED BY <1>a, <1>s, <2>2, <2>3 DEF DispatchesFollow
<1>4. CASE CreateDispatch(a)
  <2>1. dispatch[a] = "none" /\ attempt[a].version # 0
    BY <1>4, <1>a DEF CreateDispatch, DispatchesFollow, AttemptsOwnRows, BeforeSubmit
  <2>2. dispatch'[a] = "open" /\ \A b \in Attempts : b # a => dispatch'[b] = dispatch[b]
    BY <1>4, <1>t DEF CreateDispatch
  <2> QED BY <1>4, <1>a, <1>g, <1>s, <2>1, <2>2 DEF CreateDispatch, DispatchesFollow
<1>5. CASE Accept(a)
  <2>1. dispatch[a] = "open" /\ dispatch'[a] = "accepted" /\ \A b \in Attempts : b # a => dispatch'[b] = dispatch[b]
    BY <1>5, <1>t DEF Accept
  <2> QED BY <1>5, <1>a, <1>g, <1>s, <2>1 DEF Accept, DispatchesFollow
<1>6. CASE /\ UNCHANGED dispatch
           /\ \E pc \in {"created", "authorized", "submitted", "accepting", "failing", "over"} : Go(a, pc)
  BY <1>6, <1>a, <1>g, <1>s DEF DispatchesFollow
<1> QED
  BY <1>1, <1>2, <1>3, <1>4, <1>5, <1>6 DEF Proceed, AuthorizeDispatchSubmit, Submit, CommitAcceptedCheck,
     AcceptFails, ReleaseBeforeAccept, FailRun, Crash

\* A Dispatch is created once, for an attempt that holds a reservation.
LEMMA StepDispatchesFollow ==
  ASSUME CapacityInv, [Next]_vars
  PROVE  DispatchesFollow'
<1>1. CASE DispatchesKeep
  BY <1>1 DEF CapacityInv, DispatchesFollow, DispatchesKeep
<1>2. CASE RestartWorker \/ UNCHANGED vars
  BY <1>2, <1>1 DEF RestartWorker, vars, DispatchesKeep
<1> QED BY <1>1, <1>2, EnvironmentKeeps, ReconcileKeeps, DispatcherKeeps DEF Next, CapacityInv

\* What the recovery worker remembers stays true while others go on.
LEMMA StepSweepSound ==
  ASSUME CapacityInv, [Next]_vars
  PROVE  SweepIsSound'
<1>t. SweepIsSound /\ sweep \in SweepState /\ sweep.todo \subseteq Attempts
  BY DEF CapacityInv, TypeOK, SweepState
<1>1. CASE /\ sweep' = sweep
           /\ \A a \in Attempts : dispatch[a] # "none" =>
                dispatch'[a] # "none" /\ attempt'[a].version = attempt[a].version
           /\ \A a \in Attempts : dispatch[a] \in {"orphaned", "closed"} => dispatch'[a] = dispatch[a]
  BY <1>1, <1>t DEF SweepIsSound
<1>2. CASE UNCHANGED vars
  BY <1>2, <1>1 DEF vars
<1>3. CASE RestartWorker
  BY <1>3 DEF RestartWorker, Abandon, Resting, SweepIsSound
<1>4. CASE EnvironmentStep
  BY <1>4, <1>1, EnvironmentKeeps DEF CapacityInv, DispatchesKeep
<1> QED BY <1>1, <1>2, <1>3, <1>4, ReconcileKeeps, DispatcherKeeps DEF Next, CapacityInv

-------------------------------------------------------------------------------
(* What has ended holds nothing *)

\* A release by the version its row was inserted with always takes effect.
LEMMA ReleaseEndsRow ==
  ASSUME CapacityInv, NEW a \in Attempts, attempt[a].version # 0, ReleaseRow(KeyOf(a), attempt[a].version)
  PROVE  /\ row'[KeyOf(a)].state \notin ActiveRow
         /\ \A k \in Keys : k # KeyOf(a) => row'[k] = row[k]
<1>1. KeyOf(a) \in Keys /\ KeyOf(a)[2] = attempt[a].version /\ row \in [Keys -> Row]
  BY HeldKey DEF CapacityInv, TypeOK, KeyOf
<1>2. Active(KeyOf(a)) => row[KeyOf(a)].version \in {attempt[a].version, attempt[a].version + 1}
  BY <1>1 DEF CapacityInv, RowsFitKeys, Active, ActiveRow
<1>3. CASE Active(KeyOf(a))
  <2>1. row' = [row EXCEPT ![KeyOf(a)] = Moved(KeyOf(a), "released")]
    BY <1>2, <1>3 DEF ReleaseRow
  <2> QED BY <1>1, <2>1 DEF Moved, ActiveRow
<1>4. CASE ~Active(KeyOf(a))
  BY <1>4 DEF ReleaseRow, Active
<1> QED BY <1>3, <1>4

\* Convergence releases the row of its Dispatch and nothing revives the row.
LEMMA StepClosedHoldsNothing ==
  ASSUME CapacityInv, [Next]_vars
  PROVE  ClosedHoldsNothing'
<1>a. TypeOK /\ AttemptsOwnRows /\ DispatchesFollow /\ SweepIsSound /\ ClosedHoldsNothing
  BY DEF CapacityInv
<1>h. \A b \in Attempts : attempt[b].version # 0 => KeyOf(b) \in Keys
  BY <1>a, HeldKey
<1>1. ASSUME RowsProgress, NEW b \in Attempts, dispatch[b] = "closed", HoldsCapacity(b)'
      PROVE  FALSE
  <2>1. attempt'[b].version = attempt[b].version /\ attempt[b].version # 0
    BY <1>1 DEF RowsProgress, HoldsCapacity
  <2>2. KeyOf(b)' = KeyOf(b) /\ KeyOf(b) \in Keys
    BY <1>h, <2>1 DEF KeyOf
  <2>3. RowProgress(KeyOf(b)) /\ ~Active(KeyOf(b)) /\ Active(KeyOf(b))'
    BY <1>1, <1>a, <2>1, <2>2 DEF RowsProgress, ClosedHoldsNothing, HoldsCapacity
  <2>4. row'[KeyOf(b)].state \in ActiveRow
    BY <2>2, <2>3 DEF Active
  <2> QED BY <2>3, <2>4 DEF RowProgress, Active, ActiveRow
<1>2. ASSUME NEW a \in Attempts, Reserve(a) PROVE ClosedHoldsNothing'
  <2>1. PICK v \in Versions :
           /\ row' = [row EXCEPT ![<<RunOf[a], v>>] = [state |-> "reserved", version |-> v, lapsed |-> FALSE]]
           /\ attempt' = [attempt EXCEPT ![a] = [pc |-> "reserved", version |-> v]]
           /\ <<RunOf[a], v>> \in Keys
           /\ row[<<RunOf[a], v>>].state = "none"
           /\ v # 0
    BY <1>2, ReserveIsFresh
  <2> SUFFICES ASSUME NEW b \in Attempts, dispatch'[b] = "closed", HoldsCapacity(b)' PROVE FALSE
    BY DEF ClosedHoldsNothing
  <2>2. dispatch[b] = "closed" /\ attempt[b].version # 0 /\ b # a
    BY <1>2, <1>a DEF Reserve, DispatchesFollow
  <2>3. attempt'[b] = attempt[b] /\ KeyOf(b)' = KeyOf(b)
    BY <2>1, <2>2, <1>a DEF TypeOK, KeyOf
  <2>4. KeyOf(b) \in Keys /\ KeyOf(b) # <<RunOf[a], v>>
    BY <2>1, <2>2, <1>a, <1>h DEF AttemptsOwnRows
  <2>5. row'[KeyOf(b)] = row[KeyOf(b)]
    BY <1>a, <2>1, <2>4 DEF TypeOK
  <2>6. Active(KeyOf(b))
    BY <2>3, <2>5 DEF HoldsCapacity, Active
  <2> QED BY <1>a, <2>2, <2>6 DEF ClosedHoldsNothing, HoldsCapacity
<1>3. ASSUME NEW a \in Attempts, Converge(a), RowsProgress PROVE ClosedHoldsNothing'
  <2>1. attempt[a].version # 0
    BY <1>3, <1>a DEF Converge, ActiveDispatch, DispatchesFollow
  <2>2. ReleaseRow(KeyOf(a), attempt[a].version)
    BY <1>3 DEF Converge, MatchesCapacityReservation
  <2>3. row'[KeyOf(a)].state \notin ActiveRow
    BY <2>1, <2>2, ReleaseEndsRow
  <2> SUFFICES ASSUME NEW b \in Attempts, dispatch'[b] = "closed", HoldsCapacity(b)' PROVE FALSE
    BY DEF ClosedHoldsNothing
  <2>4. CASE b = a
    <3>1. KeyOf(a)' = KeyOf(a) /\ Active(KeyOf(a))'
      BY <1>3, <2>4 DEF Converge, KeyOf, HoldsCapacity
    <3> QED BY <2>3, <3>1 DEF Active
  <2>5. CASE b # a
    BY <1>1, <1>3, <2>5, <1>a DEF Converge, TypeOK
  <2> QED BY <2>4, <2>5
<1>4. ASSUME RowsProgress, \A b \in Attempts : dispatch'[b] = "closed" => dispatch[b] = "closed"
      PROVE  ClosedHoldsNothing'
  BY <1>1, <1>4 DEF ClosedHoldsNothing
<1>5. CASE RestartWorker \/ UNCHANGED vars
  BY <1>4, <1>5, StepProgress, <1>2 DEF RestartWorker, vars, CapacityInv
<1>6. CASE EnvironmentStep
  <2>1. RowsProgress
    BY <1>6, <1>a, EnvironmentProgress
  <2>2. CASE \E a \in Attempts : Converge(a)
    BY <2>1, <2>2, <1>3
  <2>3. CASE \A b \in Attempts : dispatch'[b] = "closed" => dispatch[b] = "closed"
    BY <2>1, <2>3, <1>4
  <2>4. CASE \E a \in Attempts : LoseDispatchLease(a)
    BY <2>3, <2>4, <1>a DEF LoseDispatchLease, TypeOK
  <2>5. CASE UNCHANGED dispatch
    BY <2>3, <2>5
  <2> QED BY <1>6, <2>2, <2>4, <2>5 DEF EnvironmentStep, Lapse, Age, HostGoesOffline, HostReturns, HostEndsRun
<1>7. CASE ReconcileStep
  BY <1>7, <1>a, <1>4, ReconcileProgress, ReconcileKeeps
<1>8. CASE DispatcherStep
  BY <1>8, <1>a, <1>2, <1>4, DispatcherKeeps, DispatcherProgress DEF DispatcherStep, CapacityInv
<1> QED BY <1>5, <1>6, <1>7, <1>8 DEF Next

-------------------------------------------------------------------------------
(* Theorems *)

\* The invariant and the limits hold before the first reservation.
LEMMA InitInv == Init => CapacityInv /\ TimelyWithinLimit
<1> SUFFICES ASSUME Init PROVE CapacityInv /\ TimelyWithinLimit
  OBVIOUS
<1>1. TypeOK
  BY InitTyped
<1>2. RowsFitKeys
  BY DEF Init, RowsFitKeys
<1>3. AttemptsOwnRows /\ DispatchesFollow
  BY DEF Init, AttemptsOwnRows, DispatchesFollow, BeforeSubmit
<1>4. SweepIsSound
  BY DEF Init, SweepIsSound, Resting
<1>5. ClosedHoldsNothing
  BY DEF Init, ClosedHoldsNothing
<1>6. TimelyWithinLimit
  <2>1. \A c \in CapacityKeys : TimelyKeys(c) = {}
    BY DEF Init, TimelyKeys, Active, ActiveRow
  <2>2. \A c \in CapacityKeys : Limit[c] \in Nat \ {0}
    BY CapacityAssumption
  <2>3. \A c \in CapacityKeys : Cardinality(TimelyKeys(c)) = 0
    BY <2>1, FS_EmptySet
  <2> QED BY <2>2, <2>3 DEF TimelyWithinLimit
<1> QED BY <1>1, <1>2, <1>3, <1>4, <1>5, <1>6 DEF CapacityInv

\* Every step keeps the invariant.
LEMMA StepInv == CapacityInv /\ [Next]_vars => CapacityInv'
BY StepTyped, StepRowsFit, StepAttemptsOwn, StepDispatchesFollow, StepSweepSound, StepClosedHoldsNothing
   DEF CapacityInv

\* The invariant the theorems rest on.
THEOREM CapacityInvariant == Spec => []CapacityInv
<1>1. Init => CapacityInv
  BY InitInv
<1> QED BY <1>1, StepInv, PTL DEF Spec

\* Rows, attempts, Dispatches and the sweep keep their types; no row is ever
\* recovering.
THEOREM CapacityTypeCorrect == Spec => []TypeOK
<1>1. CapacityInv => TypeOK
  BY DEF CapacityInv
<1> QED BY <1>1, CapacityInvariant, PTL

\* The reservation of a converged Dispatch is never active: convergence ends
\* it, and neither a late acceptance nor a retry of the Run brings it back.
THEOREM ClosedAlwaysHoldsNothing == Spec => []ClosedHoldsNothing
<1>1. CapacityInv => ClosedHoldsNothing
  BY DEF CapacityInv
<1> QED BY <1>1, CapacityInvariant, PTL

\* Active and unexpired reservations never exceed a limit: Reserve counts them
\* all, and no later step makes an expired one timely again.
THEOREM TimelyAlwaysWithinLimit == Spec => []TimelyWithinLimit
<1>1. Init => TimelyWithinLimit
  BY InitInv
<1>2. CapacityInv /\ TimelyWithinLimit /\ [Next]_vars => TimelyWithinLimit'
  BY StepProgress, ProgressKeepsLimits, ReserveKeepsLimits DEF CapacityInv
<1> QED BY <1>1, <1>2, CapacityInvariant, PTL DEF Spec

\* What ends the reservation of an attempt is the attempt itself, or comes
\* after the end of its own Dispatch.
LEMMA StepEndsWithOwner ==
  ASSUME CapacityInv, [Next]_vars, NEW a \in Attempts,
         HoldsCapacity(a), ~row[KeyOf(a)].lapsed, row'[KeyOf(a)].state \notin ActiveRow
  PROVE  attempt'[a].pc # attempt[a].pc \/ dispatch'[a] \in {"orphaned", "closed"}
<1>a. TypeOK /\ AttemptsOwnRows /\ DispatchesFollow /\ SweepIsSound
  BY DEF CapacityInv
<1>k. KeyOf(a) \in Keys /\ attempt[a].version # 0 /\ Active(KeyOf(a))
  BY <1>a, HeldKey DEF HoldsCapacity
<1>o. \A b \in Attempts : KeyOf(b) = KeyOf(a) => b = a
  BY <1>a, <1>k DEF AttemptsOwnRows
<1>c. row'[KeyOf(a)] # row[KeyOf(a)]
  BY <1>k DEF Active
<1>r. \A b \in Attempts : \A v : ReleaseRow(KeyOf(b), v) => b = a
  <2> SUFFICES ASSUME NEW b \in Attempts, NEW v, ReleaseRow(KeyOf(b), v), b # a PROVE FALSE
    OBVIOUS
  <2>1. KeyOf(b) # KeyOf(a)
    BY <1>o
  <2>2. row' = row \/ row' = [row EXCEPT ![KeyOf(b)] = Moved(KeyOf(b), "released")]
    BY DEF ReleaseRow
  <2> QED BY <1>a, <1>c, <1>k, <2>1, <2>2 DEF TypeOK
<1>1. ASSUME NEW b \in Attempts, Reserve(b) PROVE FALSE
  <2>1. PICK v \in Versions :
           /\ row' = [row EXCEPT ![<<RunOf[b], v>>] = [state |-> "reserved", version |-> v, lapsed |-> FALSE]]
           /\ <<RunOf[b], v>> \in Keys
           /\ row[<<RunOf[b], v>>].state = "none"
    BY <1>1, ReserveIsFresh
  <2>2. KeyOf(a) # <<RunOf[b], v>>
    BY <1>k, <2>1 DEF Active, ActiveRow
  <2> QED BY <1>a, <1>c, <1>k, <2>1, <2>2 DEF TypeOK
<1>2. ASSUME NEW b \in Attempts, Accept(b) PROVE FALSE
  <2>1. row' = [row EXCEPT ![KeyOf(b)] = Moved(KeyOf(b), "accepted")]
    BY <1>2 DEF Accept
  <2>2. CASE KeyOf(b) = KeyOf(a)
    BY <1>a, <1>k, <2>1, <2>2 DEF TypeOK, Moved, ActiveRow
  <2>3. CASE KeyOf(b) # KeyOf(a)
    BY <1>a, <1>k, <1>c, <2>1, <2>3 DEF TypeOK
  <2> QED BY <2>2, <2>3
<1>3. ASSUME NEW b \in Attempts, ReleaseBeforeAccept(b) PROVE attempt'[a].pc # attempt[a].pc
  <2>1. b = a
    BY <1>3, <1>r DEF ReleaseBeforeAccept
  <2> QED BY <1>3, <1>a, <2>1 DEF ReleaseBeforeAccept, Go, TypeOK, BeforeSubmit
<1>4. ASSUME NEW k \in Keys, Lapse(k) PROVE FALSE
  <2>1. row'[KeyOf(a)].state = row[KeyOf(a)].state
    BY <1>4, <1>a, <1>k DEF Lapse, TypeOK
  <2> QED BY <1>k, <2>1 DEF Active
<1>5. ASSUME NEW b \in Attempts, Converge(b) PROVE dispatch'[a] \in {"orphaned", "closed"}
  <2>1. ReleaseRow(KeyOf(b), attempt[b].version)
    BY <1>5 DEF Converge, MatchesCapacityReservation
  <2>2. b = a
    BY <1>r, <2>1
  <2> QED BY <1>5, <1>a, <2>2 DEF Converge, TypeOK
<1>6. ASSUME NEW b \in Attempts, ReleaseOrphanedCapacity(b) PROVE dispatch'[a] \in {"orphaned", "closed"}
  <2>1. b = a /\ dispatch[a] \in {"orphaned", "closed"}
    BY <1>6, <1>a, <1>r, ReleasesOwnRow
  <2> QED BY <1>6, <2>1 DEF ReleaseOrphanedCapacity
<1>7. CASE Recover
  BY <1>7, <1>c, <1>k DEF Recover
<1>8. CASE row' = row
  BY <1>8, <1>c
<1> QED
  BY <1>1, <1>2, <1>3, <1>4, <1>5, <1>6, <1>7, <1>8 DEF Next, vars, DispatcherStep, Start, Proceed, Schedule,
     CreateDispatch, AuthorizeDispatchSubmit, Submit, CommitAcceptedCheck, AcceptFails, FailRun, Crash,
     EnvironmentStep, Age, HostGoesOffline, HostReturns, HostEndsRun, LoseDispatchLease, ReconcileStep,
     StartReconcile, ListOrphans, ListDueDispatches, EndStaleDispatches, OrphanOfflineRun, FinalizeOfflineDispatch,
     RecheckOrphan, SkipDispatch, ClaimDispatch, AdvanceDispatch, OrphanDispatch, ProjectOrphanedRun,
     FindOrphanedCapacity, RestartWorker

\* No retry and no recovery of another Dispatch takes an unexpired reservation.
THEOREM ReservationAlwaysEndsWithItsOwner == Spec => ReservationEndsWithItsOwner
<1>1. CapacityInv /\ [Next]_vars =>
        [\A a \in Attempts :
           LET k == KeyOf(a) IN
           HoldsCapacity(a) /\ ~row[k].lapsed /\ row'[k].state \notin ActiveRow
           => attempt'[a].pc # attempt[a].pc \/ dispatch'[a] \in {"orphaned", "closed"}]_vars
  BY StepEndsWithOwner
<1> QED BY <1>1, CapacityInvariant, PTL DEF Spec, ReservationEndsWithItsOwner

===============================================================================
