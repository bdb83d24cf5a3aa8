---------------------------- MODULE ServicesProofs ----------------------------
(***************************************************************************)
(* Proofs of the properties of RunTickets, Retention and HostRecovery for  *)
(* every number of adapters and calls, of artifacts, replicas and passes,  *)
(* of processes, fences and lost answers; and of what all the services of  *)
(* MCServices promise together, from the theorems about each of them.      *)
(***************************************************************************)
EXTENDS MCServices, WorkQueueProofs, RunLifecycleProofs, ProductServicesProofs, FiniteSetTheorems, TLAPS

-------------------------------------------------------------------------------
(* Run tickets *)

\* Until the ticket expires, one attempt at most is between the creation of the
\* record and the sync of its directory, and what it left is what it finds.
Writing(a) == attempt[a].pc \in {"created", "written"}

TicketInv ==
  /\ TicketTypeOK
  /\ \A a, b \in timely : a = b
  /\ ~expired =>
       /\ \A a \in Attempts : ~attempt[a].late
       /\ \A a \in Attempts : attempt[a].pc = "created" => record = "torn"
       /\ \A a \in Attempts : attempt[a].pc = "written" => record = "written"
       /\ \A a, b \in Attempts : Writing(a) /\ Writing(b) => a = b
       /\ timely # {} => record = "durable"

Moved(a, pc) ==
  /\ attempt'[a].pc = pc /\ attempt'[a].late = attempt[a].late
  /\ \A b \in Attempts : b # a => attempt'[b] = attempt[b]

\* An attempt that goes on keeps the time it read.
LEMMA AttemptMoves ==
  ASSUME TicketTypeOK, NEW a \in Attempts, NEW pc \in Steps, Goes(a, pc)
  PROVE  Moved(a, pc) /\ attempt' \in [Attempts -> [pc : Steps, late : BOOLEAN]]
BY DEF TicketTypeOK, Goes, Moved

\* The mutex and the lock file keep their types.
LEMMA LockTyped ==
  ASSUME TicketTypeOK, NEW a \in Attempts
  PROVE  /\ [mutex EXCEPT ![AdapterOf[a]] = a] \in [Adapters -> Attempts \cup {Nobody}]
         /\ [mutex EXCEPT ![AdapterOf[a]] = Nobody] \in [Adapters -> Attempts \cup {Nobody}]
BY TicketAssumption DEF TicketTypeOK

\* Steps that leave the record alone and take nobody into its writing.
LEMMA QuietStep ==
  ASSUME TicketInv, TicketTypeOK', UNCHANGED <<record, timely>>, expired' = expired \/ expired',
         \A a \in Attempts : /\ attempt'[a].late => expired \/ attempt[a].late
                             /\ Writing(a)' => attempt'[a].pc = attempt[a].pc
  PROVE  TicketInv'
BY DEF TicketInv, Writing

\* Every step of an attempt keeps the types.
LEMMA AttemptTyped ==
  ASSUME TicketTypeOK, NEW a \in Attempts, AttemptStep(a)
  PROVE  TicketTypeOK'
<1> DEFINE A == [Attempts -> [pc : Steps, late : BOOLEAN]]
<1>g. \A pc \in Steps : Goes(a, pc) => attempt' \in A
  BY AttemptMoves
<1>a. \A pc \in Steps, late \in BOOLEAN : [attempt EXCEPT ![a] = [pc |-> pc, late |-> late]] \in A
  BY DEF TicketTypeOK
<1>1. CASE VerifyRunTicket(a)
  <2>1. PICK fits \in BOOLEAN : attempt' = [attempt EXCEPT ![a] =
           [pc |-> IF fits /\ ~expired THEN "verified" ELSE "failed", late |-> expired]]
    BY <1>1 DEF VerifyRunTicket
  <2>2. attempt' \in A
    BY <2>1, <1>a DEF Steps, TicketTypeOK
  <2> QED BY <1>1, <2>2 DEF VerifyRunTicket, LeaveStore, LeaveHost, TicketTypeOK
<1>2. CASE ExistingMaterializedWorkspace(a)
  <2>1. attempt' \in A
    BY <1>2, <1>g DEF ExistingMaterializedWorkspace, Steps, TicketTypeOK
  <2> QED BY <1>2, <2>1 DEF ExistingMaterializedWorkspace, LeaveStore, LeaveHost, TicketTypeOK
<1>3. CASE ConsumeBegins(a) \/ FindStaleLock(a) \/ BuildWorkspace(a)
  <2>1. attempt' \in A
    BY <1>3, <1>g DEF ConsumeBegins, FindStaleLock, BuildWorkspace, Steps
  <2> QED BY <1>3, <2>1 DEF ConsumeBegins, FindStaleLock, BuildWorkspace, LeaveStore, LeaveHost, TicketTypeOK
<1>4. CASE EnterMutex(a) \/ LockUnavailable(a)
  <2>1. attempt' \in A
    BY <1>4, <1>g DEF EnterMutex, LockUnavailable, Steps
  <2> QED BY <1>4, <2>1, LockTyped DEF EnterMutex, LockUnavailable, LeaveMutex, LeaveHost, TicketTypeOK
<1>5. CASE AcquireConsumeLock(a) \/ RemoveStaleLock(a)
  <2>1. attempt' \in A
    BY <1>5, <1>g DEF AcquireConsumeLock, RemoveStaleLock, Steps
  <2> QED BY <1>5, <2>1 DEF AcquireConsumeLock, RemoveStaleLock, LeaveHost, TicketTypeOK
<1>6. CASE LockNotSynced(a) \/ ReleaseConsumeLock(a)
  <2>1. attempt' \in A
    BY <1>6, <1>g DEF LockNotSynced, ReleaseConsumeLock, Steps
  <2> QED BY <1>6, <2>1, LockTyped DEF LockNotSynced, ReleaseConsumeLock, LeaveMutex, LeaveHost, TicketTypeOK
<1>7. CASE PurgeExpired(a)
  <2>1. PICK reached \in BOOLEAN :
          /\ record' = IF reached /\ expired /\ record # "torn" THEN "none" ELSE record
          /\ attempt' = [attempt EXCEPT ![a] =
               [pc |-> IF reached /\ record = "torn" THEN "refused" ELSE "purged", late |-> expired]]
    BY <1>7 DEF PurgeExpired
  <2>2. attempt' \in A
    BY <2>1, <1>a DEF Steps, TicketTypeOK
  <2> QED BY <1>7, <2>1, <2>2 DEF PurgeExpired, LeaveHost, TicketTypeOK
<1>8. CASE CreateRecord(a) \/ WriteRecord(a) \/ FindRecord(a)
  <2>1. attempt' \in A
    BY <1>8, <1>g DEF CreateRecord, WriteRecord, FindRecord, Steps, TicketTypeOK
  <2> QED BY <1>8, <2>1 DEF CreateRecord, WriteRecord, FindRecord, LeaveHost, TicketTypeOK
<1>9. CASE SyncDirectory(a)
  <2>1. attempt' \in A
    BY <1>9, <1>g DEF SyncDirectory, Steps
  <2> QED BY <1>9, <2>1 DEF SyncDirectory, LeaveHost, TicketTypeOK
<1>10. CASE ReadCachedObject(a)
  <2>1. attempt' \in A
    BY <1>10, <1>g DEF ReadCachedObject, Steps, TicketTypeOK
  <2> QED BY <1>10, <2>1 DEF ReadCachedObject, LeaveStore, LeaveHost, TicketTypeOK
<1>11. CASE FetchRemoteObject(a) \/ RenameWorkspace(a)
  <2>1. attempt' \in A
    BY <1>11, <1>g DEF FetchRemoteObject, RenameWorkspace, Steps
  <2> QED BY <1>11, <2>1 DEF FetchRemoteObject, RenameWorkspace, LeaveStore, TicketTypeOK
<1> QED BY <1>1, <1>2, <1>3, <1>4, <1>5, <1>6, <1>7, <1>8, <1>9, <1>10, <1>11 DEF AttemptStep

\* Every step of an attempt keeps the invariant.
LEMMA AttemptSafe ==
  ASSUME TicketInv, NEW a \in Attempts, AttemptStep(a)
  PROVE  TicketInv'
<1>t. TicketTypeOK' /\ TicketTypeOK
  BY AttemptTyped DEF TicketInv
<1>g. \A pc \in Steps : Goes(a, pc) => Moved(a, pc)
  BY <1>t, AttemptMoves
<1>e. expired' = expired
  BY DEF AttemptStep, LeaveHost, VerifyRunTicket, ExistingMaterializedWorkspace, ConsumeBegins, EnterMutex,
         AcquireConsumeLock, FindStaleLock, RemoveStaleLock, LockUnavailable, LockNotSynced, PurgeExpired,
         CreateRecord, FindRecord, WriteRecord, SyncDirectory, ReleaseConsumeLock, ReadCachedObject,
         FetchRemoteObject, BuildWorkspace, RenameWorkspace
<1>1. ASSUME NEW pc \in Steps \ {"created", "written"}, Goes(a, pc), UNCHANGED <<record, timely>>
      PROVE  TicketInv'
  <2>1. Moved(a, pc)
    BY <1>1, <1>g
  <2>2. \A b \in Attempts : /\ attempt'[b].late => expired \/ attempt[b].late
                            /\ Writing(b)' => attempt'[b].pc = attempt[b].pc
    BY <2>1, <1>1 DEF Moved, Writing
  <2> QED BY <1>1, <1>t, <1>e, <2>2, QuietStep
<1>2. ASSUME NEW pc \in Steps \ {"created", "written"}, UNCHANGED <<record, timely>>,
             attempt' = [attempt EXCEPT ![a] = [pc |-> pc, late |-> expired]]
      PROVE  TicketInv'
  <2>1. \A b \in Attempts : /\ attempt'[b].late => expired \/ attempt[b].late
                            /\ Writing(b)' => attempt'[b].pc = attempt[b].pc
    BY <1>2, <1>t DEF TicketTypeOK, Writing
  <2> QED BY <1>2, <1>t, <1>e, <2>1, QuietStep
<1>3. CASE VerifyRunTicket(a)
  BY <1>3, <1>2 DEF VerifyRunTicket, LeaveStore, Steps
<1>4. CASE \/ ExistingMaterializedWorkspace(a) \/ ConsumeBegins(a) \/ EnterMutex(a) \/ AcquireConsumeLock(a)
           \/ FindStaleLock(a) \/ RemoveStaleLock(a) \/ LockUnavailable(a) \/ LockNotSynced(a)
           \/ ReleaseConsumeLock(a) \/ ReadCachedObject(a) \/ FetchRemoteObject(a) \/ BuildWorkspace(a)
           \/ RenameWorkspace(a)
  <2>1. UNCHANGED <<record, timely>>
    BY <1>4 DEF LeaveStore, ExistingMaterializedWorkspace, ConsumeBegins, EnterMutex, AcquireConsumeLock,
         FindStaleLock, RemoveStaleLock, LockUnavailable, LockNotSynced, ReleaseConsumeLock, ReadCachedObject,
         FetchRemoteObject, BuildWorkspace, RenameWorkspace
  <2>2. \E pc \in Steps \ {"created", "written"} : Goes(a, pc)
    <3>1. CASE ExistingMaterializedWorkspace(a)
      BY <3>1, <1>t DEF ExistingMaterializedWorkspace, Steps, TicketTypeOK
    <3>2. CASE ReadCachedObject(a)
      BY <3>2, <1>t DEF ReadCachedObject, Steps, TicketTypeOK
    <3>3. CASE ConsumeBegins(a) \/ FetchRemoteObject(a) \/ BuildWorkspace(a) \/ RenameWorkspace(a)
      BY <3>3 DEF ConsumeBegins, FetchRemoteObject, BuildWorkspace, RenameWorkspace, Steps
    <3>4. CASE \/ EnterMutex(a) \/ AcquireConsumeLock(a) \/ FindStaleLock(a) \/ RemoveStaleLock(a)
               \/ LockUnavailable(a) \/ LockNotSynced(a) \/ ReleaseConsumeLock(a)
      BY <3>4 DEF EnterMutex, AcquireConsumeLock, FindStaleLock, RemoveStaleLock, LockUnavailable,
                  LockNotSynced, ReleaseConsumeLock, Steps
    <3> QED BY <1>4, <3>1, <3>2, <3>3, <3>4
  <2> QED BY <2>1, <2>2, <1>1
<1>5. CASE PurgeExpired(a)
  <2>1. PICK reached \in BOOLEAN :
          /\ record' = IF reached /\ expired /\ record # "torn" THEN "none" ELSE record
          /\ attempt' = [attempt EXCEPT ![a] =
               [pc |-> IF reached /\ record = "torn" THEN "refused" ELSE "purged", late |-> expired]]
    BY <1>5 DEF PurgeExpired
  <2>2. CASE expired
    BY <2>2, <1>5, <1>t, <1>e DEF TicketInv, PurgeExpired
  <2>3. CASE ~expired
    BY <2>1, <2>3, <1>2, <1>5 DEF PurgeExpired, Steps
  <2> QED BY <2>2, <2>3
<1>6. CASE CreateRecord(a)
  <2>1. Moved(a, "created") /\ record' = "torn" /\ record = "none" /\ timely' = timely
    BY <1>6, <1>g DEF CreateRecord, Steps
  <2> QED BY <2>1, <1>t, <1>e DEF TicketInv, Moved, Writing
<1>7. CASE FindRecord(a)
  <2>1. CASE attempt[a].late /\ record # "torn"
    BY <2>1, <1>7, <1>t, <1>e DEF FindRecord, TicketInv
  <2>2. CASE ~(attempt[a].late /\ record # "torn")
    BY <2>2, <1>7, <1>1 DEF FindRecord, Steps
  <2> QED BY <2>1, <2>2
<1>8. CASE WriteRecord(a)
  <2>1. \/ Moved(a, "written") /\ record' = (IF record = "torn" THEN "written" ELSE record)
        \/ Moved(a, "refused") /\ record' = "none"
    BY <1>8, <1>g DEF WriteRecord, Steps
  <2>2. attempt[a].pc = "created" /\ timely' = timely
    BY <1>8 DEF WriteRecord, At
  <2>3. CASE expired
    BY <2>2, <2>3, <1>t, <1>e DEF TicketInv
  <2>4. CASE ~expired
    <3>1. /\ record = "torn" /\ timely = {}
          /\ \A b \in Attempts : Writing(b) => b = a
      BY <2>2, <2>4 DEF TicketInv, Writing
    <3> QED BY <2>1, <2>2, <2>4, <3>1, <1>t, <1>e DEF TicketInv, Moved, Writing
  <2> QED BY <2>3, <2>4
<1>9. CASE SyncDirectory(a)
  <2>1. \/ /\ Moved(a, "releasing") /\ record' = (IF record = "written" THEN "durable" ELSE record)
           /\ timely' = (IF expired THEN timely ELSE timely \cup {a})
        \/ Moved(a, "refused") /\ record' = "none" /\ timely' = timely
    BY <1>9, <1>g DEF SyncDirectory, Steps
  <2>2. attempt[a].pc = "written"
    BY <1>9 DEF SyncDirectory, At
  <2>3. CASE expired
    BY <2>1, <2>3, <1>t, <1>e DEF TicketInv
  <2>4. CASE ~expired
    <3>1. /\ record = "written" /\ timely = {}
          /\ \A b \in Attempts : Writing(b) => b = a
      BY <2>2, <2>4 DEF TicketInv, Writing
    <3> QED BY <2>1, <2>2, <2>4, <3>1, <1>t, <1>e DEF TicketInv, Moved, Writing
  <2> QED BY <2>3, <2>4
<1> QED BY <1>3, <1>4, <1>5, <1>6, <1>7, <1>8, <1>9 DEF AttemptStep

\* What dies with its process is not late, and writes no more.
LEMMA DiedTyped ==
  ASSUME TicketTypeOK, NEW ps \in SUBSET Adapters
  PROVE  /\ Died(ps) \in [Attempts -> [pc : Steps, late : BOOLEAN]]
         /\ \A a \in Attempts : /\ Died(ps)[a].late = attempt[a].late
                                /\ Died(ps)[a].pc \in {attempt[a].pc, "failed"}
                                /\ AdapterOf[a] \in ps => Died(ps)[a].pc \notin {"created", "written"}
<1>1. \A a \in Attempts : attempt[a] \in [pc : Steps, late : BOOLEAN]
  BY DEF TicketTypeOK
<1>2. \A a \in Attempts :
        LET d == IF AdapterOf[a] \in ps /\ attempt[a].pc # "off"
                 THEN [attempt[a] EXCEPT !.pc = IF @ = "done" THEN @ ELSE "failed"] ELSE attempt[a]
        IN  /\ d \in [pc : Steps, late : BOOLEAN]
            /\ d.late = attempt[a].late
            /\ d.pc \in {attempt[a].pc, "failed"}
            /\ AdapterOf[a] \in ps => d.pc \notin {"created", "written"}
  BY <1>1 DEF Steps
<1> QED BY <1>2 DEF Died

\* The Host, its processes and time keep the invariant.
LEMMA HostSafe ==
  ASSUME TicketInv,
         \/ TicketExpires \/ LockAges \/ HostStops \/ Cleanup \/ InputsAltered
         \/ \E p \in Adapters : AdapterStarts(p) \/ AdapterDies(p)
  PROVE  TicketInv'
<1>t. TicketTypeOK
  BY DEF TicketInv
<1>1. CASE TicketExpires
  <2>1. TicketTypeOK'
    BY <1>1, <1>t DEF TicketExpires, TicketTypeOK
  <2> QED BY <1>1, <2>1 DEF TicketExpires, TicketInv
<1>2. CASE LockAges \/ Cleanup \/ InputsAltered \/ \E p \in Adapters : AdapterStarts(p)
  <2>1. TicketTypeOK' /\ UNCHANGED <<expired, record, attempt, timely>>
    BY <1>2, <1>t DEF LockAges, Cleanup, InputsAltered, AdapterStarts, LeaveStore, TicketTypeOK
  <2> QED BY <2>1 DEF TicketInv, Writing
<1>3. ASSUME NEW p \in Adapters, AdapterDies(p) PROVE TicketInv'
  <2>1. TicketTypeOK'
    BY <1>3, <1>t, DiedTyped DEF AdapterDies, TicketTypeOK
  <2>0. /\ attempt' = Died({p})
        /\ \A a \in Attempts : /\ Died({p})[a].late = attempt[a].late
                               /\ Died({p})[a].pc \in {attempt[a].pc, "failed"}
    <3>1. attempt' = Died({p})
      BY <1>3 DEF AdapterDies
    <3> DEFINE ps == {p}
    <3>2. \A a \in Attempts : /\ Died(ps)[a].late = attempt[a].late
                              /\ Died(ps)[a].pc \in {attempt[a].pc, "failed"}
      <4>1. ps \in SUBSET Adapters
        OBVIOUS
      <4> HIDE DEF ps
      <4> QED BY <4>1, <1>t, DiedTyped
    <3> QED BY <3>1, <3>2
  <2>2. \A a \in Attempts : /\ attempt'[a].late => expired \/ attempt[a].late
                            /\ Writing(a)' => attempt'[a].pc = attempt[a].pc
    BY <2>0 DEF Writing
  <2> QED BY <1>3, <2>1, <2>2, QuietStep DEF AdapterDies
<1>4. CASE HostStops
  <2>1. TicketTypeOK'
    BY <1>4, <1>t, DiedTyped DEF HostStops, TicketTypeOK
  <2>0. /\ attempt' = Died(Adapters)
        /\ \A a \in Attempts : /\ Died(Adapters)[a].late = attempt[a].late
                               /\ Died(Adapters)[a].pc \notin {"created", "written"}
    <3>1. attempt' = Died(Adapters)
      BY <1>4 DEF HostStops
    <3>2. \A a \in Attempts : /\ Died(Adapters)[a].late = attempt[a].late
                              /\ AdapterOf[a] \in Adapters => Died(Adapters)[a].pc \notin {"created", "written"}
      BY <1>t, DiedTyped
    <3> QED BY <3>1, <3>2, TicketAssumption
  <2>2. \A a \in Attempts : attempt'[a].late = attempt[a].late /\ ~Writing(a)'
    BY <2>0 DEF Writing
  <2> QED BY <1>4, <2>1, <2>2 DEF HostStops, TicketInv, Writing
<1> QED BY <1>1, <1>2, <1>3, <1>4

LEMMA TicketInductive == TicketInv /\ [TicketNext]_ticketVars => TicketInv'
<1> SUFFICES ASSUME TicketInv, [TicketNext]_ticketVars PROVE TicketInv'
  OBVIOUS
<1>1. CASE UNCHANGED ticketVars
  BY <1>1 DEF ticketVars, TicketInv, TicketTypeOK, Writing
<1>2. CASE TicketNext
  BY <1>2, AttemptSafe, HostSafe DEF TicketNext
<1> QED BY <1>1, <1>2

\* Before the first call no attempt has begun.
LEMMA TicketStarts == TicketInit => TicketInv
<1> SUFFICES ASSUME TicketInit PROVE TicketInv
  OBVIOUS
<1>1. TicketTypeOK
  BY DEF TicketInit, TicketTypeOK, Steps
<1>2. \A a \in Attempts : attempt[a].pc = "off" /\ ~attempt[a].late
  BY DEF TicketInit
<1>3. timely = {}
  BY DEF TicketInit
<1> QED BY <1>1, <1>2, <1>3 DEF TicketInv, Writing

\* At most one attempt consumed in time, so they count one at most.
LEMMA TicketCounts == TicketInv => ConsumedOnceInItsTime
<1> SUFFICES ASSUME TicketInv PROVE Cardinality(timely) <= 1
  BY DEF ConsumedOnceInItsTime
<1>1. CASE timely = {}
  BY <1>1, FS_EmptySet
<1>2. CASE timely # {}
  <2>1. PICK a \in timely : timely = {a}
    BY <1>2 DEF TicketInv
  <2>2. Cardinality({a}) = 1
    BY FS_Singleton
  <2> QED BY <2>1, <2>2
<1> QED BY <1>1, <1>2

\* A ticket is consumed once in its time, for every number of adapter processes
\* and calls that race for it.
THEOREM TicketIsSpentOnce == TicketInit /\ [][TicketNext]_ticketVars => []ConsumedOnceInItsTime
BY TicketStarts, TicketInductive, TicketCounts, PTL

\* The record, the locks and the attempts of a ticket are of their types.
THEOREM TicketTypeCorrect == TicketInit /\ [][TicketNext]_ticketVars => []TicketTypeOK
<1>1. TicketInv => TicketTypeOK
  BY DEF TicketInv
<1> QED BY TicketStarts, TicketInductive, <1>1, PTL

-------------------------------------------------------------------------------
(* Retention *)

ArtifactRow == [status : {"none", "active", "deleting", "failed", "deleted"},
        claim : Claims \cup {NoClaim}, due : BOOLEAN, waited : BOOLEAN]
Pass == [number : 0 .. MaxPasses, stage : 0 .. Len(Stages) + 1,
         at : {"rest", "acquire", "read", "remove", "complete"},
         cut : BOOLEAN, todo : SUBSET (Artifacts \cup OtherClasses),
         on : Artifacts \cup {NoClaim}, gone : BOOLEAN]

\* A registration whose artifact may still be deleted is not counted yet.
Open(a) == rows[a].status \in {"active", "deleting", "failed"}

CountInv ==
  /\ RetentionTypeOK
  /\ \A w \in Replicas : passes[w].at # "rest" => passes[w].stage \in 1 .. Len(Stages) /\ passes[w].number \in 1 .. MaxPasses
  /\ \A a \in Artifacts : counted[a] + (IF Open(a) THEN 1 ELSE 0) <= registered[a]

LEMMA TypeRead ==
  RetentionTypeOK <=>
    /\ rows \in [Artifacts -> ArtifactRow]
    /\ stored \subseteq Artifacts /\ kept \subseteq OtherClasses
    /\ owners \in [Classes -> Claims \cup {NoClaim}]
    /\ passes \in [Replicas -> Pass]
    /\ registered \in [Artifacts -> 0 .. MaxRegistrations] /\ counted \in [Artifacts -> Nat]
BY DEF RetentionTypeOK, ArtifactRow, Pass

LEMMA StagesNamed ==
  /\ Len(Stages) = 5
  /\ \A n \in 1 .. Len(Stages) : Stages[n] \in Classes
<1>1. Len(Stages) = 5 /\ DOMAIN Stages = 1 .. 5
  BY DEF Stages
<1> QED BY <1>1 DEF Classes

\* The pass goes on, or rests, with its number.
LEMMA NextStageTyped ==
  ASSUME NEW p \in Pass, p.stage \in 1 .. Len(Stages), p.number \in 1 .. MaxPasses
  PROVE  /\ NextStage(p) \in Pass
         /\ NextStage(p).at # "rest" => NextStage(p).stage \in 1 .. Len(Stages)
         /\ NextStage(p).number = p.number
<1>1. p.stage < Len(Stages) => p.stage + 1 \in 1 .. Len(Stages)
  BY StagesNamed
<1>2. 0 \in 0 .. Len(Stages) + 1 /\ \A n \in 1 .. Len(Stages) : n \in 0 .. Len(Stages) + 1
  BY StagesNamed
<1> DEFINE stage == IF p.stage < Len(Stages) THEN p.stage + 1 ELSE 0
           at == IF p.stage < Len(Stages) THEN "acquire" ELSE "rest"
<1>4. stage \in 0 .. Len(Stages) + 1 /\ at \in {"rest", "acquire"} /\ (at # "rest" => stage \in 1 .. Len(Stages))
  BY <1>1, <1>2
<1>5. NextStage(p) = [p EXCEPT !.stage = stage, !.at = at, !.cut = FALSE, !.todo = {}, !.on = NoClaim,
                                !.gone = FALSE]
  BY DEF NextStage
<1> HIDE DEF stage, at
<1>6. NextStage(p) \in Pass
  BY <1>4, <1>5 DEF Pass
<1>7. NextStage(p).stage = stage /\ NextStage(p).at = at /\ NextStage(p).number = p.number
  BY <1>5 DEF Pass
<1> QED BY <1>4, <1>6, <1>7

\* A replica that moves to a sound pass keeps the invariant if no artifact changes.
LEMMA PassMoves ==
  ASSUME CountInv, NEW w \in Replicas, NEW p \in Pass, Moves(w, p),
         p.at # "rest" => p.stage \in 1 .. Len(Stages) /\ p.number \in 1 .. MaxPasses
  PROVE  /\ passes' \in [Replicas -> Pass]
         /\ \A v \in Replicas : passes'[v].at # "rest" =>
              passes'[v].stage \in 1 .. Len(Stages) /\ passes'[v].number \in 1 .. MaxPasses
BY TypeRead DEF CountInv, Moves

\* What a replica at work owns.
LEMMA OwnerTyped ==
  ASSUME CountInv, NEW w \in Replicas, passes[w].at # "rest"
  PROVE  /\ Owner(w) \in Claims
         /\ ClassOf(w) \in Classes
         /\ passes[w] \in Pass /\ passes[w].stage \in 1 .. Len(Stages) /\ passes[w].number \in 1 .. MaxPasses
BY TypeRead, StagesNamed DEF CountInv, Owner, Claims, ClassOf

\* The steps of a replica keep the invariant.
LEMMA ReplicaSafe ==
  ASSUME CountInv, NEW w \in Replicas, ReplicaStep(w)
  PROVE  CountInv'
<1>t. /\ passes[w] \in Pass /\ rows \in [Artifacts -> ArtifactRow]
      /\ stored \subseteq Artifacts /\ kept \subseteq OtherClasses
      /\ owners \in [Classes -> Claims \cup {NoClaim}]
      /\ registered \in [Artifacts -> 0 .. MaxRegistrations] /\ counted \in [Artifacts -> Nat]
  BY TypeRead DEF CountInv
<1>q. ASSUME NEW p \in Pass, Moves(w, p), UNCHANGED <<rows, registered, counted>>,
             p.at # "rest" => p.stage \in 1 .. Len(Stages) /\ p.number \in 1 .. MaxPasses,
             stored' \subseteq Artifacts, kept' \subseteq OtherClasses,
             owners' \in [Classes -> Claims \cup {NoClaim}]
      PROVE  CountInv'
  <2>1. RetentionTypeOK'
    BY <1>q, <1>t, PassMoves, TypeRead DEF RetentionTypeOK, ArtifactRow, Pass
  <2> QED BY <1>q, <2>1, PassMoves DEF CountInv, Open
<1>n. passes[w].at # "rest" =>
        /\ NextStage(passes[w]) \in Pass
        /\ NextStage(passes[w]).at # "rest" =>
             NextStage(passes[w]).stage \in 1 .. Len(Stages) /\ NextStage(passes[w]).number \in 1 .. MaxPasses
  BY OwnerTyped, NextStageTyped
<1>1. CASE RunOnce(w)
  <2> DEFINE n == passes[w].number + 1
             p == [passes[w] EXCEPT !.number = n, !.stage = 1, !.at = "acquire"]
  <2>1. n \in 1 .. MaxPasses /\ n \in 0 .. MaxPasses /\ 1 \in 1 .. Len(Stages) /\ 1 \in 0 .. Len(Stages) + 1
    BY <1>1, <1>t, RetentionAssumption, StagesNamed DEF RunOnce, Pass
  <2> HIDE DEF n
  <2>2. p \in Pass /\ p.stage = 1 /\ p.number = n
    BY <2>1, <1>t DEF Pass
  <2>3. Moves(w, p)
    BY <1>1 DEF RunOnce, Moves, n
  <2> HIDE DEF p
  <2> QED BY <1>1, <1>t, <1>q, <2>1, <2>2, <2>3 DEF RunOnce
<1>2. CASE AcquireLease(w)
  <2> DEFINE p == [passes[w] EXCEPT !.at = "read"]
  <2>1. p \in Pass /\ p.stage = passes[w].stage /\ p.number = passes[w].number
    BY <1>t DEF Pass
  <2>2. Moves(w, p) /\ owners' \in [Classes -> Claims \cup {NoClaim}]
    BY <1>2, <1>t, OwnerTyped DEF AcquireLease
  <2>3. passes[w].stage \in 1 .. Len(Stages) /\ passes[w].number \in 1 .. MaxPasses
    BY <1>2, OwnerTyped DEF AcquireLease
  <2> HIDE DEF p
  <2> QED BY <1>2, <1>t, <1>q, <2>1, <2>2, <2>3 DEF AcquireLease
<1>3. CASE NoLease(w)
  BY <1>3, <1>t, <1>q, <1>n DEF NoLease
<1>4. CASE RenewalFails(w)
  <2> DEFINE p == [passes[w] EXCEPT !.cut = TRUE]
  <2>1. p \in Pass /\ p.stage = passes[w].stage /\ p.number = passes[w].number
    BY <1>t DEF Pass
  <2>2. Moves(w, p) /\ passes[w].stage \in 1 .. Len(Stages) /\ passes[w].number \in 1 .. MaxPasses
    BY <1>4, OwnerTyped DEF RenewalFails
  <2> HIDE DEF p
  <2> QED BY <1>4, <1>t, <1>q, <2>1, <2>2 DEF RenewalFails
<1>5. CASE ReplicaStops(w)
  <2> DEFINE p == [passes[w] EXCEPT !.stage = 0, !.at = "rest", !.cut = FALSE, !.todo = {}, !.on = NoClaim,
                                    !.gone = FALSE]
  <2>0. 0 \in 0 .. Len(Stages) + 1
    BY StagesNamed
  <2>1. p \in Pass /\ p.at = "rest"
    BY <2>0, <1>t DEF Pass
  <2>2. Moves(w, p)
    BY <1>5 DEF ReplicaStops
  <2> HIDE DEF p
  <2> QED BY <1>5, <1>t, <1>q, <2>1, <2>2 DEF ReplicaStops
<1>6. CASE ClaimExpiredProviderRawArtifacts(w)
  <2> DEFINE claimed == {a \in Artifacts : Claimable(rows[a])}
             p == [passes[w] EXCEPT !.at = "remove", !.todo = claimed]
  <2>1. p \in Pass /\ p.stage = passes[w].stage /\ p.number = passes[w].number
    BY <1>t DEF Pass
  <2>2. /\ Moves(w, p) /\ Owner(w) \in Claims
        /\ passes[w].stage \in 1 .. Len(Stages) /\ passes[w].number \in 1 .. MaxPasses
    BY <1>6, OwnerTyped DEF ClaimExpiredProviderRawArtifacts
  <2>3. rows' = [a \in Artifacts |->
                  IF a \in claimed
                  THEN [rows[a] EXCEPT !.status = "deleting", !.claim = Owner(w), !.waited = FALSE]
                  ELSE rows[a]]
    BY <1>6 DEF ClaimExpiredProviderRawArtifacts
  <2>4. \A a \in Artifacts : rows'[a] \in ArtifactRow /\ (Open(a)' <=> Open(a))
    <3> SUFFICES ASSUME NEW a \in Artifacts PROVE rows'[a] \in ArtifactRow /\ (Open(a)' <=> Open(a))
      OBVIOUS
    <3>1. rows[a] \in ArtifactRow
      BY <1>t
    <3>2. CASE a \in claimed
      <4>1. rows'[a] = [rows[a] EXCEPT !.status = "deleting", !.claim = Owner(w), !.waited = FALSE]
        BY <2>3, <3>2
      <4>2. rows'[a] \in ArtifactRow /\ rows'[a].status = "deleting"
        BY <4>1, <3>1, <2>2 DEF ArtifactRow
      <4>3. Open(a)
        BY <3>2 DEF Claimable, Open
      <4> QED BY <4>2, <4>3 DEF Open
    <3>3. CASE a \notin claimed
      BY <2>3, <3>1, <3>3 DEF Open
    <3> QED BY <3>2, <3>3
  <2>5. rows' \in [Artifacts -> ArtifactRow] /\ UNCHANGED <<stored, kept, owners, registered, counted>>
    BY <1>6, <2>3, <2>4 DEF ClaimExpiredProviderRawArtifacts
  <2> HIDE DEF p
  <2>6. /\ passes' \in [Replicas -> Pass]
        /\ \A v \in Replicas : passes'[v].at # "rest" =>
             passes'[v].stage \in 1 .. Len(Stages) /\ passes'[v].number \in 1 .. MaxPasses
    BY <2>1, <2>2, PassMoves
  <2>7. RetentionTypeOK'
    BY <1>t, <2>5, <2>6 DEF RetentionTypeOK, ArtifactRow, Pass
  <2> QED BY <2>4, <2>5, <2>6, <2>7 DEF CountInv
<1>7. ASSUME NEW a \in Artifacts, DeleteTransient(w, a) PROVE CountInv'
  <2>1. PICK gone \in BOOLEAN :
          /\ stored' = IF gone THEN stored \ {a} ELSE stored
          /\ Moves(w, [passes[w] EXCEPT !.at = "complete", !.todo = @ \ {a}, !.on = a, !.gone = gone])
    BY <1>7 DEF DeleteTransient
  <2> DEFINE p == [passes[w] EXCEPT !.at = "complete", !.todo = passes[w].todo \ {a}, !.on = a, !.gone = gone]
  <2>2. p \in Pass /\ p.stage = passes[w].stage /\ p.number = passes[w].number
    BY <1>t DEF Pass
  <2>3. Moves(w, p)
    BY <2>1
  <2>4. passes[w].stage \in 1 .. Len(Stages) /\ passes[w].number \in 1 .. MaxPasses
    BY <1>7, OwnerTyped DEF DeleteTransient
  <2> HIDE DEF p
  <2> QED BY <1>7, <1>t, <1>q, <2>1, <2>2, <2>3, <2>4 DEF DeleteTransient
<1>8. ASSUME NEW a \in Artifacts, CompleteProviderRawArtifact(w, a) PROVE CountInv'
  <2> DEFINE p == [passes[w] EXCEPT !.at = "remove", !.on = NoClaim, !.gone = FALSE]
  <2>1. p \in Pass /\ p.stage = passes[w].stage /\ p.number = passes[w].number
    BY <1>t DEF Pass
  <2>2. /\ Moves(w, p) /\ UNCHANGED <<stored, kept, owners, registered>>
        /\ passes[w].stage \in 1 .. Len(Stages) /\ passes[w].number \in 1 .. MaxPasses
    BY <1>8, OwnerTyped DEF CompleteProviderRawArtifact
  <2> HIDE DEF p
  <2>3. CASE ~passes[w].cut /\ RowIsClaimedBy(w, a)
    <3>1. /\ rows' = [rows EXCEPT ![a].status = IF passes[w].gone THEN "deleted" ELSE "failed",
                                  ![a].claim = NoClaim, ![a].waited = FALSE]
          /\ counted' = [counted EXCEPT ![a] = IF passes[w].gone THEN counted[a] + 1 ELSE counted[a]]
      BY <1>8, <2>3 DEF CompleteProviderRawArtifact
    <3>2. rows' \in [Artifacts -> ArtifactRow]
      <4> DEFINE status == IF passes[w].gone THEN "deleted" ELSE "failed"
      <4>1. status \in {"deleted", "failed"}
        OBVIOUS
      <4> DEFINE moved == [rows[a] EXCEPT !.status = status, !.claim = NoClaim, !.waited = FALSE]
      <4>2. rows' = [rows EXCEPT ![a] = moved]
        BY <3>1
      <4> HIDE DEF status
      <4>3. moved \in ArtifactRow
        BY <4>1, <1>t DEF ArtifactRow
      <4> HIDE DEF moved
      <4> QED BY <4>2, <4>3, <1>t
    <3>3. counted' \in [Artifacts -> Nat]
      BY <3>1, <1>t
    <3>4. Open(a) /\ (Open(a)' <=> ~passes[w].gone) /\ passes[w].gone \in BOOLEAN
      BY <2>3, <3>1, <1>t DEF RowIsClaimedBy, Open, ArtifactRow, Pass
    <3>5. \A b \in Artifacts : counted'[b] + (IF Open(b)' THEN 1 ELSE 0) <= registered'[b]
      <4> SUFFICES ASSUME NEW b \in Artifacts
                   PROVE  counted'[b] + (IF Open(b)' THEN 1 ELSE 0) <= registered'[b]
        OBVIOUS
      <4>1. counted[b] + (IF Open(b) THEN 1 ELSE 0) <= registered[b] /\ counted[b] \in Nat /\ registered[b] \in Nat
        BY <1>t DEF CountInv
      <4>2. CASE b = a
        <5>1. counted'[b] = IF passes[w].gone THEN counted[b] + 1 ELSE counted[b]
          BY <3>1, <4>2, <1>t
        <5> QED BY <3>4, <4>1, <4>2, <5>1, <2>2
      <4>3. CASE b # a
        <5>1. counted'[b] = counted[b] /\ rows'[b] = rows[b]
          BY <3>1, <4>3, <1>t
        <5> QED BY <4>1, <5>1, <2>2 DEF Open
      <4> QED BY <4>2, <4>3
    <3>6. /\ passes' \in [Replicas -> Pass]
          /\ \A v \in Replicas : passes'[v].at # "rest" =>
               passes'[v].stage \in 1 .. Len(Stages) /\ passes'[v].number \in 1 .. MaxPasses
      BY <2>1, <2>2, PassMoves
    <3>7. RetentionTypeOK'
      BY <1>t, <2>2, <3>2, <3>3, <3>6 DEF RetentionTypeOK, ArtifactRow, Pass
    <3> QED BY <3>5, <3>6, <3>7 DEF CountInv
  <2>4. CASE ~(~passes[w].cut /\ RowIsClaimedBy(w, a))
    <3>1. UNCHANGED <<rows, counted>>
      BY <1>8, <2>4 DEF CompleteProviderRawArtifact
    <3> QED BY <1>t, <1>q, <2>1, <2>2, <3>1
  <2> QED BY <2>3, <2>4
<1>9. CASE ListExpired(w)
  <2> DEFINE p == [passes[w] EXCEPT !.at = "remove", !.todo = {ClassOf(w)}]
  <2>1. p \in Pass /\ p.stage = passes[w].stage /\ p.number = passes[w].number
    BY <1>9, <1>t DEF Pass, ListExpired
  <2>2. Moves(w, p) /\ passes[w].stage \in 1 .. Len(Stages) /\ passes[w].number \in 1 .. MaxPasses
    BY <1>9, OwnerTyped DEF ListExpired
  <2> HIDE DEF p
  <2> QED BY <1>9, <1>t, <1>q, <2>1, <2>2 DEF ListExpired
<1>10. CASE RemoveCandidates(w)
  <2> DEFINE p == [passes[w] EXCEPT !.todo = {}]
  <2>1. p \in Pass /\ p.stage = passes[w].stage /\ p.number = passes[w].number
    BY <1>t DEF Pass
  <2>2. /\ Moves(w, p) /\ kept' \subseteq OtherClasses
        /\ passes[w].stage \in 1 .. Len(Stages) /\ passes[w].number \in 1 .. MaxPasses
    BY <1>10, <1>t, OwnerTyped DEF RemoveCandidates
  <2> HIDE DEF p
  <2> QED BY <1>10, <1>t, <1>q, <2>1, <2>2 DEF RemoveCandidates
<1>11. CASE RemoveInOneStatement(w)
  <2> DEFINE p == [passes[w] EXCEPT !.at = "remove"]
  <2>1. p \in Pass /\ p.stage = passes[w].stage /\ p.number = passes[w].number
    BY <1>t DEF Pass
  <2>2. /\ Moves(w, p) /\ kept' \subseteq OtherClasses
        /\ passes[w].stage \in 1 .. Len(Stages) /\ passes[w].number \in 1 .. MaxPasses
    BY <1>11, <1>t, OwnerTyped DEF RemoveInOneStatement
  <2> HIDE DEF p
  <2> QED BY <1>11, <1>t, <1>q, <2>1, <2>2 DEF RemoveInOneStatement
<1>12. CASE StageEnds(w)
  <2>1. owners' \in [Classes -> Claims \cup {NoClaim}] /\ Moves(w, NextStage(passes[w])) /\ passes[w].at # "rest"
    BY <1>12, <1>t DEF StageEnds, EndStage
  <2> QED BY <1>12, <1>t, <1>q, <1>n, <2>1 DEF StageEnds
<1> QED BY <1>1, <1>2, <1>3, <1>4, <1>5, <1>6, <1>7, <1>8, <1>9, <1>10, <1>11, <1>12 DEF ReplicaStep

\* Registrations, time and leases that lapse keep the invariant.
LEMMA RegistrySafe ==
  ASSUME CountInv,
         \/ \E a \in Artifacts : RegisterProviderRawArtifact(a) \/ ArtifactExpires(a) \/ FiveMinutesPass(a)
         \/ \E class \in Classes : LeaseLapsesOf(class)
  PROVE  CountInv'
<1>t. /\ passes \in [Replicas -> Pass] /\ rows \in [Artifacts -> ArtifactRow]
      /\ stored \subseteq Artifacts /\ kept \subseteq OtherClasses
      /\ owners \in [Classes -> Claims \cup {NoClaim}]
      /\ registered \in [Artifacts -> 0 .. MaxRegistrations] /\ counted \in [Artifacts -> Nat]
  BY TypeRead DEF CountInv
<1>1. ASSUME NEW a \in Artifacts, RegisterProviderRawArtifact(a) PROVE CountInv'
  <2>1. /\ registered' = [registered EXCEPT ![a] = registered[a] + 1] /\ registered[a] < MaxRegistrations
        /\ stored' = stored \cup {a}
        /\ rows' = [rows EXCEPT ![a].due = FALSE,
                                ![a].status = IF rows[a].status \in {"none", "deleted"} THEN "active" ELSE rows[a].status]
        /\ UNCHANGED <<kept, owners, passes, counted>>
    BY <1>1 DEF RegisterProviderRawArtifact
  <2>2. rows' \in [Artifacts -> ArtifactRow] /\ (\A b \in Artifacts : b # a => rows'[b] = rows[b])
    <3> DEFINE used == [rows[a] EXCEPT !.due = FALSE,
                         !.status = IF rows[a].status \in {"none", "deleted"} THEN "active" ELSE rows[a].status]
    <3>1. rows' = [rows EXCEPT ![a] = used]
      BY <2>1
    <3>2. used \in ArtifactRow
      BY <1>t DEF ArtifactRow
    <3> HIDE DEF used
    <3> QED BY <3>1, <3>2, <1>t
  <2>3. /\ registered' \in [Artifacts -> 0 .. MaxRegistrations] /\ registered'[a] = registered[a] + 1
        /\ \A b \in Artifacts : b # a => registered'[b] = registered[b]
    BY <2>1, <1>t, RetentionAssumption
  <2>4. \A b \in Artifacts : counted'[b] + (IF Open(b)' THEN 1 ELSE 0) <= registered'[b]
    <3> SUFFICES ASSUME NEW b \in Artifacts
                 PROVE  counted'[b] + (IF Open(b)' THEN 1 ELSE 0) <= registered'[b]
      OBVIOUS
    <3>1. counted[b] + (IF Open(b) THEN 1 ELSE 0) <= registered[b] /\ counted[b] \in Nat /\ registered[b] \in Nat
      BY <1>t DEF CountInv
    <3>2. CASE b = a
      BY <3>1, <3>2, <2>1, <2>3
    <3>3. CASE b # a
      BY <3>1, <3>3, <2>1, <2>2, <2>3 DEF Open
    <3> QED BY <3>2, <3>3
  <2>5. RetentionTypeOK'
    BY <1>t, <2>1, <2>2, <2>3 DEF RetentionTypeOK, ArtifactRow, Pass
  <2> QED BY <2>1, <2>4, <2>5 DEF CountInv
<1>2. ASSUME NEW a \in Artifacts, ArtifactExpires(a) \/ FiveMinutesPass(a) PROVE CountInv'
  <2>1. /\ rows' = [rows EXCEPT ![a].due = TRUE] \/ rows' = [rows EXCEPT ![a].waited = TRUE]
        /\ UNCHANGED <<stored, kept, owners, passes, registered, counted>>
    BY <1>2 DEF ArtifactExpires, FiveMinutesPass
  <2>2. rows' \in [Artifacts -> ArtifactRow] /\ \A b \in Artifacts : rows'[b].status = rows[b].status
    <3>1. CASE rows' = [rows EXCEPT ![a].due = TRUE]
      BY <3>1, <1>t DEF ArtifactRow
    <3>2. CASE rows' = [rows EXCEPT ![a].waited = TRUE]
      BY <3>2, <1>t DEF ArtifactRow
    <3> QED BY <2>1, <3>1, <3>2
  <2>3. RetentionTypeOK'
    BY <1>t, <2>1, <2>2 DEF RetentionTypeOK, ArtifactRow, Pass
  <2> QED BY <2>1, <2>2, <2>3 DEF CountInv, Open
<1>3. ASSUME NEW class \in Classes, LeaseLapsesOf(class) PROVE CountInv'
  <2>1. /\ owners' \in [Classes -> Claims \cup {NoClaim}]
        /\ UNCHANGED <<rows, stored, kept, passes, registered, counted>>
    BY <1>3, <1>t DEF LeaseLapsesOf
  <2>2. RetentionTypeOK'
    BY <1>t, <2>1 DEF RetentionTypeOK, ArtifactRow, Pass
  <2> QED BY <2>1, <2>2 DEF CountInv, Open
<1> QED BY <1>1, <1>2, <1>3

\* A registration is counted as deleted once, however many replicas clean beside
\* each other and lose their leases.
THEOREM RegistrationIsDeletedOnce == RetentionSpec => [](RetentionTypeOK /\ DeletionIsCountedOnce)
<1>1. RetentionInit => CountInv
  <2> SUFFICES ASSUME RetentionInit PROVE CountInv
    OBVIOUS
  <2>1. RetentionTypeOK
    BY StagesNamed, RetentionAssumption DEF RetentionInit, RetentionTypeOK
  <2>2. \A a \in Artifacts : ~Open(a) /\ counted[a] = 0 /\ registered[a] = 0
    BY DEF RetentionInit, Open
  <2>3. \A w \in Replicas : passes[w].at = "rest"
    BY DEF RetentionInit
  <2> QED BY <2>1, <2>2, <2>3 DEF CountInv
<1>2. CountInv /\ [RetentionNext]_retentionVars => CountInv'
  <2> SUFFICES ASSUME CountInv, [RetentionNext]_retentionVars PROVE CountInv'
    OBVIOUS
  <2>1. CASE UNCHANGED retentionVars
    BY <2>1 DEF retentionVars, CountInv, RetentionTypeOK, Open
  <2>2. CASE RetentionNext
    BY <2>2, ReplicaSafe, RegistrySafe DEF RetentionNext
  <2> QED BY <2>1, <2>2
<1>3. CountInv => RetentionTypeOK /\ DeletionIsCountedOnce
  <2> SUFFICES ASSUME CountInv, NEW a \in Artifacts PROVE counted[a] <= registered[a]
    BY DEF CountInv, DeletionIsCountedOnce
  <2>1. counted[a] + (IF Open(a) THEN 1 ELSE 0) <= registered[a] /\ counted[a] \in Nat /\ registered[a] \in Nat
    BY TypeRead DEF CountInv
  <2> QED BY <2>1
<1> QED BY <1>1, <1>2, <1>3, PTL DEF RetentionSpec

-------------------------------------------------------------------------------
(* Host recovery *)

HostRow == [instance : Nat, generation : Nat, revision : Nat,
            status : {"absent", "registering", "ready", "unhealthy", "offline", "draining"},
            recovery : {"pending", "reconciled"}]
Attestation == [generation : Nat, revision : Nat, facts : SUBSET Jobs, state : {"prepared", "completed"}]
Taken == [generation : Nat, revision : Nat, recovery : {"pending", "reconciled"}, facts : SUBSET Jobs]
Loop == [instance : Nat,
         step : {"load", "register", "heartbeat", "snapshot", "compare", "begin", "stage", "complete",
                 "open", "closed"},
         registered : BOOLEAN, recovered : BOOLEAN, pending : BOOLEAN, blocked : BOOLEAN, snapshot : Taken]
Call == [at : {"idle", "held", "written"}, acquired : BOOLEAN, replayed : BOOLEAN]

AttestedNow(a) ==
  a.state = "completed" /\ a.generation = hostRow.generation /\ a.revision = hostRow.revision

\* A Host is reconciled by an attestation of its present registration.
BackendInv ==
  /\ hostRow \in HostRow /\ attestations \subseteq Attestation
  /\ slots \in [Jobs -> [state : {"none", "reserved", "ended"}, instance : Nat, generation : Nat]]
  /\ hostRow.status = "ready" => hostRow.recovery = "reconciled"
  /\ hostRow.recovery = "reconciled" => \E a \in attestations : AttestedNow(a)

Attesting == {"begin", "stage", "complete", "open"}

\* From the snapshot to the opening, admission is closed; from the comparison on
\* the snapshot is empty, and so is the set of permits once it was staged.
LoopInv ==
  /\ adapter \in Loop
  /\ adapter.step \in {"compare"} \cup Attesting => adapter.pending
  /\ adapter.step \in Attesting => adapter.snapshot.facts = {}
  /\ adapter.step \in {"complete", "open"} => permits = {}

Over(r) == execution[r] \in {"ended", "orphaned"}

\* What is on its way to the Gateway has a permit, or is known to be unanswered,
\* or is over; a first try that took the permit itself may give it back.
CallInv ==
  /\ permits \subseteq Jobs /\ frames \subseteq Jobs /\ replies \subseteq Jobs /\ unanswered \subseteq Jobs
  /\ call \in [Jobs -> Call] /\ execution \in [Jobs -> {"none", "active", "ended", "orphaned"}]
  /\ \A r \in Jobs :
       /\ r \in frames \/ call[r].at # "idle" => r \in permits \cup unanswered \/ Over(r)
       /\ call[r].at = "held" /\ ~call[r].replayed /\ call[r].acquired =>
            /\ execution[r] = "active" => r \in unanswered
            /\ r \in frames => r \in unanswered \/ Over(r)

\* Once the Gateway was compared, what it executes is counted.
KnownInv ==
  ~adapter.pending \/ adapter.step \in Attesting =>
    \A r \in Jobs : execution[r] = "active" => r \in permits \cup unanswered

RecoveryInv == BackendInv /\ LoopInv /\ CallInv /\ KnownInv

\* The invariant holds before the Host was ever registered.
LEMMA RecoveryStarts == HostInit => RecoveryInv
BY DEF HostInit, RecoveryInv, BackendInv, LoopInv, CallInv, KnownInv, HostRow, Loop, Taken, Call, Fresh,
       NoSnapshot, NoCall, NoSlot, Attesting, Over

\* A step of the adapter's loop that leaves the snapshot as it is.
LEMMA LoopMoves ==
  ASSUME adapter \in Loop,
         NEW to \in {"load", "register", "heartbeat", "snapshot", "compare", "begin", "stage", "complete",
                       "open", "closed"}, Goto(to)
  PROVE  /\ adapter' \in Loop /\ adapter'.step = to /\ adapter'.pending = adapter.pending
         /\ adapter'.snapshot = adapter.snapshot
BY DEF Goto, Loop

\* The Backend's snapshot of a Host.
LEMMA SnapshotTyped == BackendInv => Snapshot \in Taken
BY DEF BackendInv, Snapshot, Taken, HostRow, Reserved

\* An attestation completed for the present registration stays, or one takes its place.
LEMMA BackendKept ==
  ASSUME BackendInv, UNCHANGED backendVars
  PROVE  BackendInv'
BY DEF BackendInv, backendVars, AttestedNow

LEMMA CallsKept ==
  ASSUME CallInv, UNCHANGED submitVars
  PROVE  CallInv'
BY DEF CallInv, submitVars, Over

\* The loop registers, reports and recovers without losing a Run.
LEMMA LoopSafe == RecoveryInv /\ (LoopStep \/ LoopFault) => RecoveryInv'
<1> SUFFICES ASSUME RecoveryInv, LoopStep \/ LoopFault PROVE RecoveryInv'
  OBVIOUS
<1>b. BackendInv /\ LoopInv /\ CallInv /\ KnownInv /\ adapter \in Loop
  BY DEF RecoveryInv, LoopInv
<1> USE DEF Attesting
<1>1. ASSUME NEW changed \in BOOLEAN, LoadCapabilities(changed) PROVE RecoveryInv'
  <2>1. UNCHANGED <<backendVars, submitVars>> /\ adapter.step = "load"
    BY <1>1 DEF LoadCapabilities
  <2>2. /\ adapter' \in Loop /\ adapter'.step \in {"register", "heartbeat"}
        /\ adapter'.pending = adapter.pending \/ adapter'.pending
    BY <1>1, <1>b DEF LoadCapabilities, Loop
  <2>3. LoopInv' /\ KnownInv'
    BY <1>b, <2>1, <2>2 DEF LoopInv, KnownInv, submitVars
  <2> QED BY <1>b, <2>1, <2>3, BackendKept, CallsKept DEF RecoveryInv
<1>2. ASSUME NEW answered \in BOOLEAN, Register(answered) PROVE RecoveryInv'
  <2>1. /\ hostRow' = RegisteredRow /\ UNCHANGED <<attestations, slots, dispatched, submitVars>>
        /\ adapter.step = "register"
    BY <1>2 DEF Register
  <2>2. /\ adapter' \in Loop /\ adapter'.step \in {"heartbeat", "load"}
        /\ adapter'.pending = adapter.pending
    BY <1>2, <1>b DEF Register, Loop
  <2>3. BackendInv'
    BY <1>b, <2>1 DEF BackendInv, RegisteredRow, HostRow, Loop
  <2>4. LoopInv' /\ KnownInv'
    BY <1>b, <2>1, <2>2 DEF LoopInv, KnownInv, submitVars
  <2> QED BY <1>b, <2>1, <2>3, <2>4, CallsKept DEF RecoveryInv
<1>3. ASSUME NEW answered \in BOOLEAN, HeartbeatHost(answered) PROVE RecoveryInv'
  <2>1. /\ hostRow' = AfterHeartbeat /\ UNCHANGED <<attestations, slots, dispatched, submitVars>>
        /\ adapter.step = "heartbeat" /\ (Goto("snapshot") \/ Goto("load"))
    BY <1>3 DEF HeartbeatHost
  <2>2. /\ adapter' \in Loop /\ adapter'.step \in {"snapshot", "load"}
        /\ adapter'.pending = adapter.pending
    BY <1>b, <2>1, LoopMoves
  <2>3. BackendInv'
    <3>1. /\ hostRow' \in HostRow /\ hostRow'.recovery = hostRow.recovery
          /\ hostRow'.generation = hostRow.generation /\ hostRow'.revision = hostRow.revision
          /\ hostRow'.status = "ready" => hostRow'.recovery = "reconciled"
      BY <1>b, <2>1 DEF BackendInv, AfterHeartbeat, HostRow
    <3> QED BY <1>b, <2>1, <3>1 DEF BackendInv, AttestedNow
  <2>4. LoopInv' /\ KnownInv'
    BY <1>b, <2>1, <2>2 DEF LoopInv, KnownInv, submitVars
  <2> QED BY <1>b, <2>1, <2>3, <2>4, CallsKept DEF RecoveryInv
<1>4. ASSUME TakeSnapshot PROVE RecoveryInv'
  <2>1. UNCHANGED <<backendVars, submitVars>>
    BY <1>4 DEF TakeSnapshot
  <2>2. adapter' \in Loop /\ adapter'.step \in {"compare", "load"} /\ adapter'.pending
    BY <1>4, <1>b, SnapshotTyped DEF TakeSnapshot, Loop
  <2>3. LoopInv' /\ KnownInv'
    BY <1>b, <2>2 DEF LoopInv, KnownInv
  <2> QED BY <1>b, <2>1, <2>3, BackendKept, CallsKept DEF RecoveryInv
<1>5. ASSUME CompareWithGateway PROVE RecoveryInv'
  <2>1. UNCHANGED <<backendVars, submitVars>> /\ adapter.step = "compare"
    BY <1>5 DEF CompareWithGateway
  <2>2. CASE GatewayIsEmpty /\ adapter.snapshot.facts = {} /\ Goto("begin")
    <3>1. adapter' \in Loop /\ adapter'.pending /\ adapter'.snapshot.facts = {} /\ adapter'.step = "begin"
      BY <1>b, <2>1, <2>2, LoopMoves DEF LoopInv
    <3>2. LoopInv' /\ KnownInv'
      BY <2>1, <2>2, <3>1 DEF LoopInv, KnownInv, GatewayIsEmpty, submitVars
    <3> QED BY <1>b, <2>1, <3>2, BackendKept, CallsKept DEF RecoveryInv
  <2>3. CASE Goto("load")
    <3>1. adapter' \in Loop /\ adapter'.pending /\ adapter'.step = "load"
      BY <1>b, <2>1, <2>3, LoopMoves DEF LoopInv
    <3>2. LoopInv' /\ KnownInv'
      BY <3>1 DEF LoopInv, KnownInv
    <3> QED BY <1>b, <2>1, <3>2, BackendKept, CallsKept DEF RecoveryInv
  <2> QED BY <1>5, <2>2, <2>3 DEF CompareWithGateway
<1>6. ASSUME NEW answered \in BOOLEAN, Begin(answered) PROVE RecoveryInv'
  <2>1. /\ attestations' = attestations \/ attestations' = attestations \cup {Prepared}
        /\ UNCHANGED <<hostRow, slots, dispatched, submitVars>>
        /\ adapter.step = "begin" /\ (Goto("stage") \/ Goto("load"))
    BY <1>6 DEF Begin
  <2>2. Prepared \in Attestation
    BY <1>b DEF Prepared, Attestation, Loop, Taken
  <2>3. BackendInv'
    BY <1>b, <2>1, <2>2 DEF BackendInv, AttestedNow
  <2>4. /\ adapter' \in Loop /\ adapter'.pending = adapter.pending /\ adapter'.snapshot = adapter.snapshot
        /\ adapter'.step \in {"stage", "load"}
    BY <1>b, <2>1, LoopMoves
  <2>5. LoopInv' /\ KnownInv'
    BY <1>b, <2>1, <2>4 DEF LoopInv, KnownInv, submitVars
  <2> QED BY <1>b, <2>1, <2>3, <2>5, CallsKept DEF RecoveryInv
<1>7. ASSUME StageRecoveryPermits PROVE RecoveryInv'
  <2>1. /\ UNCHANGED <<backendVars, call, frames, replies, execution, unanswered>> /\ adapter.step = "stage"
        /\ \/ permits = {} /\ permits' = adapter.snapshot.facts /\ Goto("complete")
           \/ permits' = permits /\ Goto("load")
    BY <1>7 DEF StageRecoveryPermits
  <2>2. /\ permits' = permits /\ (Goto("complete") => permits' = {}) /\ UNCHANGED submitVars
    <3>1. adapter.snapshot.facts = {}
      BY <1>b, <2>1 DEF LoopInv
    <3>2. permits' = permits
      BY <2>1, <3>1
    <3>3. Goto("complete") => permits' = {}
      BY <1>b, <2>1, <3>1, LoopMoves
    <3> QED BY <2>1, <3>2, <3>3 DEF submitVars
  <2>3. /\ adapter' \in Loop /\ adapter'.pending = adapter.pending /\ adapter'.snapshot = adapter.snapshot
        /\ adapter'.step = "load" \/ (adapter'.step = "complete" /\ permits' = {})
    BY <1>b, <2>1, <2>2, LoopMoves
  <2>4. LoopInv' /\ KnownInv'
    BY <1>b, <2>1, <2>2, <2>3 DEF LoopInv, KnownInv
  <2> QED BY <1>b, <2>1, <2>2, <2>4, BackendKept, CallsKept DEF RecoveryInv
<1>8. ASSUME NEW answered \in BOOLEAN, Complete(answered) PROVE RecoveryInv'
  <2> DEFINE mine == {a \in attestations : Asserted(a)}
             completed == {[a EXCEPT !.state = "completed"] : a \in mine}
             done == /\ mine # {} /\ Snapshot.generation = adapter.snapshot.generation
                     /\ Snapshot.revision = adapter.snapshot.revision
                     /\ hostRow' = [hostRow EXCEPT !.status = "ready", !.recovery = "reconciled"]
                     /\ attestations' = (attestations \ mine) \cup completed
  <2>1. /\ done \/ UNCHANGED <<hostRow, attestations>>
        /\ UNCHANGED <<slots, dispatched, call, frames, replies, execution, unanswered>>
        /\ adapter.step = "complete"
        /\ (Goto("open") /\ UNCHANGED permits) \/ (Goto("load") /\ permits' = {})
    BY <1>8 DEF Complete
  <2>2. BackendInv'
    <3>1. CASE done
      <4>1. PICK a \in mine : TRUE
        BY <3>1
      <4>2. /\ a \in Attestation /\ Asserted(a) /\ [a EXCEPT !.state = "completed"] \in attestations'
        BY <1>b, <3>1, <4>1 DEF BackendInv
      <4>3. /\ hostRow' \in HostRow /\ hostRow'.recovery = "reconciled"
            /\ hostRow'.generation = hostRow.generation /\ hostRow'.revision = hostRow.revision
        BY <1>b, <3>1 DEF BackendInv, HostRow
      <4>4. \E b \in attestations' : AttestedNow(b)'
        BY <3>1, <4>2, <4>3 DEF AttestedNow, Asserted, Snapshot, Attestation
      <4>5. completed \subseteq Attestation
        BY <1>b DEF BackendInv, Attestation
      <4> QED BY <1>b, <2>1, <3>1, <4>3, <4>4, <4>5 DEF BackendInv
    <3>2. CASE UNCHANGED <<hostRow, attestations>>
      BY <1>b, <2>1, <3>2 DEF BackendInv, AttestedNow
    <3> QED BY <2>1, <3>1, <3>2
  <2> HIDE DEF mine, completed, done
  <2>3. UNCHANGED submitVars /\ permits' = {}
    BY <1>b, <2>1 DEF submitVars, LoopInv
  <2>4. /\ adapter' \in Loop /\ adapter'.pending = adapter.pending /\ adapter'.snapshot = adapter.snapshot
        /\ adapter'.step \in {"open", "load"}
    BY <1>b, <2>1, LoopMoves
  <2>5. LoopInv' /\ KnownInv'
    BY <1>b, <2>1, <2>3, <2>4 DEF LoopInv, KnownInv, submitVars
  <2> QED BY <1>b, <2>2, <2>3, <2>5, CallsKept DEF RecoveryInv
<1>9. ASSUME MarkReadyAfterRecovery PROVE RecoveryInv'
  <2>1. UNCHANGED <<backendVars, submitVars>> /\ adapter.step = "open"
    BY <1>9 DEF MarkReadyAfterRecovery
  <2>2. adapter' \in Loop /\ adapter'.step = "load"
    BY <1>9, <1>b DEF MarkReadyAfterRecovery, Loop
  <2>3. LoopInv' /\ KnownInv'
    BY <1>b, <2>1, <2>2 DEF LoopInv, KnownInv, submitVars
  <2> QED BY <1>b, <2>1, <2>3, BackendKept, CallsKept DEF RecoveryInv
<1>10. ASSUME ReregistrationRequired \/ IdentityRejected PROVE RecoveryInv'
  <2>1. UNCHANGED <<backendVars, submitVars>> /\ adapter.step \in {"register", "heartbeat"}
    BY <1>10 DEF ReregistrationRequired, IdentityRejected
  <2>2. /\ adapter' \in Loop /\ adapter'.step \in {"load", "closed"}
        /\ adapter'.pending = adapter.pending \/ adapter'.pending
    BY <1>10, <1>b DEF ReregistrationRequired, IdentityRejected, Loop
  <2>3. LoopInv' /\ KnownInv'
    BY <1>b, <2>1, <2>2 DEF LoopInv, KnownInv, submitVars
  <2> QED BY <1>b, <2>1, <2>3, BackendKept, CallsKept DEF RecoveryInv
<1>11. ASSUME NEW i, AdapterRestarts(i) PROVE RecoveryInv'
  <2>1. /\ UNCHANGED <<backendVars, execution>> /\ adapter' = Fresh(i) /\ i \in Nat
        /\ permits' = {} /\ frames' = {} /\ replies' = {} /\ unanswered' = {}
        /\ call' = [r \in Jobs |-> NoCall]
    BY <1>11, <1>b DEF AdapterRestarts, Loop
  <2>2. LoopInv' /\ KnownInv'
    BY <2>1 DEF LoopInv, KnownInv, Fresh, Loop, NoSnapshot, Taken
  <2>3. CallInv'
    BY <1>b, <2>1 DEF CallInv, NoCall, Call
  <2> QED BY <1>b, <2>1, <2>2, <2>3, BackendKept DEF RecoveryInv
<1> QED BY <1>1, <1>2, <1>3, <1>4, <1>5, <1>6, <1>7, <1>8, <1>9, <1>10, <1>11 DEF LoopStep, LoopFault

\* Placements and the statuses of the Host leave its attestation alone.
LEMMA BackendSafe == RecoveryInv /\ BackendStep => RecoveryInv'
<1> SUFFICES ASSUME RecoveryInv, BackendStep PROVE RecoveryInv'
  OBVIOUS
<1>b. BackendInv /\ LoopInv /\ CallInv /\ KnownInv
  BY DEF RecoveryInv
<1>1. UNCHANGED <<attestations, submitVars, adapter>>
  BY DEF BackendStep, ReserveSlot, DispatchCreated, RunConverges, SlotExpires, SetHostStatus
<1>2. /\ slots' \in [Jobs -> [state : {"none", "reserved", "ended"}, instance : Nat, generation : Nat]]
      /\ hostRow' \in HostRow /\ (hostRow'.status = "ready" => hostRow.status = "ready")
      /\ UNCHANGED <<hostRow.recovery, hostRow.generation, hostRow.revision>>
  <2>1. ASSUME NEW r \in Jobs, ReserveSlot(r) \/ DispatchCreated(r) \/ RunConverges(r) \/ SlotExpires(r)
        PROVE  /\ slots' \in [Jobs -> [state : {"none", "reserved", "ended"}, instance : Nat, generation : Nat]]
               /\ hostRow' = hostRow
    BY <1>b, <2>1 DEF BackendInv, ReserveSlot, DispatchCreated, RunConverges, SlotExpires, HostRow
  <2>2. ASSUME NEW s \in {"unhealthy", "offline", "draining"}, SetHostStatus(s)
        PROVE  slots' = slots /\ hostRow' = [hostRow EXCEPT !.status = s]
    BY <2>2 DEF SetHostStatus
  <2> QED BY <1>b, <2>1, <2>2 DEF BackendStep, BackendInv, HostRow
<1>3. BackendInv'
  BY <1>b, <1>1, <1>2 DEF BackendInv, AttestedNow
<1>4. LoopInv' /\ KnownInv'
  BY <1>b, <1>1 DEF LoopInv, KnownInv, submitVars
<1> QED BY <1>b, <1>1, <1>3, <1>4, CallsKept DEF RecoveryInv

\* Calls that break or go on keep what the adapter counts in step with the Gateway.
LEMMA SubmitSafe == RecoveryInv /\ SubmitStep => RecoveryInv'
<1> SUFFICES ASSUME RecoveryInv, SubmitStep PROVE RecoveryInv'
  OBVIOUS
<1>b. BackendInv /\ LoopInv /\ CallInv /\ KnownInv
  BY DEF RecoveryInv
<1>u. UNCHANGED <<backendVars, adapter>>
  BY DEF SubmitStep, Acquire, MaterializationFails, WriteRequest, GatewayAccepts, SubmitAnswered,
         SubmitTimesOut, ExecutionEnds, StatusPolled, ConnectionLost, GatewayRestarts
<1>s. SUFFICES /\ CallInv' /\ KnownInv'
               /\ adapter.step \in {"complete", "open"} => permits' \subseteq permits
  <2>1. BackendInv'
    BY <1>b, <1>u, BackendKept
  <2>2. LoopInv'
    BY <1>b, <1>u, <1>s DEF LoopInv
  <2> QED BY <1>s, <2>1, <2>2 DEF RecoveryInv
<1>p. /\ \A r \in Jobs : r \in frames \/ call[r].at # "idle" => r \in permits \cup unanswered \/ Over(r)
      /\ call \in [Jobs -> Call] /\ execution \in [Jobs -> {"none", "active", "ended", "orphaned"}]
      /\ permits \subseteq Jobs /\ frames \subseteq Jobs /\ replies \subseteq Jobs /\ unanswered \subseteq Jobs
  BY <1>b DEF CallInv
<1>1. ASSUME NEW r \in Jobs, Acquire(r)
      PROVE  /\ CallInv' /\ KnownInv'
             /\ adapter.step \in {"complete", "open"} => permits' \subseteq permits
  <2>1. /\ ~adapter.pending /\ permits' = permits \cup {r} /\ call[r].at = "idle"
        /\ call' = [call EXCEPT ![r] = [at |-> "held", acquired |-> r \notin permits, replayed |-> FALSE]]
        /\ UNCHANGED <<frames, replies, execution, unanswered, adapter>>
    BY <1>1 DEF Acquire
  <2>2. adapter.step \notin {"complete", "open"}
    BY <1>b, <2>1 DEF LoopInv, Attesting
  <2>3. r \notin permits => /\ execution[r] = "active" => r \in unanswered
                            /\ r \in frames => r \in unanswered \/ Over(r)
    BY <1>b, <1>p, <2>1 DEF KnownInv
  <2>4. call' \in [Jobs -> Call]
    BY <1>p, <2>1 DEF Call
  <2>5. CallInv'
    BY <1>b, <1>p, <2>1, <2>3, <2>4 DEF CallInv, Over
  <2> QED BY <1>b, <2>1, <2>2, <2>5 DEF KnownInv
<1>2. ASSUME NEW r \in Jobs, MaterializationFails(r)
      PROVE  CallInv' /\ KnownInv' /\ permits' \subseteq permits
  <2>1. /\ call[r].at = "held" /\ ~call[r].replayed /\ permits' = ReleasedBy(r)
        /\ call' = [call EXCEPT ![r] = NoCall]
        /\ UNCHANGED <<frames, replies, execution, unanswered, adapter>>
    BY <1>2 DEF MaterializationFails, IdleCall
  <2>2. r \in permits' \/ (call[r].acquired /\ permits' = permits \ {r}) \/ permits' = permits
    BY <2>1 DEF ReleasedBy
  <2>3. \A q \in Jobs : q # r => (q \in permits' <=> q \in permits)
    BY <2>1 DEF ReleasedBy
  <2>4. call' \in [Jobs -> Call] /\ call'[r].at = "idle" /\ permits' \subseteq permits
    BY <1>p, <2>1 DEF Call, NoCall, ReleasedBy
  <2>5. permits' # permits => /\ execution[r] = "active" => r \in unanswered
                              /\ r \in frames => r \in unanswered \/ Over(r)
    BY <1>b, <2>1 DEF CallInv, ReleasedBy
  <2>6. CallInv'
    BY <1>b, <1>p, <2>1, <2>3, <2>4, <2>5 DEF CallInv, Over
  <2>7. KnownInv'
    BY <1>b, <2>1, <2>3, <2>5 DEF KnownInv
  <2> QED BY <2>4, <2>6, <2>7
<1>3. ASSUME NEW r \in Jobs, WriteRequest(r)
      PROVE  CallInv' /\ KnownInv' /\ permits' \subseteq permits
  <2>1. /\ call[r].at = "held" /\ call' = [call EXCEPT ![r].at = "written"] /\ frames' = frames \cup {r}
        /\ UNCHANGED <<permits, replies, execution, unanswered, adapter>>
    BY <1>3 DEF WriteRequest
  <2>2. call' \in [Jobs -> Call] /\ call'[r].at = "written"
    BY <1>p, <2>1 DEF Call
  <2> QED BY <1>b, <1>p, <2>1, <2>2 DEF CallInv, KnownInv, Over
<1>4. ASSUME NEW r \in Jobs, GatewayAccepts(r)
      PROVE  CallInv' /\ KnownInv' /\ permits' \subseteq permits
  <2>1. /\ r \in frames /\ frames' = frames \ {r} /\ replies' = replies \cup {r}
        /\ execution' = IF execution[r] = "none" THEN [execution EXCEPT ![r] = "active"] ELSE execution
        /\ UNCHANGED <<permits, call, unanswered, adapter>>
    BY <1>4 DEF GatewayAccepts
  <2>2. /\ execution' \in [Jobs -> {"none", "active", "ended", "orphaned"}]
        /\ \A q \in Jobs : execution'[q] # execution[q] => q = r /\ execution[r] = "none" /\ execution'[r] = "active"
    BY <1>p, <2>1
  <2>3. execution[r] = "none" => r \in permits \cup unanswered
    BY <1>p, <2>1 DEF Over
  <2>4. execution[r] = "none" /\ call[r].at = "held" /\ ~call[r].replayed /\ call[r].acquired => r \in unanswered
    BY <1>b, <2>1 DEF CallInv, Over
  <2>5. CallInv'
    BY <1>b, <1>p, <2>1, <2>2, <2>3, <2>4 DEF CallInv, Over
  <2> QED BY <1>b, <2>1, <2>2, <2>3, <2>5 DEF KnownInv
<1>5. ASSUME NEW r \in Jobs, SubmitAnswered(r)
      PROVE  CallInv' /\ KnownInv' /\ permits' \subseteq permits
  <2>1. /\ call' = [call EXCEPT ![r] = NoCall] /\ replies' = replies \ {r}
        /\ permits' = IF execution[r] = "orphaned" THEN permits \ {r} ELSE permits
        /\ UNCHANGED <<frames, execution, unanswered, adapter>>
    BY <1>5 DEF SubmitAnswered, IdleCall
  <2>2. call' \in [Jobs -> Call] /\ call'[r].at = "idle"
    BY <1>p, <2>1 DEF Call, NoCall
  <2> QED BY <1>b, <1>p, <2>1, <2>2 DEF CallInv, KnownInv, Over
<1>6. ASSUME NEW r \in Jobs, SubmitTimesOut(r)
      PROVE  CallInv' /\ KnownInv' /\ permits' \subseteq permits
  <2>1. /\ permits' = ReleasedBy(r) /\ call' = [call EXCEPT ![r] = NoCall]
        /\ unanswered' = unanswered \cup {r}
        /\ UNCHANGED <<frames, replies, execution, adapter>>
    BY <1>6 DEF SubmitTimesOut, IdleCall
  <2>2. call' \in [Jobs -> Call] /\ call'[r].at = "idle"
    BY <1>p, <2>1 DEF Call, NoCall
  <2>3. permits' \subseteq permits /\ permits \subseteq permits' \cup {r}
    BY <2>1 DEF ReleasedBy
  <2> QED BY <1>b, <1>p, <2>1, <2>2, <2>3 DEF CallInv, KnownInv, Over
<1>7. ASSUME NEW r \in Jobs, ExecutionEnds(r)
      PROVE  CallInv' /\ KnownInv' /\ permits' \subseteq permits
  <2>1. /\ execution' = [execution EXCEPT ![r] = "ended"]
        /\ UNCHANGED <<permits, call, frames, replies, unanswered, adapter>>
    BY <1>7 DEF ExecutionEnds
  <2> QED BY <1>b, <1>p, <2>1 DEF CallInv, KnownInv, Over
<1>8. ASSUME NEW r \in Jobs, StatusPolled(r)
      PROVE  CallInv' /\ KnownInv' /\ permits' \subseteq permits
  <2>1. /\ execution[r] = "ended" /\ permits' = permits \ {r}
        /\ UNCHANGED <<call, frames, replies, execution, unanswered, adapter>>
    BY <1>8 DEF StatusPolled
  <2> QED BY <1>b, <1>p, <2>1 DEF CallInv, KnownInv, Over
<1>9. ASSUME ConnectionLost \/ GatewayRestarts
      PROVE  CallInv' /\ KnownInv' /\ permits' \subseteq permits
  <2>1. /\ frames' = {} /\ replies' = {} /\ UNCHANGED adapter
        /\ permits' = {r \in permits : ~(Replayed(r) /\ call[r].acquired)}
        /\ unanswered' = unanswered \cup {r \in Jobs : Replayed(r)}
        /\ call' = [r \in Jobs |-> CASE Replayed(r) -> NoCall
                                     [] call[r].at = "written" /\ ~call[r].replayed ->
                                          [call[r] EXCEPT !.at = "held", !.replayed = TRUE]
                                     [] OTHER -> call[r]]
    BY <1>9 DEF ConnectionLost, GatewayRestarts, Disconnected
  <2>2. /\ execution' \in [Jobs -> {"none", "active", "ended", "orphaned"}]
        /\ \A r \in Jobs : execution'[r] = execution[r] \/ (execution[r] = "active" /\ execution'[r] = "orphaned")
    BY <1>9, <1>p DEF ConnectionLost, GatewayRestarts
  <2>3. \A r \in Jobs : /\ call'[r] \in Call
                        /\ call'[r] = NoCall \/ (call'[r].at = "held" /\ call'[r].replayed) \/ call'[r] = call[r]
                        /\ call'[r].at # "idle" => call[r].at # "idle"
    <3> SUFFICES ASSUME NEW r \in Jobs
                 PROVE  /\ call'[r] \in Call
                        /\ call'[r] = NoCall \/ (call'[r].at = "held" /\ call'[r].replayed) \/ call'[r] = call[r]
                        /\ call'[r].at # "idle" => call[r].at # "idle"
      OBVIOUS
    <3>1. call[r] \in Call
      BY <1>p
    <3>2. CASE Replayed(r)
      <4>1. call'[r] = NoCall
        BY <2>1, <3>2 DEF Replayed
      <4> QED BY <4>1 DEF NoCall, Call
    <3>3. CASE ~Replayed(r) /\ call[r].at = "written"
      <4>1. call'[r] = [call[r] EXCEPT !.at = "held", !.replayed = TRUE]
        BY <2>1, <3>3 DEF Replayed
      <4> QED BY <3>1, <3>3, <4>1 DEF Call
    <3>4. CASE ~Replayed(r) /\ call[r].at # "written"
      BY <2>1, <3>1, <3>4
    <3> QED BY <3>2, <3>3, <3>4
  <2>4. call' \in [Jobs -> Call]
    BY <2>1, <2>3
  <2>5. /\ permits' \subseteq permits /\ unanswered' \subseteq Jobs
        /\ \A r \in Jobs : r \in permits \cup unanswered => r \in permits' \cup unanswered'
        /\ \A r \in Jobs : r \in unanswered => r \in unanswered'
    BY <1>p, <2>1
  <2>6. CallInv'
    <3>1. ASSUME NEW r \in Jobs
          PROVE  /\ r \in frames' \/ call'[r].at # "idle" => r \in permits' \cup unanswered' \/ Over(r)'
                 /\ call'[r].at = "held" /\ ~call'[r].replayed /\ call'[r].acquired =>
                      /\ execution'[r] = "active" => r \in unanswered'
                      /\ r \in frames' => r \in unanswered' \/ Over(r)'
      <4>1. Over(r) => Over(r)'
        BY <2>2 DEF Over
      <4>2. r \in frames' \/ call'[r].at # "idle" => r \in permits' \cup unanswered' \/ Over(r)'
        BY <1>p, <2>1, <2>3, <2>5, <4>1
      <4>3. call'[r].at = "held" /\ ~call'[r].replayed => call'[r] = call[r]
        BY <2>3 DEF NoCall
      <4>4. execution'[r] = "active" => execution[r] = "active"
        BY <2>2
      <4> QED BY <1>b, <2>1, <2>5, <4>2, <4>3, <4>4 DEF CallInv
    <3> QED BY <1>p, <2>1, <2>2, <2>4, <2>5, <3>1 DEF CallInv
  <2>7. KnownInv'
    BY <1>b, <2>1, <2>2, <2>5 DEF KnownInv
  <2> QED BY <2>5, <2>6, <2>7
<1> QED BY <1>1, <1>2, <1>3, <1>4, <1>5, <1>6, <1>7, <1>8, <1>9 DEF SubmitStep

\* The invariant is inductive.
LEMMA RecoveryPreserved == RecoveryInv /\ [HostRecoveryNext]_hostRecoveryVars => RecoveryInv'
<1>1. RecoveryInv /\ UNCHANGED hostRecoveryVars => RecoveryInv'
  BY BackendKept, CallsKept DEF RecoveryInv, hostRecoveryVars, LoopInv, KnownInv, submitVars
<1> QED BY <1>1, LoopSafe, BackendSafe, SubmitSafe DEF HostRecoveryNext

\* For every number of Runs, permits and faults: a Host is ready only by an
\* attestation of its present registration, and an open one counts every Run
\* its Gateway executes whose submission did not end unanswered.
THEOREM AttestationIsKept ==
  HostInit /\ [][HostRecoveryNext]_hostRecoveryVars => []AttestationHolds
<1>1. RecoveryInv => AttestationHolds
  BY DEF RecoveryInv, BackendInv, KnownInv, AttestationHolds, ReadyHostIsAttested, OpenHostKnowsItsRuns,
         AttestedNow
<1> QED BY RecoveryStarts, RecoveryPreserved, <1>1, PTL

\* The Dispatches of the Host and the number of faults.
RestOfHost == dispatched \in [Jobs -> {"none", "active", "ended"}] /\ faults \in 0..MaxFaults

\* No step leaves their types.
LEMMA RestKept ==
  ASSUME RestOfHost, [HostRecoveryNext]_hostRecoveryVars
  PROVE  RestOfHost'
<1>1. faults' \in 0..MaxFaults
  <2>1. UNCHANGED faults \/ Fault
    <3>1. CASE LoopStep
      BY <3>1 DEF LoopStep, LoadCapabilities, Register, HeartbeatHost, TakeSnapshot, CompareWithGateway, Begin,
         StageRecoveryPermits, Complete, MarkReadyAfterRecovery, Answered
    <3>2. CASE LoopFault
      BY <3>2 DEF LoopFault, LoadCapabilities, Register, HeartbeatHost, Begin, Complete, ReregistrationRequired,
         IdentityRejected, AdapterRestarts, Answered
    <3>3. CASE BackendStep
      BY <3>3 DEF BackendStep, ReserveSlot, DispatchCreated, RunConverges, SlotExpires, SetHostStatus
    <3>4. CASE SubmitStep
      BY <3>4 DEF SubmitStep, Acquire, MaterializationFails, WriteRequest, GatewayAccepts, SubmitAnswered,
         SubmitTimesOut, ExecutionEnds, StatusPolled, ConnectionLost, GatewayRestarts
    <3> QED BY <3>1, <3>2, <3>3, <3>4 DEF HostRecoveryNext, hostRecoveryVars
  <2> QED BY <2>1, HostAssumption DEF Fault, RestOfHost
<1>2. \/ UNCHANGED dispatched
      \/ \E r \in Jobs, s \in {"active", "ended"} : dispatched' = [dispatched EXCEPT ![r] = s]
  <2>1. CASE LoopStep
    BY <2>1 DEF LoopStep, LoadCapabilities, Register, HeartbeatHost, TakeSnapshot, CompareWithGateway, Begin,
       StageRecoveryPermits, Complete, MarkReadyAfterRecovery, backendVars
  <2>2. CASE LoopFault
    BY <2>2 DEF LoopFault, LoadCapabilities, Register, HeartbeatHost, Begin, Complete, ReregistrationRequired,
       IdentityRejected, AdapterRestarts, backendVars
  <2>3. CASE BackendStep
    BY <2>3 DEF BackendStep, ReserveSlot, DispatchCreated, RunConverges, SlotExpires, SetHostStatus
  <2>4. CASE SubmitStep
    BY <2>4 DEF SubmitStep, Acquire, MaterializationFails, WriteRequest, GatewayAccepts, SubmitAnswered,
       SubmitTimesOut, ExecutionEnds, StatusPolled, ConnectionLost, GatewayRestarts, backendVars
  <2> QED BY <2>1, <2>2, <2>3, <2>4 DEF HostRecoveryNext, hostRecoveryVars, backendVars
<1>3. dispatched' \in [Jobs -> {"none", "active", "ended"}]
  BY <1>2 DEF RestOfHost
<1> QED BY <1>1, <1>3 DEF RestOfHost

\* The rows of the Backend, the adapter and the Gateway's records are of their types.
THEOREM HostTypeCorrect == HostInit /\ [][HostRecoveryNext]_hostRecoveryVars => []HostTypeOK
<1>1. HostInit => RestOfHost
  BY HostAssumption DEF HostInit, RestOfHost
<1>2. RecoveryInv /\ RestOfHost => HostTypeOK
  BY DEF RecoveryInv, BackendInv, LoopInv, CallInv, RestOfHost, HostTypeOK, HostRow, Attestation, Loop, Call
<1> QED BY RecoveryStarts, RecoveryPreserved, RestKept, <1>1, <1>2, PTL

-------------------------------------------------------------------------------
(* All services together *)

\* In a scene each component takes a step of its own or rests; the quota moves by
\* its own operations or by a Run's.
LEMMA ServicesFrame ==
  ASSUME [ServicesNext]_servicesVars
  PROVE  /\ [Next]_vars /\ [EventNext]_eventVars /\ [HostRecoveryNext]_hostRecoveryVars
         /\ [TicketNext]_ticketVars /\ [PlanningNext]_planningVars /\ [ThreadNext]_threadVars
         /\ [RetentionNext]_retentionVars /\ UNCHANGED scene
         /\ \/ scene = "usage" /\ [UsageNext]_usageVars /\ UNCHANGED runVars
            \/ scene # "usage" /\ [RunNext]_<<runVars, usageVars>>
<1>1. CASE UNCHANGED servicesVars
  BY <1>1 DEF servicesVars, otherThanQueue
<1>2. CASE QueueScene
  BY <1>2 DEF QueueScene, otherThanQueue
<1>3. CASE UsageScene \/ RunScene
  BY <1>3 DEF UsageScene, RunScene
<1>4. CASE FollowScene \/ SweepScene
  BY <1>4 DEF FollowScene, SweepScene
<1>5. CASE HostScene \/ TicketScene \/ PlanScene
  BY <1>5 DEF HostScene, TicketScene, PlanScene
<1>6. CASE SwitchScene \/ BindScene
  BY <1>6 DEF SwitchScene, BindScene, NotTheThread
<1>7. CASE ClaimsScene \/ ClassesScene
  BY <1>7 DEF ClaimsScene, ClassesScene, Cleaning
<1> QED BY <1>1, <1>2, <1>3, <1>4, <1>5, <1>6, <1>7 DEF ServicesNext

\* Each component starts as it does by itself.
LEMMA ServicesStart ==
  ServicesInit => /\ Init /\ UsageInit /\ RunInit /\ EventInit /\ HostInit
                  /\ TicketInit /\ PlanningInit /\ ThreadInit /\ RetentionInit
BY DEF ServicesInit

\* The quota and the Run, which read and write each other's rows: while only the
\* quota is at work the Run is not there, and otherwise what it paid is kept.
QuotaAndRun ==
  /\ BalanceInv /\ RunInv
  /\ scene = "usage" => run = "none" /\ confirmedBy = "none"
  /\ scene # "usage" => PaidInv

\* It holds at first.
LEMMA QuotaAndRunStart == ServicesInit => QuotaAndRun
<1> SUFFICES ASSUME ServicesInit PROVE QuotaAndRun
  OBVIOUS
<1>1. run = "none" /\ confirmedBy = "none"
  BY ServicesStart DEF RunInit
<1> QED BY <1>1, ServicesStart, BalanceInitially, RunInvInitially, PaidInitially DEF QuotaAndRun

\* It is kept by the operations of both.
LEMMA QuotaAndRunStay == QuotaAndRun /\ [ServicesNext]_servicesVars => QuotaAndRun'
<1> SUFFICES ASSUME QuotaAndRun, [ServicesNext]_servicesVars PROVE QuotaAndRun'
  OBVIOUS
<1>i. BalanceInv /\ RunInv
  BY DEF QuotaAndRun
<1>s. UNCHANGED scene
  BY ServicesFrame
<1>1. CASE scene = "usage" /\ [UsageNext]_usageVars /\ UNCHANGED runVars
  <2>1. RunInv'
    BY <1>i, <1>1 DEF runVars, RunInv, RunTypeOK, NotYetQueued, SubmittedIsOwned, IsCarried, Live
  <2>2. run' = "none" /\ confirmedBy' = "none"
    BY <1>1 DEF runVars, QuotaAndRun
  <2> QED BY <1>i, <1>s, <1>1, <2>1, <2>2, BalancePreserved DEF QuotaAndRun
<1>2. CASE scene # "usage" /\ [RunNext]_<<runVars, usageVars>>
  <2>1. BalanceInv' /\ RunInv'
    BY <1>i, <1>2, RunStepBalanced, RunInvPreserved
  <2>2. PaidInv'
    BY <1>i, <1>2, PaidPreserved DEF QuotaAndRun
  <2> QED BY <1>s, <1>2, <2>1, <2>2 DEF QuotaAndRun
<1> QED BY <1>1, <1>2, ServicesFrame

\* What it says of the quota, of the Run and of both.
LEMMA QuotaAndRunHold ==
  ASSUME QuotaAndRun
  PROVE  UsageTypeOK /\ BalancesMatch /\ RunTypeOK /\ RunIsNotForgotten /\ ConfirmedOnceAndPaid
<1>1. BalanceInv /\ RunInv
  BY DEF QuotaAndRun
<1>2. ConfirmedOnceAndPaid
  BY DEF QuotaAndRun, PaidInv, ConfirmedOnceAndPaid
<1>3. RunIsNotForgotten /\ RunTypeOK
  BY <1>1 DEF RunInv, IsCarried, RunIsNotForgotten
<1>4. UsageTypeOK /\ BalancesMatch
  BY <1>1, BalanceTyped DEF BalanceInv
<1> QED BY <1>2, <1>3, <1>4

\* The services beside one another do what each does by itself: this carries every
\* theorem about one of them over to all.
LEMMA ServicesBehave ==
  ServicesSpec => /\ Spec /\ ThreadSpec /\ RetentionSpec
                  /\ EventInit /\ [][EventNext]_eventVars
                  /\ HostInit /\ [][HostRecoveryNext]_hostRecoveryVars
                  /\ TicketInit /\ [][TicketNext]_ticketVars
                  /\ PlanningInit /\ [][PlanningNext]_planningVars
<1>1. [ServicesNext]_servicesVars =>
        /\ [Next]_vars /\ [EventNext]_eventVars /\ [HostRecoveryNext]_hostRecoveryVars
        /\ [TicketNext]_ticketVars /\ [PlanningNext]_planningVars /\ [ThreadNext]_threadVars
        /\ [RetentionNext]_retentionVars
  BY ServicesFrame
<1> QED BY <1>1, ServicesStart, PTL DEF ServicesSpec, Spec, ThreadSpec, RetentionSpec

\* The rows, records, workers and processes of all the services are of their types.
THEOREM ServicesTypeCorrect == ServicesSpec => []ServicesTypeOK
<1>1. ServicesSpec => []QuotaAndRun
  BY QuotaAndRunStart, QuotaAndRunStay, PTL DEF ServicesSpec
<1>2. QuotaAndRun => UsageTypeOK /\ RunTypeOK
  BY QuotaAndRunHold
<1>3. ServicesSpec => []TypeOK /\ []EventTypeOK /\ []HostTypeOK /\ []TicketTypeOK
                      /\ []PlanningTypeOK /\ []ThreadTypeOK
  BY ServicesBehave, TypeCorrect, EventTypeCorrect, HostTypeCorrect, TicketTypeCorrect,
     PlanningTypeCorrect, ThreadTypeCorrect, PTL
<1>4. ServicesSpec => []RetentionTypeOK
  BY ServicesBehave, RegistrationIsDeletedOnce, PTL
<1> QED BY <1>1, <1>2, <1>3, <1>4, PTL DEF ServicesTypeOK

\* No other service reopens a cancelled Run or submits it.
LEMMA CancelledStaysBeside ==
  ASSUME QuotaAndRun, QuotaAndRun', [ServicesNext]_servicesVars, run = "cancelled"
  PROVE  run' = "cancelled" /\ ~submitted'
<1>1. RunInv /\ RunInv'
  BY DEF QuotaAndRun
<1>2. scene # "usage" /\ [RunNext]_<<runVars, usageVars>>
  BY ServicesFrame DEF QuotaAndRun
<1> QED BY <1>1, <1>2, CancelledStays

\* What the services keep at every moment.
ServicesSafe ==
  /\ OneHolder /\ FailureIsCompensated /\ DeadLetterIsAuditedOnce
  /\ BalancesMatch /\ RunIsNotForgotten /\ ConfirmedOnceAndPaid
  /\ NoEventIsSkipped /\ AttestationHolds /\ ConsumedOnceInItsTime
  /\ ListedWorkspaceIsPlanned /\ ThreadTellsOneStory /\ DeletionIsCountedOnce

\* All services together, for every value of their constants: the safety invariants
\* hold at every moment, a Run, task or run record ends once, a cancelled Run stays
\* cancelled and is not submitted, and the queue does what numbered grants allow.
THEOREM ServicesAreSound ==
  ServicesSpec => []ServicesSafe /\ TaskEndsOnce /\ CancelledRunIsNeverSubmitted /\ ImplementsFencedQueue
<1>1. ServicesSpec => []QuotaAndRun
  BY QuotaAndRunStart, QuotaAndRunStay, PTL DEF ServicesSpec
<1>2. QuotaAndRun => BalancesMatch /\ RunIsNotForgotten /\ ConfirmedOnceAndPaid
  BY QuotaAndRunHold
<1>3. ServicesSpec => []OneHolder /\ []FailureIsCompensated /\ []DeadLetterIsAuditedOnce /\ TaskEndsOnce
                      /\ ImplementsFencedQueue
  BY ServicesBehave, OneHolderAlways, FailureAlwaysCompensated, DeadLetterAlwaysAudited, TasksEndOnce,
     QueueImplementsGrants, PTL
<1>4. ServicesSpec => []NoEventIsSkipped /\ []AttestationHolds /\ []ConsumedOnceInItsTime
  BY ServicesBehave, EventsAreNotSkipped, AttestationIsKept, TicketIsSpentOnce, PTL
<1>5. ServicesSpec => []ListedWorkspaceIsPlanned /\ []ThreadTellsOneStory /\ []DeletionIsCountedOnce
  BY ServicesBehave, ListedWorkspacesArePlanned, ThreadStoryHolds, RegistrationIsDeletedOnce, PTL
<1>6. ServicesSpec => CancelledRunIsNeverSubmitted
  <2>1. QuotaAndRun /\ QuotaAndRun' /\ [ServicesNext]_servicesVars
        => [run = "cancelled" => run' = "cancelled" /\ ~submitted']_runVars
    BY CancelledStaysBeside
  <2> QED BY <1>1, <2>1, PTL DEF ServicesSpec, CancelledRunIsNeverSubmitted
<1> QED BY <1>1, <1>2, <1>3, <1>4, <1>5, <1>6, PTL DEF ServicesSafe
===============================================================================
