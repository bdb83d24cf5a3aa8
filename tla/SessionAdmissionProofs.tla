------------------------- MODULE SessionAdmissionProofs -------------------------
(* Proofs of the safety properties of SessionAdmission for any number of     *)
(* Runs, processes, locks and faults.                                        *)
EXTENDS SessionAdmission, TLAPS

-------------------------------------------------------------------------------
(* Types *)

Admissions == [state : {"none"} \cup Held \cup Terminal, run : Runs \cup {None},
               by : Procs \cup {None}, gen : Gens, live : BOOLEAN]
Slots == [state : {"none", "reserved", "accepted", "closed"}, live : BOOLEAN]
Attempts == [pc : AttemptPCs, by : Procs \cup {None}, f : 0..MaxFence, gen : Gens,
             status : {"queued", "dispatched", "orphaned"}]
Drains == [kind : {"none", "generic", "terminal"}, f : 0..MaxFence, freed : BOOLEAN, due : BOOLEAN]
Rounds == [pc : RoundPCs, by : Procs \cup {None}, off : BOOLEAN, todo : SUBSET Fences,
           busy : SUBSET Fences, f : 0..MaxFence]
DispatchStates == {"none", "orphaned", "ended"} \cup ActiveDispatch

\* The types of the rows, of the Host, of the memory and of the attempts.
LeaseTypes ==
  /\ fence \in 0..MaxFence
  /\ lock \in [Gens -> 0..MaxFence]
  /\ admission \in [Fences -> Admissions]
  /\ slot \in [Fences -> Slots]

HostTypes ==
  /\ dispatch \in [Fences -> DispatchStates]
  /\ exec \in [Fences -> {"none", "running", "ended"}]
  /\ binding \in [gen : Gens, host : [Gens -> BOOLEAN]]
  /\ offline \in BOOLEAN

MemoryTypes ==
  /\ handles \subseteq Fences
  /\ tracked \subseteq Fences

AttemptTypes == attempt \in [Runs -> Attempts]

OutboxTypes ==
  /\ generic \in [Fences -> Records]
  /\ terminal \in [Fences -> Records]
  /\ drain \in [Procs -> Drains]
  /\ \A p \in Procs : drain[p].kind = "none" <=> drain[p].f = 0

RoundTypes ==
  /\ round \in Rounds
  /\ round.pc = "rest" <=> round.by = None
  /\ round.pc \in Freeing <=> round.f # 0

\* The type invariant in its parts.
LEMMA TypesSplit ==
  TypeOK <=> LeaseTypes /\ HostTypes /\ MemoryTypes /\ AttemptTypes /\ OutboxTypes /\ RoundTypes
             /\ faults \in 0..MaxFaults
BY DEF TypeOK, LeaseTypes, HostTypes, MemoryTypes, AttemptTypes, OutboxTypes, RoundTypes, Admissions, Slots,
   Attempts, Drains, Rounds, DispatchStates, Freeing

\* And back again after a step.
LEMMA TypesAssembled ==
  ASSUME LeaseTypes', HostTypes', MemoryTypes', AttemptTypes', OutboxTypes', RoundTypes', (faults \in 0..MaxFaults)'
  PROVE  TypeOK'
BY DEF TypeOK, LeaseTypes, HostTypes, MemoryTypes, AttemptTypes, OutboxTypes, RoundTypes, Admissions, Slots,
   Attempts, Drains, Rounds, DispatchStates, Freeing

\* Parts that a step leaves alone.
LEMMA TypesKept ==
  /\ LeaseTypes /\ UNCHANGED leaseVars => LeaseTypes'
  /\ HostTypes /\ UNCHANGED hostVars => HostTypes'
  /\ MemoryTypes /\ UNCHANGED memory => MemoryTypes'
  /\ AttemptTypes /\ UNCHANGED attempt => AttemptTypes'
  /\ OutboxTypes /\ UNCHANGED outbox => OutboxTypes'
  /\ RoundTypes /\ UNCHANGED round => RoundTypes'
BY DEF leaseVars, hostVars, memory, outbox, LeaseTypes, HostTypes, MemoryTypes, AttemptTypes, OutboxTypes,
   RoundTypes

\* A fault is counted within its bound.
LEMMA FaultCounts ==
  ASSUME faults \in 0..MaxFaults, Fault \/ UNCHANGED faults
  PROVE  faults' \in 0..MaxFaults
BY SessionAssumption DEF Fault

\* A round at rest, one that goes to another stage, and one that frees a session.
LEMMA RoundAtRest ==
  ASSUME round' = AtRest
  PROVE  RoundTypes'
BY SessionAssumption DEF RoundTypes, Rounds, AtRest, RoundPCs, Freeing

\* An attempt that goes to another step.
LEMMA AttemptGoes ==
  ASSUME AttemptTypes, NEW r \in Runs, NEW pc \in AttemptPCs, Goes(r, pc)
  PROVE  AttemptTypes'
BY DEF AttemptTypes, Goes, Attempts

\* A Slot that is closed.
LEMMA SlotCloses ==
  ASSUME slot \in [Fences -> Slots], NEW f, slot' = [slot EXCEPT ![f] = [state |-> "closed", live |-> FALSE]]
  PROVE  slot' \in [Fences -> Slots]
BY DEF Slots

\* An admission that changes its state.
LEMMA AdmissionMoves ==
  ASSUME admission \in [Fences -> Admissions], NEW f, NEW s \in {"none"} \cup Held \cup Terminal,
         admission' = [admission EXCEPT ![f].state = s]
  PROVE  admission' \in [Fences -> Admissions]
BY DEF Admissions

\* A cleanup record is added, or not.
LEMMA WithCleanupTyped ==
  ASSUME generic \in [Fences -> Records], NEW f
  PROVE  WithCleanup(f) \in [Fences -> Records]
BY DEF WithCleanup, Records

\* A release of the session.
LEMMA ReleaseTyped ==
  ASSUME LeaseTypes, OutboxTypes, NEW f, NEW p, Release(f, p)
  PROVE  admission' \in [Fences -> Admissions] /\ OutboxTypes'
<1>1. CASE UNCHANGED <<admission, outbox>>
  BY <1>1, TypesKept DEF LeaseTypes
<1>2. CASE /\ admission' = admission \/ admission' = [admission EXCEPT ![f].state = "released"]
           /\ generic' = WithCleanup(f) /\ drain' = [drain EXCEPT ![p].due = TRUE] /\ terminal' = terminal
  <2>1. admission' \in [Fences -> Admissions]
    BY <1>2, AdmissionMoves DEF LeaseTypes, Terminal
  <2>2. drain' \in [Procs -> Drains]
    BY <1>2 DEF OutboxTypes, Drains
  <2>3. \A q \in Procs : drain'[q].kind = drain[q].kind /\ drain'[q].f = drain[q].f
    BY <1>2 DEF OutboxTypes, Drains
  <2> QED BY <1>2, <2>1, <2>2, <2>3, WithCleanupTyped DEF OutboxTypes
<1> QED BY <1>1, <1>2 DEF Release

-------------------------------------------------------------------------------

\* An attempt at work has a token.
Fenced == \A r \in Runs : attempt[r].pc \notin {"queued", "lock", "over"} => attempt[r].f # 0

\* The dispatcher keeps the types.
LEMMA DispatcherTyped ==
  ASSUME TypeOK, Fenced, NEW r \in Runs, DispatcherStep(r)
  PROVE  TypeOK'
<1>p. LeaseTypes /\ HostTypes /\ MemoryTypes /\ AttemptTypes /\ OutboxTypes /\ RoundTypes /\ faults \in 0..MaxFaults
  BY TypesSplit
<1>g. \A pc \in AttemptPCs : Goes(r, pc) => AttemptTypes'
  BY <1>p, AttemptGoes
<1>a. attempt[r] \in Attempts /\ attempt[r].f \in 0..MaxFence /\ attempt[r].gen \in Gens
      /\ attempt[r].by \in Procs \cup {None}
  BY <1>p DEF AttemptTypes, Attempts
<1>n. attempt[r].pc \notin {"queued", "lock", "over"} => attempt[r].f \in Fences
  BY <1>a, SessionAssumption DEF Fenced, Fences
<1>f. faults' = faults \/ Fault => (faults \in 0..MaxFaults)'
  BY <1>p, FaultCounts
<1> USE DEF AttemptPCs
<1>1. CASE AcquireLock(r)
  <2>1. CASE Goes(r, "queued") /\ UNCHANGED <<fence, lock>>
    BY <1>1, <1>p, <1>g, <2>1, TypesKept, TypesAssembled DEF AcquireLock, leaseVars
  <2>2. CASE /\ fence < MaxFence /\ fence' = fence + 1
             /\ lock' = [lock EXCEPT ![attempt[r].gen] = fence + 1]
             /\ attempt' = [attempt EXCEPT ![r].pc = "insert", ![r].f = fence + 1]
    <3>1. fence + 1 \in 0..MaxFence
      BY <1>p, <2>2, SessionAssumption DEF LeaseTypes
    <3>2. AttemptTypes'
      <4> DEFINE next == [attempt[r] EXCEPT !.pc = "insert", !.f = fence + 1]
      <4>1. next \in Attempts
        BY <1>a, <3>1 DEF Attempts
      <4>2. attempt' = [attempt EXCEPT ![r] = next]
        BY <2>2
      <4> HIDE DEF next
      <4> QED BY <1>p, <4>1, <4>2 DEF AttemptTypes
    <3>3. LeaseTypes'
      BY <1>1, <1>p, <2>2, <3>1 DEF AcquireLock, LeaseTypes
    <3> QED BY <1>1, <1>p, <3>2, <3>3, TypesKept, TypesAssembled DEF AcquireLock
  <2> QED BY <1>1, <2>1, <2>2 DEF AcquireLock
<1>2. CASE InsertAdmission(r)
  <2>1. CASE lock' = [lock EXCEPT ![attempt[r].gen] = IF @ = attempt[r].f THEN 0 ELSE @]
             /\ UNCHANGED <<admission, handles>> /\ Goes(r, "queued")
    <3>1. lock' \in [Gens -> 0..MaxFence]
      BY <1>p, <1>a, <2>1, SessionAssumption DEF LeaseTypes
    <3> QED BY <1>2, <1>p, <1>g, <2>1, <3>1, TypesKept, TypesAssembled DEF InsertAdmission, LeaseTypes,
       MemoryTypes
  <2>2. CASE /\ admission' = [admission EXCEPT ![attempt[r].f] =
                  [state |-> "acquired", run |-> r, by |-> attempt[r].by, gen |-> attempt[r].gen, live |-> TRUE]]
             /\ handles' = handles \cup {attempt[r].f} /\ Goes(r, "slot") /\ UNCHANGED lock
    <3>1. admission' \in [Fences -> Admissions]
      BY <1>p, <1>a, <2>2 DEF LeaseTypes, Admissions, Held
    <3>2. attempt[r].f \in Fences
      BY <1>2, <1>n DEF InsertAdmission
    <3> QED BY <1>2, <1>p, <1>g, <2>2, <3>1, <3>2, TypesKept, TypesAssembled DEF InsertAdmission, LeaseTypes,
       MemoryTypes
  <2> QED BY <1>2, <2>1, <2>2 DEF InsertAdmission
<1>3. CASE TryReserveSlot(r)
  <2>1. slot' \in [Fences -> Slots]
    <3>1. slot' = slot \/ slot' = [slot EXCEPT ![attempt[r].f] = [state |-> "reserved", live |-> TRUE]]
      BY <1>3 DEF TryReserveSlot
    <3>2. [state |-> "reserved", live |-> TRUE] \in Slots
      BY DEF Slots
    <3> QED BY <1>p, <3>1, <3>2 DEF LeaseTypes
  <2>2. (faults \in 0..MaxFaults)' /\ AttemptTypes'
    BY <1>3, <1>f, <1>g DEF TryReserveSlot
  <2> QED BY <1>3, <1>p, <2>1, <2>2, TypesKept, TypesAssembled DEF TryReserveSlot, LeaseTypes
<1>4. CASE AssertBeforeBind(r)
  BY <1>4, <1>p, <1>g, TypesKept, TypesAssembled DEF AssertBeforeBind
<1>5. CASE BindReservation(r) \/ BindDispatch(r)
  <2>1. AttemptTypes' /\ admission' \in [Fences -> Admissions]
    BY <1>5, <1>p, <1>g, AdmissionMoves DEF BindReservation, BindDispatch, Bind, LeaseTypes, Held
  <2> QED BY <1>5, <1>p, <2>1, TypesKept, TypesAssembled DEF BindReservation, BindDispatch, LeaseTypes
<1>6. CASE BindProductSessionHost(r)
  <2>1. AttemptTypes' /\ binding' \in [gen : Gens, host : [Gens -> BOOLEAN]]
    <3>1. binding' = binding \/ binding' = [binding EXCEPT !.host[attempt[r].gen] = TRUE]
      BY <1>6 DEF BindProductSessionHost
    <3>2. binding' \in [gen : Gens, host : [Gens -> BOOLEAN]]
      <4> DEFINE hosts == [binding.host EXCEPT ![attempt[r].gen] = TRUE]
      <4>1. binding.host \in [Gens -> BOOLEAN] /\ binding \in [gen : Gens, host : [Gens -> BOOLEAN]]
        BY <1>p DEF HostTypes
      <4>2. hosts \in [Gens -> BOOLEAN]
        BY <4>1
      <4>3. binding' = binding \/ binding' = [binding EXCEPT !.host = hosts]
        BY <3>1
      <4> HIDE DEF hosts
      <4> QED BY <4>1, <4>2, <4>3
    <3> QED BY <1>6, <1>g, <3>2 DEF BindProductSessionHost
  <2> QED BY <1>6, <1>p, <2>1, TypesKept, TypesAssembled DEF BindProductSessionHost, HostTypes
<1>7. CASE CreateDispatch(r) \/ MarkDispatchSent(r)
  <2>1. dispatch' \in [Fences -> DispatchStates]
    BY <1>7, <1>p DEF CreateDispatch, MarkDispatchSent, HostTypes, DispatchStates, ActiveDispatch, PreAccept
  <2>2. AttemptTypes'
    BY <1>7, <1>p, <1>g DEF CreateDispatch, MarkDispatchSent, AttemptTypes, Attempts
  <2> QED BY <1>7, <1>p, <2>1, <2>2, TypesKept, TypesAssembled DEF CreateDispatch, MarkDispatchSent, HostTypes
<1>8. CASE Track(r)
  <2>1. attempt[r].f \in Fences
    BY <1>8, <1>n DEF Track
  <2> QED BY <1>8, <1>p, <1>g, <2>1, TypesKept, TypesAssembled DEF Track, MemoryTypes
<1>9. CASE Submit(r)
  <2>1. exec' \in [Fences -> {"none", "running", "ended"}]
    BY <1>9, <1>p DEF Submit, HostTypes
  <2>2. (faults \in 0..MaxFaults)' /\ AttemptTypes'
    BY <1>9, <1>f, <1>g DEF Submit
  <2> QED BY <1>9, <1>p, <2>1, <2>2, TypesKept, TypesAssembled DEF Submit, HostTypes
<1>10. CASE Accept(r)
  <2>1. slot' \in [Fences -> Slots]
    BY <1>10, <1>p DEF Accept, LeaseTypes, Slots
  <2>2. dispatch' \in [Fences -> DispatchStates]
    BY <1>10, <1>p DEF Accept, HostTypes, DispatchStates, ActiveDispatch, PreAccept
  <2> QED BY <1>10, <1>p, <1>g, <2>1, <2>2, TypesKept, TypesAssembled DEF Accept, LeaseTypes, HostTypes
<1>11. CASE ReleaseReservation(r)
  <2>1. slot' \in [Fences -> Slots]
    BY <1>11, <1>p, SlotCloses DEF ReleaseReservation, LeaseTypes
  <2> QED BY <1>11, <1>p, <1>g, <2>1, TypesKept, TypesAssembled DEF ReleaseReservation, LeaseTypes, MemoryTypes
<1>12. CASE ReleaseSession(r)
  <2>1. admission' \in [Fences -> Admissions] /\ OutboxTypes'
    BY <1>12, <1>p, ReleaseTyped DEF ReleaseSession
  <2> QED BY <1>12, <1>p, <1>g, <2>1, TypesKept, TypesAssembled DEF ReleaseSession, LeaseTypes
<1> QED BY <1>1, <1>2, <1>3, <1>4, <1>5, <1>6, <1>7, <1>8, <1>9, <1>10, <1>11, <1>12 DEF DispatcherStep

\* Leases, Hosts, convergence and the drains keep the types.
LEMMA LeasesTyped ==
  ASSUME TypeOK, LeaseStep \/ HostStep
  PROVE  TypeOK'
<1>p. LeaseTypes /\ HostTypes /\ MemoryTypes /\ AttemptTypes /\ OutboxTypes /\ RoundTypes /\ faults \in 0..MaxFaults
  BY TypesSplit
<1>f. faults' = faults \/ Fault => (faults \in 0..MaxFaults)'
  BY <1>p, FaultCounts
<1>1. ASSUME NEW g \in Gens, LockLapses(g) PROVE TypeOK'
  <2>1. lock' \in [Gens -> 0..MaxFence]
    BY <1>1, <1>p, SessionAssumption DEF LockLapses, LeaseTypes
  <2> QED BY <1>1, <1>p, <1>f, <2>1, TypesKept, TypesAssembled DEF LockLapses, LeaseTypes, CostsFault
<1>2. ASSUME NEW f \in Fences, AdmissionLapses(f) PROVE TypeOK'
  <2>1. admission' \in [Fences -> Admissions]
    BY <1>2, <1>p DEF AdmissionLapses, LeaseTypes, Admissions
  <2> QED BY <1>2, <1>p, <1>f, <2>1, TypesKept, TypesAssembled DEF AdmissionLapses, LeaseTypes, CostsFault
<1>3. ASSUME NEW f \in Fences, SlotLapses(f) PROVE TypeOK'
  <2>1. slot' \in [Fences -> Slots]
    BY <1>3, <1>p DEF SlotLapses, LeaseTypes, Slots
  <2> QED BY <1>3, <1>p, <1>f, <2>1, TypesKept, TypesAssembled DEF SlotLapses, LeaseTypes, CostsFault
<1>4. ASSUME NEW f \in Fences, HeartbeatFails(f) PROVE TypeOK'
  <2>1. /\ dispatch' \in [Fences -> DispatchStates]
        /\ admission' \in [Fences -> Admissions] /\ OutboxTypes'
    <3>1. CASE dispatch' = [dispatch EXCEPT ![f] = "recovering"] /\ UNCHANGED <<admission, outbox>>
      BY <1>p, <3>1, TypesKept DEF HostTypes, LeaseTypes, DispatchStates, ActiveDispatch
    <3>2. CASE Release(f, admission[f].by) /\ UNCHANGED dispatch
      BY <1>p, <3>2, ReleaseTyped DEF HostTypes
    <3> QED BY <1>4, <3>1, <3>2 DEF HeartbeatFails
  <2>2. tracked' \subseteq Fences
    BY <1>4, <1>p DEF HeartbeatFails, MemoryTypes
  <2> QED BY <1>4, <1>p, <2>1, <2>2, TypesKept, TypesAssembled DEF HeartbeatFails, LeaseTypes, HostTypes,
     MemoryTypes
<1>5. ASSUME NEW f \in Fences, ClaimLapses(f) PROVE TypeOK'
  <2>1. OutboxTypes'
    <3>1. /\ generic' = generic \/ generic' = [generic EXCEPT ![f].status = "lapsed"]
          /\ terminal' = terminal \/ terminal' = [terminal EXCEPT ![f].status = "lapsed"]
          /\ UNCHANGED drain
      BY <1>5 DEF ClaimLapses
    <3>2. \A old \in [Fences -> Records] : [old EXCEPT ![f].status = "lapsed"] \in [Fences -> Records]
      BY DEF Records
    <3> QED BY <1>p, <3>1, <3>2 DEF OutboxTypes
  <2> QED BY <1>5, <1>p, <1>f, <2>1, TypesKept, TypesAssembled DEF ClaimLapses, CostsFault
<1>6. CASE HostStep
  <2>1. exec' \in [Fences -> {"none", "running", "ended"}] /\ offline' \in BOOLEAN
    BY <1>6, <1>p DEF HostStep, HostFinishes, HostGoesOffline, HostReturns, HostTypes
  <2>2. (faults \in 0..MaxFaults)'
    BY <1>6, <1>f DEF HostStep, HostFinishes, HostGoesOffline, HostReturns
  <2>3. UNCHANGED <<leaseVars, outbox, memory, attempt, round, dispatch, binding>>
    BY <1>6 DEF HostStep, HostFinishes, HostGoesOffline, HostReturns
  <2> QED BY <1>p, <2>1, <2>2, <2>3, TypesKept, TypesAssembled DEF HostTypes
<1> QED BY <1>1, <1>2, <1>3, <1>4, <1>5, <1>6 DEF LeaseStep

\* The drains keep the types.
LEMMA CleanupTyped ==
  ASSUME TypeOK, NEW p \in Procs, CleanupStep(p) \/ RetryCleanup(p)
  PROVE  TypeOK'
<1>p. LeaseTypes /\ HostTypes /\ MemoryTypes /\ AttemptTypes /\ OutboxTypes /\ RoundTypes /\ faults \in 0..MaxFaults
  BY TypesSplit
<1>f. faults' = faults \/ Fault => (faults \in 0..MaxFaults)'
  BY <1>p, FaultCounts
<1>s. ASSUME NEW status \in {"pending", "succeeded"}, SettleCleanup(p, status) PROVE OutboxTypes'
  <2>1. generic' \in [Fences -> Records] /\ terminal' \in [Fences -> Records]
    BY <1>s, <1>p, SessionAssumption DEF SettleCleanup, Settled, OutboxTypes, Records
  <2>2. drain' \in [Procs -> Drains]
    <3>1. drain[p].due \in BOOLEAN
      BY <1>p DEF OutboxTypes, Drains
    <3>2. NoWork \in Drains
      BY SessionAssumption DEF NoWork, Drains
    <3>3. \A n \in Drains, d \in BOOLEAN : [n EXCEPT !.due = d] \in Drains
      BY DEF Drains
    <3>4. [NoWork EXCEPT !.due = drain[p].due] \in Drains
      BY <3>1, <3>2, <3>3
    <3> QED BY <1>s, <1>p, <3>4 DEF SettleCleanup, OutboxTypes
  <2>3. \A q \in Procs : drain'[q].kind = "none" <=> drain'[q].f = 0
    BY <1>s, <1>p DEF SettleCleanup, OutboxTypes, Drains, NoWork
  <2> QED BY <2>1, <2>2, <2>3 DEF OutboxTypes
<1>1. ASSUME NEW f \in Fences, ClaimCleanup(p, f) PROVE TypeOK'
  <2>0. f \in 0..MaxFence /\ f # 0
    BY SessionAssumption DEF Fences
  <2>1. generic' \in [Fences -> Records] /\ terminal' \in [Fences -> Records]
    <3>1. [status |-> "running", by |-> p] \in Records
      BY DEF Records
    <3>2. /\ generic' = generic \/ generic' = [generic EXCEPT ![f] = [status |-> "running", by |-> p]]
          /\ terminal' = terminal \/ terminal' = [terminal EXCEPT ![f] = [status |-> "running", by |-> p]]
      BY <1>1 DEF ClaimCleanup
    <3> QED BY <1>p, <3>1, <3>2 DEF OutboxTypes
  <2>2. PICK kind \in {"generic", "terminal"} :
          drain' = [drain EXCEPT ![p] = [kind |-> kind, f |-> f, freed |-> FALSE, due |-> FALSE]]
    BY <1>1 DEF ClaimCleanup
  <2>3. drain' \in [Procs -> Drains] /\ \A q \in Procs : drain'[q].kind = "none" <=> drain'[q].f = 0
    BY <1>p, <2>0, <2>2 DEF OutboxTypes, Drains
  <2>4. OutboxTypes'
    BY <2>1, <2>3 DEF OutboxTypes
  <2> QED BY <1>1, <1>p, <2>4, TypesKept, TypesAssembled DEF ClaimCleanup
<1>2. CASE NothingToClaim(p)
  <2>1. OutboxTypes'
    BY <1>2, <1>p DEF NothingToClaim, OutboxTypes, Drains
  <2> QED BY <1>2, <1>p, <2>1, TypesKept, TypesAssembled DEF NothingToClaim
<1>3. CASE ReleaseLeaseByProof(p)
  <2>1. OutboxTypes'
    BY <1>3, <1>p DEF ReleaseLeaseByProof, OutboxTypes, Drains
  <2>2. lock' \in [Gens -> 0..MaxFence]
    <3>1. drain[p].f \in Fences
      BY <1>3, <1>p, SessionAssumption DEF ReleaseLeaseByProof, OutboxTypes, Drains, Fences
    <3>2. admission[drain[p].f].gen \in Gens
      BY <1>p, <3>1 DEF LeaseTypes, Admissions
    <3> QED BY <1>3, <1>p, <3>2, SessionAssumption DEF ReleaseLeaseByProof, LeaseTypes
  <2> QED BY <1>3, <1>p, <2>1, <2>2, TypesKept, TypesAssembled DEF ReleaseLeaseByProof, LeaseTypes
<1>4. CASE CompleteCleanup(p)
  <2>1. OutboxTypes'
    BY <1>4, <1>p, <1>s DEF CompleteCleanup
  <2>2. RoundTypes'
    <3>1. round' = round \/ round' = AtRest
      BY <1>4 DEF CompleteCleanup
    <3> QED BY <1>p, <3>1, RoundAtRest, TypesKept
  <2> QED BY <1>4, <1>p, <2>1, <2>2, TypesKept, TypesAssembled DEF CompleteCleanup
<1>5. CASE RetryCleanup(p)
  BY <1>5, <1>p, <1>f, <1>s, TypesKept, TypesAssembled DEF RetryCleanup
<1> QED BY <1>1, <1>2, <1>3, <1>4, <1>5 DEF CleanupStep

\* The rounds, convergence and crashes keep the types.
LEMMA OrphanTyped ==
  ASSUME LeaseTypes, HostTypes, AttemptTypes, NEW f \in Fences, Orphan(f)
  PROVE  slot' \in [Fences -> Slots] /\ dispatch' \in [Fences -> DispatchStates] /\ AttemptTypes'
<1>1. slot' \in [Fences -> Slots]
  BY SlotCloses DEF Orphan, LeaseTypes
<1>2. dispatch' \in [Fences -> DispatchStates]
  BY DEF Orphan, HostTypes, DispatchStates
<1>3. AttemptTypes'
  BY DEF Orphan, AttemptTypes, Attempts
<1> QED BY <1>1, <1>2, <1>3

\* The round goes to its next stage.
LEMMA StageTyped ==
  ASSUME RoundTypes, round.pc \in RoundPCs \ (Freeing \cup {"rest"}),
         NEW pc \in RoundPCs \ (Freeing \cup {"rest"}), NEW todo \in SUBSET Fences, NEW busy \in SUBSET Fences,
         Stage(pc, todo, busy)
  PROVE  RoundTypes'
BY DEF RoundTypes, Stage, Rounds

\* The round takes up a row, or is done with it.
LEMMA TodoTyped ==
  ASSUME RoundTypes, NEW pc \in RoundPCs \ {"rest"}, NEW todo \in SUBSET Fences, NEW f \in 0..MaxFence,
         round.pc # "rest", pc \in Freeing <=> f # 0,
         round' = [round EXCEPT !.pc = pc, !.todo = todo, !.f = f]
  PROVE  RoundTypes'
BY DEF RoundTypes, Rounds

\* The steps of a round keep the types.
LEMMA RoundTyped ==
  ASSUME TypeOK, RoundStep
  PROVE  TypeOK'
<1>p. LeaseTypes /\ HostTypes /\ MemoryTypes /\ AttemptTypes /\ OutboxTypes /\ RoundTypes /\ faults \in 0..MaxFaults
  BY TypesSplit
<1>r. round.todo \in SUBSET Fences /\ round.busy \in SUBSET Fences /\ round.f \in 0..MaxFence
  BY <1>p DEF RoundTypes, Rounds
<1>f. Fences \subseteq 0..MaxFence /\ 0 \notin Fences /\ 0 \in 0..MaxFence
  BY SessionAssumption DEF Fences
<1>1. ASSUME NEW f \in Fences, SweepOrphans(f) PROVE TypeOK'
  <2>1. CASE round' = AtRest /\ UNCHANGED <<dispatch, slot, attempt>>
    BY <1>1, <1>p, <2>1, RoundAtRest, TypesKept, TypesAssembled DEF SweepOrphans, LeaseTypes, HostTypes
  <2>2. CASE Orphan(f) /\ round' = [round EXCEPT !.pc = "sweepFree", !.f = f]
    <3>1. round' = [round EXCEPT !.pc = "sweepFree", !.todo = round.todo, !.f = f]
      BY <1>p, <2>2 DEF RoundTypes, Rounds
    <3>2. RoundTypes'
      BY <1>1, <1>p, <1>r, <1>f, <3>1, TodoTyped DEF SweepOrphans, RoundPCs, Freeing
    <3> QED BY <1>1, <1>p, <2>2, <3>2, OrphanTyped, TypesKept, TypesAssembled DEF SweepOrphans, LeaseTypes,
       HostTypes
  <2> QED BY <1>1, <2>1, <2>2 DEF SweepOrphans
<1>2. ASSUME NEW f \in Fences, OrphanStalled(f) PROVE TypeOK'
  <2>1. CASE round' = [round EXCEPT !.todo = @ \ {f}] /\ UNCHANGED <<dispatch, slot, attempt>>
    <3>1. RoundTypes'
      BY <1>p, <2>1 DEF RoundTypes, Rounds
    <3> QED BY <1>2, <1>p, <2>1, <3>1, TypesKept, TypesAssembled DEF OrphanStalled, LeaseTypes, HostTypes
  <2>2. CASE Orphan(f) /\ round' = [round EXCEPT !.pc = "staleFree", !.f = f]
    <3>1. round' = [round EXCEPT !.pc = "staleFree", !.todo = round.todo, !.f = f]
      BY <1>p, <2>2 DEF RoundTypes, Rounds
    <3>2. RoundTypes'
      BY <1>2, <1>p, <1>r, <1>f, <3>1, TodoTyped DEF OrphanStalled, RoundPCs, Freeing
    <3> QED BY <1>2, <1>p, <2>2, <3>2, OrphanTyped, TypesKept, TypesAssembled DEF OrphanStalled, LeaseTypes,
       HostTypes
  <2> QED BY <1>2, <2>1, <2>2 DEF OrphanStalled
<1>3. ASSUME NEW f \in Fences, DeferStalled(f) PROVE TypeOK'
  <2>1. RoundTypes'
    BY <1>3, <1>p DEF DeferStalled, RoundTypes, Rounds
  <2> QED BY <1>3, <1>p, <2>1, TypesKept, TypesAssembled DEF DeferStalled
<1>4. ASSUME NEW f \in Fences, ReconcileOrphan(f) PROVE TypeOK'
  <2>1. round' = [round EXCEPT !.pc = "orphansFree", !.todo = round.todo, !.f = f]
    BY <1>4, <1>p DEF ReconcileOrphan, RoundTypes, Rounds
  <2>2. RoundTypes'
    BY <1>4, <1>p, <1>r, <1>f, <2>1, TodoTyped DEF ReconcileOrphan, RoundPCs, Freeing
  <2> QED BY <1>4, <1>p, <2>2, TypesKept, TypesAssembled DEF ReconcileOrphan
<1>5. ASSUME NEW f \in Fences, RecoverAdmission(f) PROVE TypeOK'
  <2>1. RoundTypes'
    BY <1>5, <1>p DEF RecoverAdmission, RoundTypes, Rounds
  <2>2. OutboxTypes'
    BY <1>5, <1>p, WithCleanupTyped DEF RecoverAdmission, OutboxTypes
  <2>3. admission' \in [Fences -> Admissions]
    <3>1. CASE admission' = [admission EXCEPT ![f].state = "recovering", ![f].live = TRUE]
      BY <1>p, <3>1 DEF LeaseTypes, Admissions, Held
    <3>2. CASE admission' = [admission EXCEPT ![f].state = "expired"]
      BY <1>p, <3>2, AdmissionMoves DEF LeaseTypes, Terminal
    <3> QED BY <1>5, <1>p, <3>1, <3>2 DEF RecoverAdmission, LeaseTypes
  <2> QED BY <1>5, <1>p, <2>1, <2>2, <2>3, TypesKept, TypesAssembled DEF RecoverAdmission, LeaseTypes
<1>6. ASSUME NEW f \in Fences, BackfillCleanup(f) PROVE TypeOK'
  <2>1. OutboxTypes'
    BY <1>6, <1>p, WithCleanupTyped DEF BackfillCleanup, OutboxTypes
  <2> QED BY <1>6, <1>p, <2>1, TypesKept, TypesAssembled DEF BackfillCleanup
<1>7. CASE ReleaseOrphanedAdmission
  <2> DEFINE next == [round EXCEPT !.pc = After(round.pc), !.todo = @ \ {round.f}, !.f = 0]
  <2>1. next = [round EXCEPT !.pc = After(round.pc), !.todo = round.todo \ {round.f}, !.f = 0]
    BY <1>p DEF RoundTypes, Rounds
  <2>2. round.pc \in Freeing /\ After(round.pc) \in RoundPCs \ (Freeing \cup {"rest"}) /\ round.pc # "rest"
    BY <1>7 DEF ReleaseOrphanedAdmission, After, RoundPCs, Freeing
  <2>3. round' = next => RoundTypes'
    BY <1>p, <1>r, <1>f, <2>1, <2>2, TodoTyped
  <2>4. round' = next \/ round' = AtRest
    BY <1>7 DEF ReleaseOrphanedAdmission
  <2>5. RoundTypes'
    BY <2>3, <2>4, RoundAtRest
  <2> QED BY <1>7, <1>p, <2>5, TypesKept, TypesAssembled DEF ReleaseOrphanedAdmission
<1>8. CASE RotateProductSessions
  <2>1. binding' \in [gen : Gens, host : [Gens -> BOOLEAN]]
    BY <1>8, <1>p DEF RotateProductSessions, Rotatable, HostTypes
  <2> QED BY <1>8, <1>p, <2>1, TypesKept, TypesAssembled DEF RotateProductSessions, HostTypes
<1>9. CASE NextStage
  <2>1. PICK pc \in RoundPCs \ (Freeing \cup {"rest"}), todo \in SUBSET Fences, busy \in SUBSET Fences :
          Stage(pc, todo, busy)
    BY <1>9 DEF NextStage, RoundPCs, Freeing
  <2>2. round.pc \in RoundPCs \ (Freeing \cup {"rest"})
    BY <1>9 DEF NextStage, RoundPCs, Freeing
  <2>3. RoundTypes'
    BY <1>p, <2>1, <2>2, StageTyped
  <2> QED BY <1>9, <1>p, <2>3, TypesKept, TypesAssembled DEF NextStage
<1>10. CASE RoundEnds
  BY <1>10, <1>p, RoundAtRest, TypesKept, TypesAssembled DEF RoundEnds
<1> QED BY <1>1, <1>2, <1>3, <1>4, <1>5, <1>6, <1>7, <1>8, <1>9, <1>10 DEF RoundStep

\* The steps of a process keep the types.
LEMMA ProcessTyped ==
  ASSUME TypeOK, NEW p \in Procs, RoundBegins(p) \/ ProcessCrashes(p) \/ (\E r \in Runs : Take(r, p))
                                  \/ (\E f \in Fences : ConvergeSession(p, f))
  PROVE  TypeOK'
<1>p. LeaseTypes /\ HostTypes /\ MemoryTypes /\ AttemptTypes /\ OutboxTypes /\ RoundTypes /\ faults \in 0..MaxFaults
  BY TypesSplit
<1>1. CASE RoundBegins(p)
  <2>1. slot' \in [Fences -> Slots]
    BY <1>1, <1>p DEF RoundBegins, LeaseTypes, Slots
  <2>2. RoundTypes'
    <3>1. PICK todo \in SUBSET Fences : round' = [AtRest EXCEPT !.pc = "sweep", !.by = p, !.off = offline, !.todo = todo]
      BY <1>1 DEF RoundBegins
    <3>2. round' = [pc |-> "sweep", by |-> p, off |-> offline, todo |-> todo, busy |-> {}, f |-> 0]
      BY <3>1 DEF AtRest
    <3>3. 0 \in 0..MaxFence /\ offline \in BOOLEAN /\ p # None
      BY <1>p, SessionAssumption DEF HostTypes
    <3> QED BY <3>2, <3>3 DEF RoundTypes, Rounds, RoundPCs, Freeing
  <2> QED BY <1>1, <1>p, <2>1, <2>2, TypesKept, TypesAssembled DEF RoundBegins, LeaseTypes
<1>2. CASE ProcessCrashes(p)
  <2>1. AttemptTypes'
    BY <1>2, <1>p DEF ProcessCrashes, AttemptTypes, Attempts, AttemptPCs
  <2>2. OutboxTypes'
    <3>1. NoWork \in Drains /\ NoWork.kind = "none" /\ NoWork.f = 0
      BY SessionAssumption DEF NoWork, Drains
    <3> QED BY <1>2, <1>p, <3>1 DEF ProcessCrashes, OutboxTypes
  <2>3. RoundTypes'
    <3>1. round' = round \/ round' = AtRest
      BY <1>2 DEF ProcessCrashes
    <3> QED BY <1>p, <3>1, RoundAtRest, TypesKept
  <2>4. MemoryTypes' /\ (faults \in 0..MaxFaults)'
    BY <1>2, <1>p, FaultCounts DEF ProcessCrashes, MemoryTypes
  <2> QED BY <1>2, <1>p, <2>1, <2>2, <2>3, <2>4, TypesKept, TypesAssembled DEF ProcessCrashes
<1>3. ASSUME NEW r \in Runs, Take(r, p) PROVE TypeOK'
  <2>1. AttemptTypes'
    <3>1. PICK pc \in {"lock", "over"} : attempt' = [attempt EXCEPT ![r].pc = pc, ![r].by = p, ![r].f = 0]
      BY <1>3 DEF Take
    <3>2. 0 \in 0..MaxFence
      BY SessionAssumption
    <3>3. [attempt[r] EXCEPT !.pc = pc, !.by = p, !.f = 0] \in Attempts
      BY <1>p, <3>2 DEF AttemptTypes, Attempts, AttemptPCs
    <3> QED BY <1>p, <3>1, <3>3 DEF AttemptTypes
  <2> QED BY <1>3, <1>p, <2>1, TypesKept, TypesAssembled DEF Take
<1>4. ASSUME NEW f \in Fences, ConvergeSession(p, f) PROVE TypeOK'
  <2>1. admission' \in [Fences -> Admissions]
    <3>1. admission' = admission \/ admission' = [admission EXCEPT ![f].state = "released"]
      BY <1>4 DEF ConvergeSession
    <3> QED BY <1>p, <3>1, AdmissionMoves DEF LeaseTypes, Terminal
  <2>2. slot' \in [Fences -> Slots]
    BY <1>4, <1>p, SlotCloses DEF ConvergeSession, LeaseTypes
  <2>3. OutboxTypes'
    <3>1. [status |-> "pending", by |-> None] \in Records
      BY DEF Records
    <3> QED BY <1>4, <1>p, <3>1 DEF ConvergeSession, OutboxTypes
  <2>4. dispatch' \in [Fences -> DispatchStates]
    BY <1>4, <1>p DEF ConvergeSession, HostTypes, DispatchStates
  <2> QED BY <1>4, <1>p, <2>1, <2>2, <2>3, <2>4, TypesKept, TypesAssembled DEF ConvergeSession, LeaseTypes,
     HostTypes
<1> QED BY <1>1, <1>2, <1>3, <1>4

-------------------------------------------------------------------------------
(* The invariant *)

\* A Slot that its attempt may still use.
Open(f) == slot[f].state \in {"reserved", "accepted"}

\* Before a Dispatch exists; before the request leaves; from then on.
Early == {"insert", "slot", "assertSlot", "bindSlot", "bindHost", "create"}
Unsent == {"assertDispatch", "bindDispatch", "track", "send", "unslot", "unsession"}
Sent == {"submit", "accept", "unknown"}
Binding == {"bindSlot", "bindHost", "create"}

\* A token that was not granted yet has left no trace.
Untouched(f) ==
  /\ admission[f].state = "none" /\ slot[f].state = "none"
  /\ dispatch[f] = "none" /\ exec[f] = "none"
  /\ f \notin tracked /\ f \notin handles

FreshTokens == \A f \in Fences : f > fence => Untouched(f)

\* A token belongs to one attempt.
OwnTokens ==
  /\ \A r \in Runs : attempt[r].f <= fence
  /\ \A r, q \in Runs : attempt[r].f = attempt[q].f /\ attempt[r].f # 0 => r = q
  /\ Fenced

\* What an attempt finds of its own rows, by the step it is at.
AttemptFits(r) ==
  LET f == attempt[r].f
      pc == attempt[r].pc IN
  /\ pc = "insert" => admission[f].state = "none" /\ f \notin handles
  /\ pc \in {"insert", "slot"} => slot[f].state = "none"
  /\ pc \in Early => dispatch[f] = "none" /\ f \notin tracked
  /\ pc \in Early \cup Unsent => exec[f] = "none"
  /\ pc = "unsession" => ~ Open(f)
  /\ pc \in (Early \ {"insert"}) \cup Unsent \cup Sent =>
       admission[f].run = r /\ admission[f].by = attempt[r].by /\ admission[f].state # "none"
  /\ pc \in Sent => dispatch[f] \notin {"none", "created"} /\ (dispatch[f] \in ActiveDispatch => Open(f))
  /\ pc \in Binding /\ Open(f) => admission[f].state \in Held

AttemptSound == \A r \in Runs : AttemptFits(r)

\* What the rows of an attempt say of each other, whoever reads them.
RowFits(f) ==
  /\ exec[f] # "none" => dispatch[f] \notin {"none", "created"}
  /\ exec[f] = "running" /\ dispatch[f] \in ActiveDispatch => Open(f)
  /\ dispatch[f] \in ActiveDispatch /\ Open(f) => admission[f].state \in Held
  /\ f \in tracked => admission[f].state # "none"
  /\ f \in handles /\ Open(f) =>
       /\ admission[f].run \in Runs
       /\ attempt[admission[f].run].f = f
       /\ attempt[admission[f].run].pc \notin {"queued", "lock", "insert"}

RowsSound == \A f \in Fences : RowFits(f)

\* Nothing that the decision to end the admission of f rests on has come back.
Unused(f) ==
  /\ dispatch[f] \in ActiveDispatch => ~ Open(f)
  /\ \A r \in Runs : attempt[r].f = f /\ attempt[r].pc \in Binding => ~ Open(f)

\* What the round read of f when its stage began.
Expirable(f) ==
  /\ ~ admission[f].live /\ admission[f].state # "none"
  /\ f \notin round.busy => Unused(f)

\* What the round read is still true where it decides.
RoundSound ==
  /\ round.pc \in Freeing => dispatch[round.f] \in {"orphaned", "ended"}
  /\ round.pc \in {"sweep", "sweepFree", "stale", "staleFree"} => \A f \in round.todo : dispatch[f] # "none"
  /\ round.pc \in {"orphans", "orphansFree"} => \A f \in round.todo : dispatch[f] \in {"orphaned", "ended"}
  /\ round.pc = "recover" => \A f \in round.todo : Expirable(f)

SessionInv == TypeOK /\ FreshTokens /\ OwnTokens /\ AttemptSound /\ RowsSound /\ RoundSound

\* A lock whose record is finished, or whose claimant has given it back, is gone.
LockInv ==
  /\ \A g \in Gens : lock[g] <= fence
  /\ \A f \in Fences : generic[f].status = "succeeded" \/ terminal[f].status = "succeeded" =>
       admission[f].state \in Terminal /\ lock[admission[f].gen] # f
  /\ \A p \in Procs : drain[p].kind # "none" =>
       /\ admission[drain[p].f].state \in Terminal
       /\ drain[p].freed => lock[admission[drain[p].f].gen] # drain[p].f

-------------------------------------------------------------------------------
(* What the operators do *)

\* An attempt that goes on keeps its token and its process; the others stay.
LEMMA AttemptMoves ==
  ASSUME AttemptTypes, NEW r \in Runs, NEW pc, Goes(r, pc)
  PROVE  /\ attempt'[r].pc = pc /\ attempt'[r].f = attempt[r].f /\ attempt'[r].by = attempt[r].by
         /\ \A q \in Runs : q # r => attempt'[q] = attempt[q]
BY DEF AttemptTypes, Goes, Attempts

\* A release ends an admission and changes nothing else of it.
LEMMA ReleaseEnds ==
  ASSUME LeaseTypes, NEW f \in Fences, NEW p, Release(f, p)
  PROVE  /\ admission'[f].state = admission[f].state \/ admission'[f].state = "released"
         /\ \A h \in Fences : /\ h # f => admission'[h] = admission[h]
                              /\ admission'[h].run = admission[h].run /\ admission'[h].by = admission[h].by
                              /\ admission'[h].live = admission[h].live /\ admission'[h].gen = admission[h].gen
<1>1. CASE admission' = admission
  BY <1>1
<1>2. CASE admission' = [admission EXCEPT ![f].state = "released"]
  BY <1>2 DEF LeaseTypes, Admissions
<1> QED BY <1>1, <1>2 DEF Release

-------------------------------------------------------------------------------
(* A dispatcher's step *)

\* The step is one of attempt r and touches no row but those of token f.
OnlyRow(f) ==
  \A h \in Fences \ {f} :
    /\ admission'[h] = admission[h] /\ slot'[h] = slot[h]
    /\ dispatch'[h] = dispatch[h] /\ exec'[h] = exec[h]
    /\ h \in tracked' <=> h \in tracked
    /\ h \in handles' <=> h \in handles

OnlyAttempt(r) == \A q \in Runs \ {r} : attempt'[q] = attempt[q]

\* What a step at token f must leave of what the round read.
Unsurprising(f) ==
  /\ dispatch[f] # "none" => dispatch'[f] # "none"
  /\ dispatch[f] \in {"orphaned", "ended"} => dispatch'[f] = dispatch[f]
  /\ Expirable(f) => Expirable(f)'

\* The other attempts and the other rows keep what they had.
LEMMA OthersKept ==
  ASSUME OwnTokens, OwnTokens', AttemptSound, RowsSound, AttemptTypes,
         NEW r \in Runs, NEW f \in 0..MaxFence, f = attempt'[r].f, f = attempt[r].f \/ attempt[r].pc \in {"queued", "lock"},
         OnlyRow(f), OnlyAttempt(r), AttemptFits(r)', f \in Fences => RowFits(f)'
  PROVE  AttemptSound' /\ RowsSound'
<1>1. ASSUME NEW q \in Runs, q # r PROVE AttemptFits(q)'
  <2>1. attempt'[q] = attempt[q]
    BY <1>1 DEF OnlyAttempt
  <2>2. CASE attempt[q].pc \in {"queued", "lock", "over"}
    BY <2>1, <2>2 DEF AttemptFits, Early, Unsent, Sent, Binding
  <2>3. CASE attempt[q].pc \notin {"queued", "lock", "over"}
    <3>1. attempt[q].f # 0 /\ attempt[q].f # f /\ attempt[q].f \in Fences
      BY <1>1, <2>1, <2>3 DEF OwnTokens, Fenced, AttemptTypes, Attempts, Fences
    <3>2. AttemptFits(q)
      BY DEF AttemptSound
    <3> QED BY <2>1, <3>1, <3>2 DEF AttemptFits, OnlyRow, Open
  <2> QED BY <2>2, <2>3
<1>2. ASSUME NEW h \in Fences, h # f PROVE RowFits(h)'
  <2>1. RowFits(h)
    BY DEF RowsSound
  <2>2. ASSUME h \in handles, Open(h) PROVE admission[h].run # r
    BY <1>2, <2>1, <2>2 DEF RowFits
  <2> QED BY <1>2, <2>1, <2>2 DEF RowFits, OnlyRow, OnlyAttempt, Open
<1> QED BY <1>1, <1>2 DEF AttemptSound, RowsSound

\* A round at work is not surprised by the step.
LEMMA RoundKept ==
  ASSUME RoundSound, RoundTypes, AttemptTypes, NEW r \in Runs, NEW f \in 0..MaxFence, f = attempt'[r].f,
         OnlyRow(f), OnlyAttempt(r), UNCHANGED round, f \in Fences => Unsurprising(f)
  PROVE  RoundSound'
<1>1. round.todo \subseteq Fences /\ (round.pc \in Freeing => round.f \in Fences)
  BY SessionAssumption DEF RoundTypes, Rounds, Fences
<1>2. ASSUME NEW h \in Fences, h # f PROVE dispatch'[h] = dispatch[h] /\ (Expirable(h) => Expirable(h)')
  BY <1>2 DEF OnlyRow, OnlyAttempt, Expirable, Unused, Open
<1> QED BY <1>1, <1>2 DEF RoundSound, Unsurprising

\* A step at the attempt's own rows.
LEMMA OwnStep ==
  ASSUME SessionInv, NEW r \in Runs, attempt[r].pc \notin {"queued", "lock", "over"},
         OnlyRow(attempt[r].f), OnlyAttempt(r), attempt'[r].f = attempt[r].f, UNCHANGED <<fence, round>>,
         AttemptFits(r)', RowFits(attempt[r].f)', Unsurprising(attempt[r].f)
  PROVE  FreshTokens' /\ OwnTokens' /\ AttemptSound' /\ RowsSound' /\ RoundSound'
<1>p. RoundTypes /\ AttemptTypes /\ FreshTokens /\ OwnTokens /\ AttemptSound /\ RowsSound /\ RoundSound
  BY TypesSplit DEF SessionInv
<1> DEFINE f == attempt[r].f
<1>a. f \in 0..MaxFence /\ f # 0 /\ f <= fence
  BY <1>p DEF AttemptTypes, Attempts, OwnTokens, Fenced
<1>b. fence \in Int /\ \A h \in Fences : h \in Int
  BY TypesSplit, SessionAssumption DEF SessionInv, LeaseTypes, Fences
<1>1. FreshTokens'
  <2>1. ASSUME NEW h \in Fences, h > fence PROVE Untouched(h)'
    <3>1. h # f /\ Untouched(h)
      BY <1>p, <1>a, <1>b, <2>1 DEF FreshTokens
    <3> QED BY <3>1 DEF Untouched, OnlyRow
  <2> QED BY <2>1 DEF FreshTokens
<1>2. OwnTokens'
  BY <1>p, <1>a DEF OwnTokens, Fenced, OnlyAttempt
<1>3. AttemptSound' /\ RowsSound'
  <2> HIDE DEF f
  <2> QED BY <1>p, <1>a, <1>2, OthersKept DEF f
<1>4. RoundSound'
  BY <1>p, <1>a, RoundKept
<1> QED BY <1>1, <1>2, <1>3, <1>4

\* The round is not surprised by a step that uses what was used, or that the
\* step before found good.
LEMMA Unsurprised ==
  ASSUME OwnTokens, NEW r \in Runs, NEW f, f = attempt[r].f, f # 0, attempt'[r].f = f, OnlyAttempt(r), UNCHANGED round,
         dispatch[f] # "none" => dispatch'[f] # "none",
         dispatch[f] \in {"orphaned", "ended"} => dispatch'[f] = dispatch[f],
         admission[f].state # "none" => admission'[f].state # "none" /\ admission'[f].live = admission[f].live,
         Open(f)' /\ (dispatch'[f] \in ActiveDispatch \/ attempt'[r].pc \in Binding) =>
           \/ admission[f].live \/ admission[f].state = "none"
           \/ Open(f) /\ (dispatch[f] \in ActiveDispatch \/ attempt[r].pc \in Binding)
  PROVE  Unsurprising(f)
<1>1. ASSUME Expirable(f) PROVE Expirable(f)'
  <2>1. ASSUME f \notin round.busy PROVE Unused(f)'
    <3>1. Unused(f)
      BY <1>1, <2>1 DEF Expirable
    <3>2. \A q \in Runs : attempt'[q].f = f => q = r
      BY DEF OwnTokens, OnlyAttempt
    <3>3. Open(f)' => dispatch'[f] \notin ActiveDispatch /\ attempt'[r].pc \notin Binding
      BY <1>1, <3>1 DEF Unused, Expirable
    <3> QED BY <3>2, <3>3 DEF Unused
  <2> QED BY <1>1, <2>1 DEF Expirable
<1> QED BY <1>1 DEF Unsurprising

\* A step of a dispatcher.
LEMMA DispatcherKeeps ==
  ASSUME SessionInv, NEW r \in Runs, DispatcherStep(r)
  PROVE  FreshTokens' /\ OwnTokens' /\ AttemptSound' /\ RowsSound' /\ RoundSound'
<1>p. LeaseTypes /\ HostTypes /\ MemoryTypes /\ AttemptTypes /\ OutboxTypes /\ RoundTypes
  BY TypesSplit DEF SessionInv
<1>i. FreshTokens /\ OwnTokens /\ AttemptSound /\ RowsSound /\ RoundSound
  BY DEF SessionInv
<1> DEFINE f == attempt[r].f
<1>a. attempt[r] \in Attempts /\ f \in 0..MaxFence /\ AttemptFits(r)
  BY <1>p, <1>i DEF AttemptTypes, Attempts, AttemptSound
<1>n. attempt[r].pc \notin {"queued", "lock", "over"} => f \in Fences /\ f <= fence /\ f # 0 /\ RowFits(f)
  BY <1>a, <1>i, SessionAssumption DEF OwnTokens, Fenced, Fences, RowsSound
<1>t. fence \in 0..MaxFence /\ fence \in Int /\ (\A h \in Fences : h \in Int)
  BY <1>p, SessionAssumption DEF LeaseTypes, Fences
<1>1. CASE AcquireLock(r)
  <2>1. CASE Goes(r, "queued") /\ UNCHANGED <<fence, lock>>
    <3>1. attempt'[r].pc = "queued" /\ attempt'[r].f = f /\ OnlyAttempt(r) /\ OnlyRow(f) /\ UNCHANGED round
      BY <1>1, <1>p, <2>1, AttemptMoves DEF AcquireLock, OnlyAttempt, OnlyRow, outbox, hostVars, memory
    <3>2. FreshTokens' /\ UNCHANGED <<fence, admission, slot, dispatch, exec, tracked, handles>>
      BY <1>1, <1>i, <2>1 DEF AcquireLock, FreshTokens, Untouched, hostVars, memory
    <3>3. OwnTokens'
      BY <1>i, <3>1, <3>2 DEF OwnTokens, Fenced, OnlyAttempt
    <3>4. AttemptFits(r)' /\ (f \in Fences => Unsurprising(f))
      BY <1>p, <3>1, <3>2 DEF AttemptFits, Early, Unsent, Sent, Binding, Unsurprising, Expirable, Unused, Open,
         OnlyAttempt
    <3>5. f \in Fences => RowFits(f)'
      BY <1>1, <1>i, <1>a, <3>1, <3>2 DEF RowsSound, RowFits, OnlyAttempt, Open, AcquireLock
    <3> QED BY <1>p, <1>i, <1>a, <1>1, <3>1, <3>2, <3>3, <3>4, <3>5, OthersKept, RoundKept DEF AcquireLock
  <2>2. CASE /\ fence < MaxFence /\ fence' = fence + 1
             /\ attempt' = [attempt EXCEPT ![r].pc = "insert", ![r].f = fence + 1]
    <3>0. PICK g \in 0..MaxFence : g = fence + 1
      BY <1>t, <2>2, SessionAssumption
    <3>1. attempt'[r].pc = "insert" /\ attempt'[r].f = g /\ OnlyAttempt(r) /\ OnlyRow(g) /\ UNCHANGED round
      BY <1>1, <1>p, <2>2, <3>0 DEF AcquireLock, OnlyAttempt, OnlyRow, AttemptTypes, Attempts, hostVars, memory
    <3>2. UNCHANGED <<admission, slot, dispatch, exec, tracked, handles>> /\ fence' = g
      BY <1>1, <2>2, <3>0 DEF AcquireLock, hostVars, memory
    <3>3. g \in Fences /\ g > fence /\ g \in 0..MaxFence
      BY <1>t, <2>2, <3>0, SessionAssumption DEF Fences
    <3>4. FreshTokens' /\ Untouched(g)
      <4>1. Untouched(g)
        BY <1>i, <3>3 DEF FreshTokens
      <4>2. ASSUME NEW h \in Fences, h > fence' PROVE Untouched(h)'
        <5>1. h > fence
          BY <1>t, <3>0, <3>2, <4>2
        <5>2. Untouched(h)
          BY <1>i, <4>2, <5>1 DEF FreshTokens
        <5> QED BY <3>2, <5>2 DEF Untouched
      <4> QED BY <4>1, <4>2 DEF FreshTokens
    <3>5. \A q \in Runs : attempt[q].f <= fence /\ attempt[q].f \in Int
      BY <1>p, <1>i, SessionAssumption DEF OwnTokens, AttemptTypes, Attempts
    <3>6. OwnTokens'
      BY <1>i, <1>t, <3>1, <3>2, <3>3, <3>5, <3>0 DEF OwnTokens, Fenced, OnlyAttempt
    <3>7. AttemptFits(r)'
      BY <3>1, <3>2, <3>4 DEF AttemptFits, Untouched, Early, Unsent, Sent, Binding, Open
    <3>8. RowFits(g)' /\ Unsurprising(g)
      <4>1. RowFits(g)'
        BY <3>2, <3>4 DEF RowFits, Untouched, Open, ActiveDispatch, PreAccept
      <4>2. Unsurprising(g)
        BY <3>2, <3>4 DEF Unsurprising, Expirable, Untouched
      <4> QED BY <4>1, <4>2
    <3>9. AttemptSound' /\ RowsSound'
      BY <1>p, <1>i, <1>1, <3>1, <3>3, <3>6, <3>7, <3>8, OthersKept DEF AcquireLock
    <3>10. RoundSound'
      BY <1>p, <1>i, <3>1, <3>3, <3>8, RoundKept
    <3> QED BY <3>4, <3>6, <3>9, <3>10
  <2> QED BY <1>1, <2>1, <2>2 DEF AcquireLock
<1>2. CASE InsertAdmission(r)
  <2>1. attempt[r].pc = "insert" /\ f \in Fences /\ f <= fence /\ f # 0 /\ RowFits(f) /\ AttemptFits(r)
    BY <1>2, <1>n, <1>a DEF InsertAdmission
  <2>2. /\ OnlyAttempt(r) /\ OnlyRow(f) /\ UNCHANGED <<fence, round>> /\ attempt'[r].f = f
        /\ \/ /\ admission'[f].state = "acquired" /\ admission'[f].run = r /\ admission'[f].by = attempt[r].by
              /\ attempt'[r].pc = "slot" /\ attempt'[r].by = attempt[r].by
           \/ admission' = admission /\ attempt'[r].pc = "queued" /\ handles' = handles
        /\ UNCHANGED <<slot, dispatch, exec, tracked>>
    BY <1>2, <1>p, <2>1, AttemptMoves DEF InsertAdmission, OnlyAttempt, OnlyRow, hostVars, memory, leaseVars,
       LeaseTypes, Admissions
  <2>3. AttemptFits(r)' /\ RowFits(f)'
    BY <2>1, <2>2 DEF AttemptFits, RowFits, Early, Unsent, Sent, Binding, Open, ActiveDispatch, PreAccept, Held
  <2>4. Unsurprising(f)
    BY <1>i, <2>1, <2>2, Unsurprised DEF AttemptFits, Open, Early, Binding, ActiveDispatch, PreAccept
  <2> QED BY <2>1, <2>2, <2>3, <2>4, OwnStep
<1>3. CASE TryReserveSlot(r)
  <2>1. attempt[r].pc = "slot" /\ f \in Fences /\ f <= fence /\ f # 0 /\ RowFits(f) /\ AttemptFits(r)
    BY <1>3, <1>n, <1>a DEF TryReserveSlot
  <2>2. /\ OnlyAttempt(r) /\ OnlyRow(f) /\ UNCHANGED <<fence, round>> /\ attempt'[r].f = f
        /\ \/ slot'[f] = [state |-> "reserved", live |-> TRUE] /\ attempt'[r].pc = "assertSlot"
           \/ slot'[f] = slot[f] /\ attempt'[r].pc = "unsession"
        /\ attempt'[r].by = attempt[r].by
        /\ UNCHANGED <<admission, dispatch, exec, tracked, handles>>
    BY <1>3, <1>p, <2>1, AttemptMoves DEF TryReserveSlot, OnlyAttempt, OnlyRow, hostVars, memory, leaseVars,
       LeaseTypes
  <2>3. AttemptFits(r)' /\ RowFits(f)'
    BY <2>1, <2>2 DEF AttemptFits, RowFits, Early, Unsent, Sent, Binding, Open, ActiveDispatch, PreAccept
  <2>4. Unsurprising(f)
    BY <1>i, <2>1, <2>2, Unsurprised DEF AttemptFits, Open, Early, Binding, ActiveDispatch, PreAccept
  <2> QED BY <2>1, <2>2, <2>3, <2>4, OwnStep
<1>4. CASE AssertBeforeBind(r)
  <2>1. attempt[r].pc \in {"assertSlot", "assertDispatch"} /\ f \in Fences /\ f <= fence /\ f # 0 /\ RowFits(f) /\ AttemptFits(r)
    BY <1>4, <1>n, <1>a DEF AssertBeforeBind
  <2>2. /\ OnlyAttempt(r) /\ OnlyRow(f) /\ UNCHANGED <<fence, round>> /\ attempt'[r].f = f
        /\ \/ attempt'[r].pc = "unslot"
           \/ attempt[r].pc = "assertSlot" /\ attempt'[r].pc = "bindSlot" /\ AssertActive(f)
           \/ attempt[r].pc = "assertDispatch" /\ attempt'[r].pc = "bindDispatch"
        /\ attempt'[r].by = attempt[r].by
        /\ UNCHANGED <<admission, slot, dispatch, exec, tracked, handles>>
    BY <1>4, <1>p, <2>1, AttemptMoves DEF AssertBeforeBind, OnlyAttempt, OnlyRow, hostVars, memory, leaseVars
  <2>3. AttemptFits(r)' /\ RowFits(f)'
    BY <2>1, <2>2 DEF AttemptFits, RowFits, Early, Unsent, Sent, Binding, Open, AssertActive, Bound
  <2>4. Unsurprising(f)
    BY <1>i, <2>1, <2>2, Unsurprised DEF AttemptFits, Open, Early, Binding, AssertActive
  <2> QED BY <2>1, <2>2, <2>3, <2>4, OwnStep
<1>5. CASE BindReservation(r)
  <2>1. attempt[r].pc = "bindSlot" /\ f \in Fences /\ f <= fence /\ f # 0 /\ RowFits(f) /\ AttemptFits(r)
    BY <1>5, <1>n, <1>a DEF BindReservation
  <2>2. /\ OnlyAttempt(r) /\ OnlyRow(f) /\ UNCHANGED <<fence, round>> /\ attempt'[r].f = f
        /\ admission'[f].run = admission[f].run /\ admission'[f].by = admission[f].by
        /\ admission'[f].live = admission[f].live
        /\ \/ admission'[f].state = "reservation_bound" /\ attempt'[r].pc = "bindHost"
           \/ admission'[f].state = admission[f].state /\ attempt'[r].pc = "unslot"
        /\ attempt'[r].by = attempt[r].by
        /\ UNCHANGED <<slot, dispatch, exec, tracked, handles>>
    BY <1>5, <1>p, <2>1, AttemptMoves DEF BindReservation, OnlyAttempt, OnlyRow, hostVars, memory, leaseVars,
       Bind, LeaseTypes, Admissions
  <2>3. AttemptFits(r)' /\ RowFits(f)'
    BY <2>1, <2>2 DEF AttemptFits, RowFits, Early, Unsent, Sent, Binding, Open, ActiveDispatch, PreAccept, Held
  <2>4. Unsurprising(f)
    BY <1>i, <2>1, <2>2, Unsurprised DEF AttemptFits, Open, Early, Binding, ActiveDispatch, PreAccept
  <2> QED BY <2>1, <2>2, <2>3, <2>4, OwnStep
<1>6. CASE BindProductSessionHost(r)
  <2>1. attempt[r].pc = "bindHost" /\ f \in Fences /\ f <= fence /\ f # 0 /\ RowFits(f) /\ AttemptFits(r)
    BY <1>6, <1>n, <1>a DEF BindProductSessionHost
  <2>2. /\ OnlyAttempt(r) /\ OnlyRow(f) /\ UNCHANGED <<fence, round>> /\ attempt'[r].f = f
        /\ attempt'[r].pc \in {"create", "unslot"} /\ attempt'[r].by = attempt[r].by
        /\ UNCHANGED <<admission, slot, dispatch, exec, tracked, handles>>
    BY <1>6, <1>p, <2>1, AttemptMoves DEF BindProductSessionHost, OnlyAttempt, OnlyRow, hostVars, memory,
       leaseVars
  <2>3. AttemptFits(r)' /\ RowFits(f)'
    BY <2>1, <2>2 DEF AttemptFits, RowFits, Early, Unsent, Sent, Binding, Open
  <2>4. Unsurprising(f)
    BY <1>i, <2>1, <2>2, Unsurprised DEF AttemptFits, Open, Early, Binding
  <2> QED BY <2>1, <2>2, <2>3, <2>4, OwnStep
<1>7. CASE CreateDispatch(r)
  <2>1. attempt[r].pc = "create" /\ f \in Fences /\ f <= fence /\ f # 0 /\ RowFits(f) /\ AttemptFits(r)
    BY <1>7, <1>n, <1>a DEF CreateDispatch
  <2>2. /\ OnlyAttempt(r) /\ OnlyRow(f) /\ UNCHANGED <<fence, round>> /\ attempt'[r].f = f
        /\ \/ /\ dispatch'[f] = "created" /\ attempt'[r].pc = "assertDispatch" /\ slot[f].state = "reserved"
           \/ dispatch'[f] = dispatch[f] /\ attempt'[r].pc = "unslot"
        /\ attempt'[r].by = attempt[r].by
        /\ UNCHANGED <<admission, slot, exec, tracked, handles>>
    BY <1>7, <1>p, <2>1, AttemptMoves DEF CreateDispatch, OnlyAttempt, OnlyRow, hostVars, memory, leaseVars,
       HostTypes
  <2>3. AttemptFits(r)' /\ RowFits(f)'
    BY <2>1, <2>2 DEF AttemptFits, RowFits, Early, Unsent, Sent, Binding, Open
  <2>4. Unsurprising(f)
    BY <1>i, <2>1, <2>2, Unsurprised DEF AttemptFits, Open, Early, Binding
  <2> QED BY <2>1, <2>2, <2>3, <2>4, OwnStep
<1>8. CASE BindDispatch(r)
  <2>1. attempt[r].pc = "bindDispatch" /\ f \in Fences /\ f <= fence /\ f # 0 /\ RowFits(f) /\ AttemptFits(r)
    BY <1>8, <1>n, <1>a DEF BindDispatch
  <2>2. /\ OnlyAttempt(r) /\ OnlyRow(f) /\ UNCHANGED <<fence, round>> /\ attempt'[r].f = f
        /\ admission'[f].run = admission[f].run /\ admission'[f].by = admission[f].by
        /\ admission'[f].live = admission[f].live
        /\ \/ admission'[f].state = "dispatch_bound" /\ attempt'[r].pc = "track"
           \/ admission'[f].state = admission[f].state /\ attempt'[r].pc = "unslot"
        /\ attempt'[r].by = attempt[r].by
        /\ UNCHANGED <<slot, dispatch, exec, tracked, handles>>
    BY <1>8, <1>p, <2>1, AttemptMoves DEF BindDispatch, OnlyAttempt, OnlyRow, hostVars, memory, leaseVars,
       Bind, LeaseTypes, Admissions
  <2>3. AttemptFits(r)' /\ RowFits(f)'
    BY <2>1, <2>2 DEF AttemptFits, RowFits, Early, Unsent, Sent, Binding, Open, ActiveDispatch, PreAccept, Held
  <2>4. Unsurprising(f)
    BY <1>i, <2>1, <2>2, Unsurprised DEF AttemptFits, Open, Early, Binding, ActiveDispatch, PreAccept
  <2> QED BY <2>1, <2>2, <2>3, <2>4, OwnStep
<1>9. CASE Track(r)
  <2>1. attempt[r].pc = "track" /\ f \in Fences /\ f <= fence /\ f # 0 /\ RowFits(f) /\ AttemptFits(r)
    BY <1>9, <1>n, <1>a DEF Track
  <2>2. /\ OnlyAttempt(r) /\ OnlyRow(f) /\ UNCHANGED <<fence, round>> /\ attempt'[r].f = f
        /\ attempt'[r].pc = "send" /\ attempt'[r].by = attempt[r].by
        /\ UNCHANGED <<admission, slot, dispatch, exec, handles>>
    BY <1>9, <1>p, <2>1, AttemptMoves DEF Track, OnlyAttempt, OnlyRow, hostVars, memory, leaseVars
  <2>3. AttemptFits(r)' /\ RowFits(f)'
    BY <2>1, <2>2 DEF AttemptFits, RowFits, Early, Unsent, Sent, Binding, Open
  <2>4. Unsurprising(f)
    BY <1>i, <2>1, <2>2, Unsurprised DEF AttemptFits, Open, Early, Binding
  <2> QED BY <2>1, <2>2, <2>3, <2>4, OwnStep
<1>10. CASE MarkDispatchSent(r)
  <2>1. attempt[r].pc = "send" /\ f \in Fences /\ f <= fence /\ f # 0 /\ RowFits(f) /\ AttemptFits(r)
    BY <1>10, <1>n, <1>a DEF MarkDispatchSent
  <2>2. /\ OnlyAttempt(r) /\ OnlyRow(f) /\ UNCHANGED <<fence, round>> /\ attempt'[r].f = f
        /\ \/ /\ dispatch[f] = "created" /\ dispatch'[f] = "sent" /\ attempt'[r].pc = "submit"
              /\ slot[f].state = "reserved"
           \/ dispatch'[f] = dispatch[f] /\ attempt'[r].pc = "unslot"
        /\ attempt'[r].by = attempt[r].by
        /\ UNCHANGED <<admission, slot, exec, tracked, handles>>
    BY <1>10, <1>p, <2>1, AttemptMoves DEF MarkDispatchSent, OnlyAttempt, OnlyRow, hostVars, memory, leaseVars,
       HostTypes, AttemptTypes, Attempts
  <2>3. AttemptFits(r)' /\ RowFits(f)'
    BY <2>1, <2>2 DEF AttemptFits, RowFits, Early, Unsent, Sent, Binding, Open, ActiveDispatch, PreAccept
  <2>4. Unsurprising(f)
    BY <1>i, <2>1, <2>2, Unsurprised DEF AttemptFits, Open, Early, Binding, ActiveDispatch, PreAccept
  <2> QED BY <2>1, <2>2, <2>3, <2>4, OwnStep
<1>11. CASE Submit(r)
  <2>1. attempt[r].pc = "submit" /\ f \in Fences /\ f <= fence /\ f # 0 /\ RowFits(f) /\ AttemptFits(r)
    BY <1>11, <1>n, <1>a DEF Submit
  <2>2. /\ OnlyAttempt(r) /\ OnlyRow(f) /\ UNCHANGED <<fence, round>> /\ attempt'[r].f = f
        /\ attempt'[r].pc \in {"accept", "unknown"} /\ attempt'[r].by = attempt[r].by
        /\ UNCHANGED <<admission, slot, dispatch, tracked, handles>>
    BY <1>11, <1>p, <2>1, AttemptMoves DEF Submit, OnlyAttempt, OnlyRow, hostVars, memory, leaseVars, HostTypes
  <2>3. AttemptFits(r)' /\ RowFits(f)'
    BY <2>1, <2>2 DEF AttemptFits, RowFits, Early, Unsent, Sent, Binding, Open
  <2>4. Unsurprising(f)
    BY <1>i, <2>1, <2>2, Unsurprised DEF AttemptFits, Open, Early, Binding
  <2> QED BY <2>1, <2>2, <2>3, <2>4, OwnStep
<1>12. CASE Accept(r)
  <2>1. attempt[r].pc \in {"accept", "unknown"} /\ f \in Fences /\ f <= fence /\ f # 0 /\ RowFits(f) /\ AttemptFits(r)
    BY <1>12, <1>n, <1>a DEF Accept
  <2>2. /\ OnlyAttempt(r) /\ OnlyRow(f) /\ UNCHANGED <<fence, round>> /\ attempt'[r].f = f
        /\ \/ /\ slot[f].state = "reserved" /\ dispatch[f] = "sent"
              /\ slot'[f].state = "accepted" /\ dispatch'[f] = "accepted"
           \/ slot' = slot /\ dispatch'[f] = dispatch[f]
           \/ slot' = slot /\ dispatch[f] = "sent" /\ dispatch'[f] = "submit_unknown"
        /\ attempt'[r].pc = "over"
        /\ UNCHANGED <<admission, exec, tracked, handles>>
    BY <1>12, <1>p, <2>1, AttemptMoves DEF Accept, OnlyAttempt, OnlyRow, hostVars, memory, leaseVars,
       HostTypes, LeaseTypes, Slots
  <2>3. AttemptFits(r)' /\ RowFits(f)'
    BY <2>1, <2>2 DEF AttemptFits, RowFits, Early, Unsent, Sent, Binding, Open, ActiveDispatch, PreAccept
  <2>4. Unsurprising(f)
    BY <1>i, <2>1, <2>2, Unsurprised DEF AttemptFits, Open, Early, Binding, ActiveDispatch, PreAccept
  <2> QED BY <2>1, <2>2, <2>3, <2>4, OwnStep
<1>13. CASE ReleaseReservation(r)
  <2>1. attempt[r].pc = "unslot" /\ f \in Fences /\ f <= fence /\ f # 0 /\ RowFits(f) /\ AttemptFits(r)
    BY <1>13, <1>n, <1>a DEF ReleaseReservation
  <2>2. /\ OnlyAttempt(r) /\ OnlyRow(f) /\ UNCHANGED <<fence, round>> /\ attempt'[r].f = f
        /\ slot'[f].state = "closed" /\ attempt'[r].pc = "unsession" /\ attempt'[r].by = attempt[r].by
        /\ UNCHANGED <<admission, dispatch, exec, handles>>
    BY <1>13, <1>p, <2>1, AttemptMoves DEF ReleaseReservation, OnlyAttempt, OnlyRow, hostVars, memory,
       leaseVars, LeaseTypes, Slots
  <2>3. AttemptFits(r)' /\ RowFits(f)'
    BY <2>1, <2>2 DEF AttemptFits, RowFits, Early, Unsent, Sent, Binding, Open
  <2>4. Unsurprising(f)
    BY <1>i, <2>1, <2>2, Unsurprised DEF AttemptFits, Open, Early, Binding
  <2> QED BY <2>1, <2>2, <2>3, <2>4, OwnStep
<1>14. CASE ReleaseSession(r)
  <2>1. attempt[r].pc = "unsession" /\ f \in Fences /\ f <= fence /\ f # 0 /\ RowFits(f) /\ AttemptFits(r)
    BY <1>14, <1>n, <1>a DEF ReleaseSession
  <2>2. /\ OnlyAttempt(r) /\ OnlyRow(f) /\ UNCHANGED <<fence, round>> /\ attempt'[r].f = f
        /\ admission'[f].state = admission[f].state \/ admission'[f].state = "released"
        /\ admission'[f].run = admission[f].run /\ admission'[f].by = admission[f].by
        /\ admission'[f].live = admission[f].live
        /\ attempt'[r].pc \in {"queued", "over"}
        /\ UNCHANGED <<slot, dispatch, exec, tracked, handles>>
    <3>1. Release(f, attempt[r].by) /\ (Goes(r, "queued") \/ Goes(r, "over"))
      BY <1>14 DEF ReleaseSession
    <3> QED BY <1>14, <1>p, <2>1, <3>1, AttemptMoves, ReleaseEnds DEF ReleaseSession, OnlyAttempt, OnlyRow,
       hostVars, memory
  <2>3. AttemptFits(r)' /\ RowFits(f)'
    BY <2>1, <2>2 DEF AttemptFits, RowFits, Early, Unsent, Sent, Binding, Open
  <2>4. Unsurprising(f)
    BY <1>i, <2>1, <2>2, Unsurprised DEF AttemptFits, Open, Early, Binding
  <2> QED BY <2>1, <2>2, <2>3, <2>4, OwnStep
<1> QED BY <1>1, <1>2, <1>3, <1>4, <1>5, <1>6, <1>7, <1>8, <1>9, <1>10, <1>11, <1>12, <1>13,
   <1>14 DEF DispatcherStep

-------------------------------------------------------------------------------
(* The steps of leases, Hosts, drains and rounds *)

\* Every attempt stays where it is.
Steady == \A q \in Runs : attempt'[q].pc = attempt[q].pc /\ attempt'[q].f = attempt[q].f /\ attempt'[q].by = attempt[q].by

\* The rows of token h lose only what nobody needs.
Eases(h) ==
  /\ admission'[h].run = admission[h].run /\ admission'[h].by = admission[h].by
  /\ admission'[h].state = "none" <=> admission[h].state = "none"
  /\ admission[h].state \in Held => admission'[h].state \in Held \/ Unused(h)'
  /\ Open(h)' => Open(h)
  /\ slot'[h].state = slot[h].state \/ dispatch[h] # "none" \/ Open(h)
  /\ dispatch'[h] = dispatch[h] \/ (dispatch[h] # "none" /\ dispatch'[h] \notin {"none", "created"})
  /\ dispatch[h] \in {"orphaned", "ended"} => dispatch'[h] = dispatch[h]
  /\ dispatch'[h] \in ActiveDispatch => dispatch[h] \in ActiveDispatch
  /\ dispatch'[h] \in ActiveDispatch /\ dispatch[h] # "created" /\ Open(h) => Open(h)'
  /\ exec[h] = "none" => exec'[h] = "none"
  /\ exec'[h] = "running" => exec[h] = "running"
  /\ h \in tracked' => h \in tracked
  /\ h \in handles' => h \in handles

\* An attempt whose Dispatch exists is past its creation.
LEMMA NotEarly ==
  ASSUME SessionInv, NEW h \in Fences, dispatch[h] # "none" \/ h \in tracked, NEW q \in Runs, attempt[q].f = h
  PROVE  attempt[q].pc \notin Early
<1>1. AttemptFits(q)
  BY DEF SessionInv, AttemptSound
<1> QED BY <1>1 DEF AttemptFits

\* A step under which every row eases keeps what is said of rows and attempts.
LEMMA SteadyKeeps ==
  ASSUME SessionInv, Steady, UNCHANGED fence, \A h \in Fences : Eases(h)
  PROVE  FreshTokens' /\ OwnTokens' /\ AttemptSound' /\ RowsSound'
<1>p. AttemptTypes /\ FreshTokens /\ OwnTokens /\ AttemptSound /\ RowsSound
  BY TypesSplit DEF SessionInv
<1>1. FreshTokens'
  <2>1. ASSUME NEW h \in Fences, h > fence PROVE Untouched(h)'
    <3>1. Untouched(h) /\ Eases(h)
      BY <1>p, <2>1 DEF FreshTokens
    <3> QED BY <3>1 DEF Untouched, Eases, Open
  <2> QED BY <2>1 DEF FreshTokens
<1>2. OwnTokens'
  BY <1>p DEF OwnTokens, Fenced, Steady
<1>3. ASSUME NEW q \in Runs PROVE AttemptFits(q)'
  <2>1. CASE attempt[q].pc \in {"queued", "lock", "over"}
    BY <2>1 DEF AttemptFits, Early, Unsent, Sent, Binding, Steady
  <2>2. CASE attempt[q].pc \notin {"queued", "lock", "over"}
    <3>1. PICK h \in Fences : h = attempt[q].f
      BY <1>p, <2>2 DEF OwnTokens, Fenced, AttemptTypes, Attempts, Fences
    <3>2. AttemptFits(q) /\ Eases(h) /\ attempt'[q].f = h /\ attempt'[q].pc = attempt[q].pc /\ attempt'[q].by = attempt[q].by
      BY <1>p, <3>1 DEF AttemptSound, Steady
    <3>3. attempt'[q].pc = "insert" => admission'[h].state = "none" /\ h \notin handles'
      BY <3>1, <3>2 DEF AttemptFits, Eases
    <3>4. attempt'[q].pc \in {"insert", "slot"} => slot'[h].state = "none"
      BY <3>1, <3>2 DEF AttemptFits, Eases, Early, Open
    <3>5. attempt'[q].pc \in Early => dispatch'[h] = "none" /\ h \notin tracked'
      BY <3>1, <3>2 DEF AttemptFits, Eases
    <3>6. attempt'[q].pc \in Early \cup Unsent => exec'[h] = "none"
      BY <3>1, <3>2 DEF AttemptFits, Eases
    <3>7. attempt'[q].pc = "unsession" => ~ Open(h)'
      BY <3>1, <3>2 DEF AttemptFits, Eases
    <3>8. attempt'[q].pc \in (Early \ {"insert"}) \cup Unsent \cup Sent =>
            admission'[h].run = q /\ admission'[h].by = attempt'[q].by /\ admission'[h].state # "none"
      BY <3>1, <3>2 DEF AttemptFits, Eases
    <3>9. attempt'[q].pc \in Sent =>
            dispatch'[h] \notin {"none", "created"} /\ (dispatch'[h] \in ActiveDispatch => Open(h)')
      BY <3>1, <3>2 DEF AttemptFits, Eases
    <3>10. attempt'[q].pc \in Binding /\ Open(h)' => admission'[h].state \in Held
      BY <3>1, <3>2 DEF AttemptFits, Eases, Unused
    <3> QED BY <3>2, <3>3, <3>4, <3>5, <3>6, <3>7, <3>8, <3>9, <3>10 DEF AttemptFits
  <2> QED BY <2>1, <2>2
<1>4. ASSUME NEW h \in Fences PROVE RowFits(h)'
  <2>1. RowFits(h) /\ Eases(h)
    BY <1>p DEF RowsSound
  <2>2. exec'[h] # "none" => dispatch'[h] \notin {"none", "created"}
    BY <2>1 DEF RowFits, Eases
  <2>3. exec'[h] = "running" /\ dispatch'[h] \in ActiveDispatch => Open(h)'
    BY <2>1 DEF RowFits, Eases
  <2>4. dispatch'[h] \in ActiveDispatch /\ Open(h)' => admission'[h].state \in Held
    BY <2>1 DEF RowFits, Eases, Unused
  <2>5. h \in handles' /\ Open(h)' =>
          /\ admission'[h].run \in Runs
          /\ attempt'[admission'[h].run].f = h
          /\ attempt'[admission'[h].run].pc \notin {"queued", "lock", "insert"}
    BY <2>1 DEF RowFits, Eases, Steady
  <2>6. h \in tracked' => admission'[h].state # "none"
    BY <2>1 DEF RowFits, Eases
  <2> QED BY <2>2, <2>3, <2>4, <2>5, <2>6 DEF RowFits
<1> QED BY <1>1, <1>2, <1>3, <1>4 DEF AttemptSound, RowsSound

\* What expires stays so, unless its lease is taken again.
LEMMA StillExpirable ==
  ASSUME Steady, NEW h \in Fences, Eases(h), Expirable(h), admission'[h].live => admission[h].live,
         h \in round.busy => h \in round'.busy
  PROVE  Expirable(h)'
BY DEF Steady, Eases, Expirable, Unused

\* A round that stays where it is, or has done with some of its rows.
LEMMA RoundStays ==
  ASSUME RoundSound, RoundTypes, Steady, \A h \in Fences : Eases(h),
         round'.pc = round.pc, round'.f = round.f, round'.todo \subseteq round.todo,
         \A h \in round'.todo : /\ admission'[h].live => admission[h].live
                                /\ h \in round.busy => h \in round'.busy
  PROVE  RoundSound'
<1>1. round.todo \subseteq Fences /\ (round.pc \in Freeing => round.f \in Fences)
  BY SessionAssumption DEF RoundTypes, Rounds, Fences
<1>2. round.pc \in Freeing => dispatch'[round.f] \in {"orphaned", "ended"}
  BY <1>1 DEF RoundSound, Eases
<1>3. \A h \in Fences : Eases(h) => (dispatch[h] # "none" => dispatch'[h] # "none")
  BY DEF Eases
<1>4. \A h \in Fences : Eases(h) => (dispatch[h] \in {"orphaned", "ended"} => dispatch'[h] = dispatch[h])
  BY DEF Eases
<1>5. round.pc = "recover" => \A h \in round'.todo : Expirable(h)'
  BY <1>1, StillExpirable DEF RoundSound
<1> QED BY <1>1, <1>2, <1>3, <1>4, <1>5 DEF RoundSound

\* A round at rest has read nothing.
LEMMA RoundRests ==
  ASSUME round' = AtRest
  PROVE  RoundSound'
BY DEF AtRest, RoundSound, Freeing

\* The invariant without its types.
Kept == FreshTokens /\ OwnTokens /\ AttemptSound /\ RowsSound /\ RoundSound

\* A step that touches none of it.
LEMMA FrameKeeps ==
  ASSUME SessionInv, UNCHANGED <<fence, admission, slot, dispatch, exec, tracked, handles, attempt, round>>
  PROVE  Kept'
<1>1. Kept
  BY DEF SessionInv, Kept
<1>2. \A f \in Fences : Untouched(f) => Untouched(f)'
  BY DEF Untouched
<1>3. \A r \in Runs : AttemptFits(r) => AttemptFits(r)'
  BY DEF AttemptFits, Open
<1>4. \A f \in Fences : RowFits(f) => RowFits(f)'
  BY DEF RowFits, Open
<1>5. \A f : Expirable(f) => Expirable(f)'
  BY DEF Expirable, Unused, Open
<1> QED BY <1>1, <1>2, <1>3, <1>4, <1>5 DEF Kept, FreshTokens, OwnTokens, Fenced, AttemptSound, RowsSound,
   RoundSound

\* A step under which the attempts stay and every row eases.
LEMMA EasyKeeps ==
  ASSUME SessionInv, UNCHANGED <<fence, attempt, round>>, \A h \in Fences : Eases(h),
         \A h \in Fences : admission'[h].live => admission[h].live
  PROVE  Kept'
<1>1. Steady /\ RoundTypes /\ RoundSound /\ round.todo \subseteq Fences
  BY TypesSplit DEF SessionInv, Steady, RoundTypes, Rounds
<1>2. RoundSound'
  BY <1>1, RoundStays
<1> QED BY <1>1, <1>2, SteadyKeeps DEF Kept

\* Leases lapse, heartbeats fail, Hosts finish, leave and return.
LEMMA LeasesKeep ==
  ASSUME SessionInv, LeaseStep \/ HostStep
  PROVE  Kept'
<1>p. LeaseTypes /\ HostTypes /\ MemoryTypes /\ AttemptTypes /\ OutboxTypes /\ RoundTypes
  BY TypesSplit DEF SessionInv
<1>1. ASSUME NEW g \in Gens, LockLapses(g) PROVE Kept'
  BY <1>1, FrameKeeps DEF LockLapses, hostVars, memory
<1>2. ASSUME NEW f \in Fences, AdmissionLapses(f) PROVE Kept'
  <2>1. UNCHANGED <<fence, attempt, round, slot, dispatch, exec, tracked, handles>>
    BY <1>2 DEF AdmissionLapses, hostVars, memory
  <2>2. \A h \in Fences : /\ admission'[h].state = admission[h].state /\ admission'[h].run = admission[h].run
                          /\ admission'[h].by = admission[h].by /\ (admission'[h].live => admission[h].live)
    BY <1>2, <1>p DEF AdmissionLapses, LeaseTypes, Admissions
  <2>3. \A h \in Fences : Eases(h)
    BY <2>1, <2>2 DEF Eases, Open
  <2> QED BY <2>1, <2>2, <2>3, EasyKeeps
<1>3. ASSUME NEW f \in Fences, SlotLapses(f) PROVE Kept'
  <2>1. UNCHANGED <<fence, attempt, round, admission, dispatch, exec, tracked, handles>>
    BY <1>3 DEF SlotLapses, hostVars, memory
  <2>2. \A h \in Fences : slot'[h].state = slot[h].state
    BY <1>3, <1>p DEF SlotLapses, LeaseTypes, Slots
  <2>3. \A h \in Fences : Eases(h)
    BY <2>1, <2>2 DEF Eases, Open
  <2> QED BY <2>1, <2>3, EasyKeeps
<1>4. ASSUME NEW f \in Fences, HeartbeatFails(f) PROVE Kept'
  <2>1. /\ UNCHANGED <<fence, attempt, round, slot, exec, handles>> /\ f \in tracked
        /\ \A h \in Fences : h \in tracked' => h \in tracked
    BY <1>4, <1>p DEF HeartbeatFails, MemoryTypes
  <2>2. CASE dispatch[f] \in ActiveDispatch /\ dispatch' = [dispatch EXCEPT ![f] = "recovering"] /\ UNCHANGED admission
    <3>1. \A h \in Fences : dispatch'[h] = dispatch[h] \/ (dispatch[h] \in ActiveDispatch /\ dispatch'[h] = "recovering")
      BY <1>p, <2>2 DEF HostTypes
    <3>2. \A h \in Fences : Eases(h)
      BY <2>1, <2>2, <3>1 DEF Eases, Open, ActiveDispatch, PreAccept
    <3> QED BY <2>1, <2>2, <3>2, EasyKeeps
  <2>3. CASE dispatch[f] \notin ActiveDispatch /\ Release(f, admission[f].by) /\ UNCHANGED dispatch
    <3>1. admission[f].state # "none"
      BY <2>1 DEF SessionInv, RowsSound, RowFits
    <3>2. Unused(f)'
      BY <2>1, <2>3, NotEarly DEF Unused, Early, Binding
    <3>3. /\ admission'[f].state = admission[f].state \/ admission'[f].state = "released"
          /\ \A h \in Fences : /\ h # f => admission'[h] = admission[h]
                               /\ admission'[h].run = admission[h].run /\ admission'[h].by = admission[h].by
                               /\ admission'[h].live = admission[h].live
      BY <1>p, <2>3, ReleaseEnds
    <3>4. \A h \in Fences : Eases(h)
      BY <2>1, <2>3, <3>1, <3>2, <3>3 DEF Eases, Open
    <3> QED BY <2>1, <3>3, <3>4, EasyKeeps
  <2> QED BY <1>4, <2>2, <2>3 DEF HeartbeatFails
<1>5. ASSUME NEW f \in Fences, ClaimLapses(f) PROVE Kept'
  BY <1>5, FrameKeeps DEF ClaimLapses, leaseVars, hostVars, memory
<1>6. ASSUME NEW f \in Fences, HostFinishes(f) PROVE Kept'
  <2>1. UNCHANGED <<fence, attempt, round, admission, slot, dispatch, tracked, handles>>
    BY <1>6 DEF HostFinishes, leaseVars, memory
  <2>2. \A h \in Fences : exec'[h] = exec[h] \/ (exec[h] = "running" /\ exec'[h] = "ended")
    BY <1>6, <1>p DEF HostFinishes, HostTypes
  <2>3. \A h \in Fences : Eases(h)
    BY <2>1, <2>2 DEF Eases, Open
  <2> QED BY <2>1, <2>3, EasyKeeps
<1>7. CASE HostGoesOffline
  <2>1. UNCHANGED <<fence, attempt, round, admission, slot, dispatch, tracked, handles>>
    BY <1>7 DEF HostGoesOffline, leaseVars, memory
  <2>2. \A h \in Fences : exec'[h] = exec[h] \/ exec'[h] = "none"
    BY <1>7, <1>p DEF HostGoesOffline, HostTypes
  <2>3. \A h \in Fences : Eases(h)
    BY <2>1, <2>2 DEF Eases, Open
  <2> QED BY <2>1, <2>3, EasyKeeps
<1>8. CASE HostReturns
  BY <1>8, FrameKeeps DEF HostReturns, leaseVars, memory
<1> QED BY <1>1, <1>2, <1>3, <1>4, <1>5, <1>6, <1>7, <1>8 DEF LeaseStep, HostStep

\* A drain drops at most a handle.
LEMMA DrainsKeep ==
  ASSUME SessionInv, NEW p \in Procs, CleanupStep(p) \/ RetryCleanup(p)
  PROVE  Kept'
<1>1. ASSUME NEW f \in Fences, ClaimCleanup(p, f) PROVE Kept'
  BY <1>1, FrameKeeps DEF ClaimCleanup, leaseVars, hostVars, memory
<1>2. CASE NothingToClaim(p)
  BY <1>2, FrameKeeps DEF NothingToClaim, leaseVars, hostVars, memory
<1>3. CASE ReleaseLeaseByProof(p)
  BY <1>3, FrameKeeps DEF ReleaseLeaseByProof, hostVars, memory
<1>4. CASE CompleteCleanup(p)
  <2>1. /\ UNCHANGED <<fence, admission, slot, dispatch, exec, tracked, handles, attempt>>
        /\ round' = round \/ round' = AtRest
    BY <1>4 DEF CompleteCleanup, leaseVars, hostVars, memory
  <2>2. (\A h \in Fences : Eases(h)) /\ Steady
    BY <2>1 DEF Eases, Open, Steady
  <2>3. RoundSound'
    <3>1. CASE round' = round
      <4>1. RoundTypes /\ RoundSound /\ round.todo \subseteq Fences
        BY TypesSplit DEF SessionInv, RoundTypes, Rounds
      <4> QED BY <2>1, <2>2, <3>1, <4>1, RoundStays
    <3> QED BY <2>1, <3>1, RoundRests
  <2> QED BY <2>1, <2>2, <2>3, SteadyKeeps DEF Kept
<1>5. CASE RetryCleanup(p)
  BY <1>5, FrameKeeps DEF RetryCleanup, leaseVars, hostVars, memory
<1> QED BY <1>1, <1>2, <1>3, <1>4, <1>5 DEF CleanupStep

-------------------------------------------------------------------------------
(* The steps of a round and of a process *)

\* A step that only moves the round.
LEMMA QuietKeeps ==
  ASSUME SessionInv, UNCHANGED <<fence, admission, slot, dispatch, exec, tracked, handles, attempt>>, RoundSound'
  PROVE  Kept'
<1>1. (\A h \in Fences : Eases(h)) /\ Steady
  BY DEF Eases, Open, Steady
<1> QED BY <1>1, SteadyKeeps DEF Kept

\* Orphaning costs the attempt nothing but its Slot and its Dispatch.
LEMMA OrphanEases ==
  ASSUME SessionInv, NEW f \in Fences, dispatch[f] # "none", Orphan(f),
         UNCHANGED <<fence, admission, exec, tracked, handles>>
  PROVE  Steady /\ (\A h \in Fences : Eases(h)) /\ dispatch'[f] \in {"orphaned", "ended"}
<1>p. LeaseTypes /\ HostTypes /\ AttemptTypes
  BY TypesSplit DEF SessionInv
<1>1. Steady
  BY <1>p DEF Orphan, Steady, AttemptTypes, Attempts
<1>2. /\ dispatch'[f] \in {"orphaned", "ended"}
      /\ \A h \in Fences : /\ h # f => dispatch'[h] = dispatch[h] /\ slot'[h] = slot[h]
                           /\ dispatch'[h] = dispatch[h] \/ (dispatch[h] \in ActiveDispatch /\ dispatch'[h] = "orphaned")
      /\ slot'[f].state = "closed"
  BY <1>p DEF Orphan, HostTypes, LeaseTypes, DispatchStates, Slots
<1>3. \A h \in Fences : Eases(h)
  BY <1>2 DEF Eases, Open, ActiveDispatch, PreAccept
<1> QED BY <1>1, <1>2, <1>3

\* The rows of a round are known to it.
LEMMA RoundWork ==
  ASSUME RoundTypes
  PROVE  round.todo \subseteq Fences /\ (round.pc \in Freeing => round.f \in Fences)
BY SessionAssumption DEF RoundTypes, Rounds, Fences

\* A round that goes on after a session was freed, or has another to free.
LEMMA RoundFrees ==
  ASSUME RoundTypes, RoundSound, Steady, \A h \in Fences : Eases(h),
         \/ round.pc \in Freeing /\ round'.pc = After(round.pc) /\ round'.todo \subseteq round.todo
         \/ /\ round.pc \in {"sweep", "stale", "orphans"} /\ round'.todo = round.todo
            /\ After(round'.pc) = round.pc /\ round'.pc \in Freeing
            /\ dispatch'[round'.f] \in {"orphaned", "ended"}
  PROVE  RoundSound'
<1>1. round.todo \subseteq Fences
  BY RoundWork
<1>2. \A h \in Fences : /\ dispatch[h] # "none" => dispatch'[h] # "none"
                        /\ dispatch[h] \in {"orphaned", "ended"} => dispatch'[h] \in {"orphaned", "ended"}
  BY DEF Eases
<1> QED BY <1>1, <1>2 DEF RoundSound, After, Freeing

\* The steps of a round.
LEMMA RoundKeeps ==
  ASSUME SessionInv, RoundStep
  PROVE  Kept'
<1>p. LeaseTypes /\ HostTypes /\ AttemptTypes /\ RoundTypes /\ RoundSound
  BY TypesSplit DEF SessionInv
<1>w. round.todo \subseteq Fences /\ (round.pc \in Freeing => round.f \in Fences)
  BY <1>p, RoundWork
<1>1. ASSUME NEW f \in Fences, SweepOrphans(f) \/ OrphanStalled(f) PROVE Kept'
  <2>1. /\ round.pc \in {"sweep", "stale"} /\ f \in round.todo /\ dispatch[f] # "none"
        /\ UNCHANGED <<fence, admission, exec, tracked, handles>>
    BY <1>1, <1>p DEF SweepOrphans, OrphanStalled, RoundSound, memory
  <2>2. CASE round' = AtRest /\ UNCHANGED <<dispatch, slot, attempt>>
    BY <2>1, <2>2, RoundRests, QuietKeeps
  <2>3. CASE round' = [round EXCEPT !.todo = @ \ {f}] /\ UNCHANGED <<dispatch, slot, attempt>>
    <3>1. (\A h \in Fences : Eases(h)) /\ Steady
      BY <2>1, <2>3 DEF Eases, Open, Steady
    <3>2. RoundSound'
      BY <1>p, <2>1, <2>3, <3>1, RoundStays DEF RoundTypes, Rounds
    <3> QED BY <2>1, <2>3, <3>2, QuietKeeps
  <2>4. CASE Orphan(f) /\ \/ round.pc = "sweep" /\ round' = [round EXCEPT !.pc = "sweepFree", !.f = f]
                          \/ round.pc = "stale" /\ round' = [round EXCEPT !.pc = "staleFree", !.f = f]
    <3>1. Steady /\ (\A h \in Fences : Eases(h)) /\ dispatch'[f] \in {"orphaned", "ended"}
      BY <2>1, <2>4, OrphanEases
    <3>2. /\ round'.todo = round.todo /\ round'.f = f
          /\ \/ round.pc = "sweep" /\ round'.pc = "sweepFree"
             \/ round.pc = "stale" /\ round'.pc = "staleFree"
      BY <1>p, <2>4 DEF RoundTypes, Rounds
    <3>3. RoundSound'
      BY <1>p, <3>1, <3>2, RoundFrees DEF After, Freeing
    <3> QED BY <2>1, <3>1, <3>3, SteadyKeeps DEF Kept
  <2> QED BY <1>1, <2>2, <2>3, <2>4 DEF SweepOrphans, OrphanStalled
<1>2. ASSUME NEW f \in Fences, DeferStalled(f) \/ ReconcileOrphan(f) PROVE Kept'
  <2>1. UNCHANGED <<fence, admission, slot, dispatch, exec, tracked, handles, attempt>> /\ f \in round.todo
    BY <1>2 DEF DeferStalled, ReconcileOrphan, leaseVars, hostVars, memory
  <2>2. (\A h \in Fences : Eases(h)) /\ Steady
    BY <2>1 DEF Eases, Open, Steady
  <2>3. RoundSound'
    <3>1. CASE DeferStalled(f)
      <4>1. round'.pc = round.pc /\ round'.f = round.f /\ round'.todo \subseteq round.todo /\ round'.busy = round.busy
        BY <1>p, <3>1 DEF DeferStalled, RoundTypes, Rounds
      <4> QED BY <1>p, <1>w, <2>1, <2>2, <4>1, RoundStays
    <3>2. CASE ReconcileOrphan(f)
      <4>1. round.pc = "orphans" /\ round'.pc = "orphansFree" /\ round'.f = f /\ round'.todo = round.todo
        BY <1>p, <3>2 DEF ReconcileOrphan, RoundTypes, Rounds
      <4>2. dispatch'[f] \in {"orphaned", "ended"}
        BY <1>p, <2>1, <4>1 DEF RoundSound
      <4> QED BY <1>p, <2>2, <4>1, <4>2, RoundFrees DEF After, Freeing
    <3> QED BY <1>2, <3>1, <3>2
  <2> QED BY <2>1, <2>3, QuietKeeps
<1>3. ASSUME NEW f \in Fences, RecoverAdmission(f) PROVE Kept'
  <2>1. /\ round.pc = "recover" /\ f \in round.todo
        /\ UNCHANGED <<fence, slot, dispatch, exec, tracked, handles, attempt>>
    BY <1>3 DEF RecoverAdmission, hostVars, memory
  <2>2. round'.pc = round.pc /\ round'.f = round.f /\ round'.todo = round.todo \ {f} /\ round'.busy = round.busy \ {f}
    BY <1>3, <1>p DEF RecoverAdmission, RoundTypes, Rounds
  <2>3. \A h \in Fences : /\ h # f => admission'[h] = admission[h]
                          /\ admission'[h].run = admission[h].run /\ admission'[h].by = admission[h].by
    BY <1>3, <1>p DEF RecoverAdmission, LeaseTypes, Admissions
  <2>4. \/ Lapsed(f) /\ admission'[f].state = "recovering"
        \/ Lapsed(f) /\ f \notin round.busy /\ admission'[f].state = "expired"
        \/ admission'[f].state = admission[f].state
    BY <1>3, <1>p DEF RecoverAdmission, LeaseTypes, Admissions
  <2>5. f \notin round.busy => Unused(f)'
    BY <1>p, <2>1 DEF RoundSound, Expirable, Unused, Open
  <2>6. (\A h \in Fences : Eases(h)) /\ Steady
    BY <2>1, <2>3, <2>4, <2>5 DEF Eases, Open, Steady, Lapsed, Held
  <2>7. RoundSound'
    BY <1>p, <1>w, <2>2, <2>3, <2>6, RoundStays
  <2> QED BY <2>1, <2>6, <2>7, SteadyKeeps DEF Kept
<1>4. ASSUME NEW f \in Fences, BackfillCleanup(f) PROVE Kept'
  BY <1>4, FrameKeeps DEF BackfillCleanup, leaseVars, hostVars, memory
<1>5. CASE ReleaseOrphanedAdmission
  <2> DEFINE next == [round EXCEPT !.pc = After(round.pc), !.todo = @ \ {round.f}, !.f = 0]
  <2>1. /\ round.pc \in Freeing
        /\ UNCHANGED <<fence, admission, slot, dispatch, exec, tracked, handles, attempt>>
    BY <1>5 DEF ReleaseOrphanedAdmission, leaseVars, hostVars, memory
  <2>2. round' = next => round'.pc = After(round.pc) /\ round'.todo \subseteq round.todo
    BY <1>p DEF RoundTypes, Rounds
  <2>3. round' = next \/ round' = AtRest
    BY <1>5 DEF ReleaseOrphanedAdmission
  <2>4. (\A h \in Fences : Eases(h)) /\ Steady
    BY <2>1 DEF Eases, Open, Steady
  <2>5. RoundSound'
    BY <1>p, <2>1, <2>2, <2>3, <2>4, RoundFrees, RoundRests
  <2> QED BY <2>1, <2>5, QuietKeeps
<1>6. CASE RotateProductSessions
  BY <1>6, FrameKeeps DEF RotateProductSessions, leaseVars, memory
<1>7. CASE NextStage
  <2>1. UNCHANGED <<fence, admission, slot, dispatch, exec, tracked, handles, attempt>>
    BY <1>7 DEF NextStage, leaseVars, hostVars, memory
  <2>2. RoundSound'
    <3>1. CASE round'.pc = "orphans" /\ \A h \in round'.todo : dispatch[h] = "orphaned"
      BY <2>1, <3>1 DEF RoundSound, Freeing
    <3>2. CASE round'.pc = "stale" /\ \A h \in round'.todo : dispatch[h] \in ActiveDispatch
      BY <2>1, <3>2 DEF RoundSound, Freeing, ActiveDispatch, PreAccept
    <3>3. CASE round'.pc \in {"rotate", "backfill", "drain"}
      BY <3>3 DEF RoundSound, Freeing
    <3>4. CASE /\ round'.pc = "recover" /\ round'.todo = {h \in Fences : Lapsed(h)}
               /\ round'.busy = {h \in Fences : Lapsed(h) /\ Busy(h)}
      <4>1. \A h \in round'.todo : Expirable(h)'
        BY <2>1, <3>4 DEF Expirable, Unused, Open, Lapsed, Busy, Held
      <4> QED BY <3>4, <4>1 DEF RoundSound, Freeing
    <3>5. \/ round'.pc = "orphans" /\ \A h \in round'.todo : dispatch[h] = "orphaned"
          \/ round'.pc = "stale" /\ \A h \in round'.todo : dispatch[h] \in ActiveDispatch
          \/ round'.pc \in {"rotate", "backfill", "drain"}
          \/ /\ round'.pc = "recover" /\ round'.todo = {h \in Fences : Lapsed(h)}
             /\ round'.busy = {h \in Fences : Lapsed(h) /\ Busy(h)}
      <4>1. \A pc, todo, busy : Stage(pc, todo, busy) => round'.pc = pc /\ round'.todo = todo /\ round'.busy = busy
        BY <1>p DEF Stage, RoundTypes, Rounds
      <4>2. CASE Stage("orphans", {f \in Fences : dispatch[f] = "orphaned" /\ admission[f].state \in Held}, {})
        BY <4>1, <4>2
      <4>3. CASE \/ Stage("rotate", {}, {}) \/ Stage("backfill", {}, {}) \/ Stage("drain", {}, {})
        BY <4>1, <4>3
      <4>4. CASE Stage("stale", {}, {})
        BY <4>1, <4>4
      <4>5. CASE Stage("stale", {f \in Fences : dispatch[f] \in ActiveDispatch /\ ~ slot[f].live}, {})
        BY <4>1, <4>5
      <4>6. CASE Stage("recover", {f \in Fences : Lapsed(f)}, {f \in Fences : Lapsed(f) /\ Busy(f)})
        BY <4>1, <4>6
      <4> QED BY <1>7, <4>2, <4>3, <4>4, <4>5, <4>6 DEF NextStage
    <3> QED BY <3>1, <3>2, <3>3, <3>4, <3>5
  <2> QED BY <2>1, <2>2, QuietKeeps
<1>8. CASE RoundEnds
  BY <1>8, RoundRests, QuietKeeps DEF RoundEnds, leaseVars, hostVars, memory
<1> QED BY <1>1, <1>2, <1>3, <1>4, <1>5, <1>6, <1>7, <1>8 DEF RoundStep

\* Convergence, the begin of a round, the taking of a Run, and a crash.
LEMMA ProcessKeeps ==
  ASSUME SessionInv, NEW p \in Procs,
         \/ RoundBegins(p) \/ ProcessCrashes(p)
         \/ \E f \in Fences : ConvergeSession(p, f)
         \/ \E r \in Runs : Take(r, p)
  PROVE  Kept'
<1>p. LeaseTypes /\ HostTypes /\ AttemptTypes /\ RoundTypes /\ RoundSound /\ OwnTokens /\ AttemptSound /\ RowsSound
      /\ FreshTokens
  BY TypesSplit DEF SessionInv
<1>w. round.todo \subseteq Fences /\ (round.pc \in Freeing => round.f \in Fences)
  BY <1>p, RoundWork
<1>1. CASE RoundBegins(p)
  <2>1. UNCHANGED <<fence, admission, dispatch, exec, tracked, handles, attempt>> /\ round'.pc = "sweep"
        /\ \A h \in round'.todo : dispatch[h] \in ActiveDispatch
    BY <1>1 DEF RoundBegins, AtRest, hostVars, memory
  <2>2. \A h \in Fences : \/ slot'[h].state = slot[h].state
                          \/ /\ slot[h].state = "reserved" /\ slot'[h].state = "closed"
                             /\ dispatch[h] \notin ActiveDispatch \ {"created"}
    BY <1>1, <1>p DEF RoundBegins, LeaseTypes, Slots
  <2>3. (\A h \in Fences : Eases(h)) /\ Steady
    BY <2>1, <2>2 DEF Eases, Open, Steady
  <2>4. RoundSound'
    BY <2>1 DEF RoundSound, Freeing, ActiveDispatch, PreAccept
  <2> QED BY <2>1, <2>3, <2>4, SteadyKeeps DEF Kept
<1>2. ASSUME NEW f \in Fences, ConvergeSession(p, f) PROVE Kept'
  <2>1. /\ UNCHANGED <<fence, exec, tracked, handles, attempt, round>>
        /\ exec[f] = "ended" /\ dispatch[f] \in ActiveDispatch
    BY <1>2 DEF ConvergeSession, memory
  <2>2. dispatch[f] \notin {"none", "created"}
    BY <1>p, <2>1 DEF RowsSound, RowFits
  <2>3. \A h \in Fences : /\ h # f => admission'[h] = admission[h] /\ dispatch'[h] = dispatch[h] /\ slot'[h] = slot[h]
                          /\ admission'[h].run = admission[h].run /\ admission'[h].by = admission[h].by
                          /\ admission'[h].live = admission[h].live
    BY <1>2, <1>p DEF ConvergeSession, LeaseTypes, HostTypes, Admissions
  <2>4. dispatch'[f] = "ended" /\ slot'[f].state = "closed"
    BY <1>2, <1>p DEF ConvergeSession, LeaseTypes, HostTypes, Slots
  <2>5. \/ admission'[f].state = admission[f].state
        \/ admission[f].state \in Bound /\ admission'[f].state = "released"
    BY <1>2, <1>p DEF ConvergeSession, LeaseTypes, Admissions, AssertActive
  <2>6. Unused(f)'
    BY <2>4 DEF Unused, ActiveDispatch, PreAccept, Open
  <2>7. \A h \in Fences : Eases(h)
    BY <2>1, <2>2, <2>3, <2>4, <2>5, <2>6 DEF Eases, Open, Bound, Held, ActiveDispatch, PreAccept
  <2> QED BY <2>1, <2>3, <2>7, EasyKeeps
<1>3. ASSUME NEW r \in Runs, Take(r, p) PROVE Kept'
  <2>1. /\ UNCHANGED <<fence, admission, slot, dispatch, exec, tracked, handles, round>>
        /\ attempt[r].pc = "queued" /\ attempt'[r].pc \in {"lock", "over"} /\ attempt'[r].f = 0
        /\ OnlyAttempt(r) /\ OnlyRow(0)
    <3>1. PICK pc \in {"lock", "over"} : attempt' = [attempt EXCEPT ![r].pc = pc, ![r].by = p, ![r].f = 0]
      BY <1>3 DEF Take
    <3>2. attempt'[r].pc = pc /\ attempt'[r].f = 0 /\ OnlyAttempt(r)
      BY <1>p, <3>1 DEF AttemptTypes, Attempts, OnlyAttempt
    <3>3. UNCHANGED <<fence, admission, slot, dispatch, exec, tracked, handles, round>> /\ attempt[r].pc = "queued"
      BY <1>3 DEF Take, leaseVars, hostVars, memory
    <3> QED BY <3>2, <3>3 DEF OnlyRow
  <2>2. FreshTokens'
    BY <1>p, <2>1 DEF FreshTokens, Untouched
  <2>3. OwnTokens'
    BY <1>p, <2>1 DEF OwnTokens, Fenced, OnlyAttempt, LeaseTypes
  <2>4. AttemptFits(r)' /\ 0 \notin Fences /\ 0 \in 0..MaxFence
    BY <2>1, SessionAssumption DEF AttemptFits, Early, Unsent, Sent, Binding, Fences
  <2>5. AttemptSound' /\ RowsSound'
    BY <1>p, <2>1, <2>3, <2>4, OthersKept
  <2>6. RoundSound'
    BY <1>p, <2>1, <2>4, RoundKept
  <2> QED BY <2>2, <2>3, <2>5, <2>6 DEF Kept
<1>4. CASE ProcessCrashes(p)
  <2>1. /\ UNCHANGED <<fence, admission, slot, dispatch, exec>>
        /\ \A h \in Fences : /\ h \in tracked' => h \in tracked
                             /\ h \in handles' => h \in handles /\ admission[h].by # p
        /\ round' = round \/ round' = AtRest
    BY <1>4 DEF ProcessCrashes, leaseVars, hostVars
  <2>2. \A q \in Runs : \/ attempt'[q] = attempt[q]
                        \/ /\ attempt[q].by = p /\ attempt[q].pc \notin {"queued", "over"}
                           /\ attempt'[q].f = attempt[q].f /\ attempt'[q].pc \in {"queued", "over"}
    BY <1>4, <1>p DEF ProcessCrashes, AttemptTypes, Attempts
  <2>3. FreshTokens'
    BY <1>p, <2>1 DEF FreshTokens, Untouched
  <2>4. OwnTokens'
    BY <1>p, <2>1, <2>2 DEF OwnTokens, Fenced
  <2>5. ASSUME NEW q \in Runs PROVE AttemptFits(q)'
    <3>1. CASE attempt'[q].pc \in {"queued", "over", "lock"}
      BY <3>1 DEF AttemptFits, Early, Unsent, Sent, Binding
    <3>2. CASE attempt'[q] = attempt[q] /\ attempt[q].pc \notin {"queued", "over", "lock"}
      <4>1. attempt[q].f \in Fences /\ AttemptFits(q)
        BY <1>p, <3>2 DEF OwnTokens, Fenced, AttemptTypes, Attempts, Fences, AttemptSound
      <4> QED BY <2>1, <3>2, <4>1 DEF AttemptFits, Open
    <3> QED BY <2>2, <3>1, <3>2
  <2>6. ASSUME NEW h \in Fences PROVE RowFits(h)'
    <3>1. RowFits(h)
      BY <1>p DEF RowsSound
    <3>2. ASSUME h \in handles', Open(h)
          PROVE  /\ admission[h].run \in Runs
                 /\ attempt'[admission[h].run].f = h
                 /\ attempt'[admission[h].run].pc \notin {"queued", "lock", "insert"}
      <4>1. PICK q \in Runs : /\ q = admission[h].run /\ attempt[q].f = h
                              /\ attempt[q].pc \notin {"queued", "lock", "insert"}
        BY <2>1, <3>1, <3>2 DEF RowFits
      <4>2. attempt[q].pc # "over" => admission[h].by = attempt[q].by
        BY <1>p, <4>1 DEF AttemptSound, AttemptFits, AttemptTypes, Attempts, AttemptPCs, Early, Unsent, Sent
      <4>3. attempt'[q] = attempt[q]
        BY <2>1, <2>2, <3>2, <4>1, <4>2
      <4> QED BY <4>1, <4>3
    <3> QED BY <2>1, <3>1, <3>2 DEF RowFits, Open
  <2>7. RoundSound'
    <3>1. CASE round' = round
      <4>1. \A h \in Fences : Expirable(h) => Expirable(h)'
        BY <2>1, <2>2, <3>1 DEF Expirable, Unused, Open, Binding
      <4> QED BY <1>p, <1>w, <2>1, <3>1, <4>1 DEF RoundSound
    <3> QED BY <2>1, <3>1, RoundRests
  <2> QED BY <2>3, <2>4, <2>5, <2>6, <2>7 DEF Kept, AttemptSound, RowsSound
<1> QED BY <1>1, <1>2, <1>3, <1>4

-------------------------------------------------------------------------------
(* Locks and their records *)

\* What a step may do to the locks and the records, and how they stay in order.
LEMMA LocksStay ==
  ASSUME SessionInv, LockInv, LeaseTypes, OutboxTypes, UNCHANGED fence,
         \A g \in Gens : lock'[g] = lock[g] \/ lock'[g] = 0,
         \A f \in Fences : /\ admission[f].state \in Terminal =>
                                admission'[f].state \in Terminal /\ admission'[f].gen = admission[f].gen
                           /\ generic'[f].status = "succeeded" => generic[f].status = "succeeded"
                           /\ terminal'[f].status = "succeeded" => terminal[f].status = "succeeded",
         \A p \in Procs : \/ drain'[p].kind = "none"
                          \/ /\ drain[p].kind # "none" /\ drain'[p].f = drain[p].f
                             /\ drain'[p].freed = drain[p].freed
  PROVE  LockInv'
<1>1. \A g \in Gens : lock'[g] <= fence
  BY DEF LockInv, LeaseTypes
<1>2. \A f \in Fences : f # 0 /\ admission[f].gen \in Gens
  BY SessionAssumption DEF Fences, LeaseTypes, Admissions
<1>3. \A p \in Procs : drain[p].kind # "none" => drain[p].f \in Fences
  BY SessionAssumption DEF OutboxTypes, Drains, Fences
<1>4. \A f \in Fences : generic'[f].status = "succeeded" \/ terminal'[f].status = "succeeded" =>
        admission'[f].state \in Terminal /\ lock'[admission'[f].gen] # f
  BY <1>2 DEF LockInv
<1>5. ASSUME NEW p \in Procs, drain'[p].kind # "none"
      PROVE  /\ admission'[drain'[p].f].state \in Terminal
             /\ drain'[p].freed => lock'[admission'[drain'[p].f].gen] # drain'[p].f
  BY <1>2, <1>3, <1>5 DEF LockInv
<1> QED BY <1>1, <1>4, <1>5 DEF LockInv

\* A new record waits; no record is finished by it.
LEMMA CleanupWaits ==
  ASSUME OutboxTypes, NEW h \in Fences, generic' = WithCleanup(h)
  PROVE  \A f \in Fences : generic'[f].status = "succeeded" => generic[f].status = "succeeded"
BY DEF WithCleanup, OutboxTypes, Records

\* What a release does to the records and to the drain of its process.
LEMMA ReleaseRecords ==
  ASSUME LeaseTypes, OutboxTypes, NEW h \in Fences, NEW p, Release(h, p)
  PROVE  /\ \A f \in Fences : /\ admission[f].state \in Terminal =>
                                   admission'[f].state \in Terminal /\ admission'[f].gen = admission[f].gen
                              /\ generic'[f].status = "succeeded" => generic[f].status = "succeeded"
                              /\ terminal'[f].status = "succeeded" => terminal[f].status = "succeeded"
         /\ \A q \in Procs : /\ drain'[q].kind = drain[q].kind /\ drain'[q].f = drain[q].f
                             /\ drain'[q].freed = drain[q].freed
<1>1. CASE UNCHANGED <<admission, outbox>>
  BY <1>1 DEF outbox
<1>2. CASE /\ generic' = WithCleanup(h) /\ drain' = [drain EXCEPT ![p].due = TRUE] /\ UNCHANGED terminal
           /\ \/ admission' = admission
              \/ admission[h].state \notin Terminal /\ admission' = [admission EXCEPT ![h].state = "released"]
  <2>1. \A q \in Procs : /\ drain'[q].kind = drain[q].kind /\ drain'[q].f = drain[q].f
                         /\ drain'[q].freed = drain[q].freed
    BY <1>2 DEF OutboxTypes, Drains
  <2>2. \A f \in Fences : admission[f].state \in Terminal =>
          admission'[f].state \in Terminal /\ admission'[f].gen = admission[f].gen
    BY <1>2 DEF LeaseTypes, Admissions
  <2> QED BY <1>2, <2>1, <2>2, CleanupWaits
<1> QED BY <1>1, <1>2 DEF Release

\* Locks and records stay in order.
LEMMA LocksKeep ==
  ASSUME SessionInv, LockInv, Next
  PROVE  LockInv'
<1>p. LeaseTypes /\ OutboxTypes /\ AttemptTypes /\ OwnTokens /\ FreshTokens /\ AttemptSound
  BY TypesSplit DEF SessionInv
<1>t. /\ \A f \in Fences : f # 0 /\ f \in Int /\ admission[f].gen \in Gens
      /\ \A q \in Procs : drain[q].kind # "none" => drain[q].f \in Fences
      /\ fence \in Int /\ \A g \in Gens : lock[g] \in Int
  BY <1>p, SessionAssumption DEF LeaseTypes, OutboxTypes, Drains, Admissions, Fences
<1>k. ASSUME UNCHANGED <<fence, lock, generic, terminal, drain>>,
             \A f \in Fences : admission[f].state \in Terminal =>
               admission'[f].state \in Terminal /\ admission'[f].gen = admission[f].gen
      PROVE  LockInv'
  BY <1>p, <1>k, LocksStay
<1>1. ASSUME NEW r \in Runs, AcquireLock(r) PROVE LockInv'
  <2>1. CASE UNCHANGED <<fence, lock>>
    BY <1>1, <1>k, <2>1 DEF AcquireLock, outbox
  <2>2. CASE fence' = fence + 1 /\ lock' = [lock EXCEPT ![attempt[r].gen] = fence + 1]
    <3>1. UNCHANGED <<admission, generic, terminal, drain>>
      BY <1>1 DEF AcquireLock, outbox
    <3>2. \A g \in Gens : lock'[g] = lock[g] \/ lock'[g] = fence + 1
      BY <1>p, <2>2 DEF LeaseTypes
    <3>3. \A f \in Fences : admission[f].state \in Terminal => f # fence + 1
      BY <1>p, <1>t DEF FreshTokens, Untouched, Terminal
    <3>4. \A g \in Gens : lock'[g] <= fence'
      BY <1>t, <2>2, <3>2 DEF LockInv
    <3> QED BY <1>t, <3>1, <3>2, <3>3, <3>4 DEF LockInv
  <2> QED BY <1>1, <2>1, <2>2 DEF AcquireLock
<1>2. ASSUME NEW r \in Runs, InsertAdmission(r) PROVE LockInv'
  <2>1. attempt[r].f \in Fences /\ admission[attempt[r].f].state = "none"
    BY <1>2, <1>p DEF InsertAdmission, AttemptSound, AttemptFits, OwnTokens, Fenced, AttemptTypes, Attempts,
       Fences
  <2>2. \A f \in Fences : admission[f].state \in Terminal =>
          admission'[f].state \in Terminal /\ admission'[f].gen = admission[f].gen
    BY <1>2, <1>p, <2>1 DEF InsertAdmission, LeaseTypes, Terminal
  <2>3. \A g \in Gens : lock'[g] = lock[g] \/ lock'[g] = 0
    BY <1>2, <1>p DEF InsertAdmission, LeaseTypes
  <2>4. UNCHANGED <<fence, generic, terminal, drain>>
    BY <1>2 DEF InsertAdmission, outbox
  <2> QED BY <1>p, <2>2, <2>3, <2>4, LocksStay
<1>3. ASSUME NEW r \in Runs, BindReservation(r) \/ BindDispatch(r) PROVE LockInv'
  <2>1. UNCHANGED <<fence, lock, generic, terminal, drain>>
    BY <1>3 DEF BindReservation, BindDispatch, outbox
  <2>2. \A f \in Fences : admission[f].state \in Terminal =>
          admission'[f].state \in Terminal /\ admission'[f].gen = admission[f].gen
    BY <1>3, <1>p DEF BindReservation, BindDispatch, Bind, LeaseTypes, Admissions, Terminal
  <2> QED BY <1>k, <2>1, <2>2
<1>4. ASSUME NEW r \in Runs,
             \/ TryReserveSlot(r) \/ AssertBeforeBind(r) \/ BindProductSessionHost(r) \/ CreateDispatch(r)
             \/ Track(r) \/ MarkDispatchSent(r) \/ Submit(r) \/ Accept(r) \/ ReleaseReservation(r)
             \/ \E p \in Procs : Take(r, p)
      PROVE  LockInv'
  <2>1. UNCHANGED <<fence, lock, admission, generic, terminal, drain>>
    BY <1>4 DEF TryReserveSlot, AssertBeforeBind, BindProductSessionHost, CreateDispatch, Track,
       MarkDispatchSent,
       Submit, Accept, ReleaseReservation, Take, leaseVars, outbox
  <2> QED BY <1>k, <2>1
<1>5. ASSUME UNCHANGED <<fence, lock>>,
             \E h \in Fences, p \in Procs \cup {None} : Release(h, p)
      PROVE  LockInv'
  BY <1>p, <1>5, ReleaseRecords, LocksStay
<1>6. ASSUME NEW r \in Runs, ReleaseSession(r) PROVE LockInv'
  <2>1. attempt[r].f \in Fences /\ attempt[r].by \in Procs \cup {None}
    BY <1>6, <1>p DEF ReleaseSession, OwnTokens, Fenced, AttemptTypes, Attempts, Fences
  <2> QED BY <1>5, <1>6, <2>1 DEF ReleaseSession
<1>7. CASE LeaseStep \/ HostStep
  <2>1. ASSUME NEW g \in Gens, LockLapses(g) PROVE LockInv'
    <3>1. \A h \in Gens : lock'[h] = lock[h] \/ lock'[h] = 0
      BY <1>p, <2>1 DEF LockLapses, LeaseTypes
    <3> QED BY <1>p, <2>1, <3>1, LocksStay DEF LockLapses, outbox
  <2>2. ASSUME NEW f \in Fences, AdmissionLapses(f) PROVE LockInv'
    <3>1. \A h \in Fences : admission'[h].state = admission[h].state /\ admission'[h].gen = admission[h].gen
      BY <1>p, <2>2 DEF AdmissionLapses, LeaseTypes, Admissions
    <3> QED BY <1>k, <2>2, <3>1 DEF AdmissionLapses, outbox
  <2>3. ASSUME NEW f \in Fences, SlotLapses(f) \/ HostFinishes(f) PROVE LockInv'
    BY <1>k, <2>3 DEF SlotLapses, HostFinishes, leaseVars, outbox
  <2>4. ASSUME NEW f \in Fences, HeartbeatFails(f) PROVE LockInv'
    <3>1. CASE UNCHANGED <<admission, outbox>>
      BY <1>k, <2>4, <3>1 DEF HeartbeatFails, outbox
    <3>2. CASE Release(f, admission[f].by)
      <4>1. admission[f].by \in Procs \cup {None}
        BY <1>p DEF LeaseTypes, Admissions
      <4> QED BY <1>5, <2>4, <3>2, <4>1 DEF HeartbeatFails
    <3> QED BY <2>4, <3>1, <3>2 DEF HeartbeatFails
  <2>5. ASSUME NEW f \in Fences, ClaimLapses(f) PROVE LockInv'
    <3>1. \A h \in Fences : /\ generic'[h].status = "succeeded" => generic[h].status = "succeeded"
                            /\ terminal'[h].status = "succeeded" => terminal[h].status = "succeeded"
      BY <1>p, <2>5 DEF ClaimLapses, OutboxTypes, Records
    <3> QED BY <1>p, <2>5, <3>1, LocksStay DEF ClaimLapses, leaseVars
  <2>6. CASE HostGoesOffline \/ HostReturns
    BY <1>k, <2>6 DEF HostGoesOffline, HostReturns, leaseVars, outbox
  <2> QED BY <1>7, <2>1, <2>2, <2>3, <2>4, <2>5, <2>6 DEF LeaseStep, HostStep
<1>8. ASSUME NEW p \in Procs, CleanupStep(p) \/ RetryCleanup(p) PROVE LockInv'
  <2>1. UNCHANGED <<fence, admission>>
    BY <1>8 DEF CleanupStep, RetryCleanup, ClaimCleanup, NothingToClaim, ReleaseLeaseByProof, CompleteCleanup,
       leaseVars
  <2>2. ASSUME NEW f \in Fences, ClaimCleanup(p, f) PROVE LockInv'
    <3>1. UNCHANGED lock /\ admission[f].state \in Terminal
      BY <2>2 DEF ClaimCleanup, Claimable, leaseVars
    <3>2. \A h \in Fences : /\ generic'[h].status = "succeeded" => generic[h].status = "succeeded"
                            /\ terminal'[h].status = "succeeded" => terminal[h].status = "succeeded"
      <4>1. \/ generic' = [generic EXCEPT ![f] = [status |-> "running", by |-> p]] /\ UNCHANGED terminal
            \/ terminal' = [terminal EXCEPT ![f] = [status |-> "running", by |-> p]] /\ UNCHANGED generic
        BY <2>2 DEF ClaimCleanup
      <4> QED BY <1>p, <4>1 DEF OutboxTypes
    <3>3. /\ \A q \in Procs : q # p => drain'[q] = drain[q]
          /\ drain'[p].f = f /\ drain'[p].freed = FALSE
      BY <1>p, <2>2 DEF ClaimCleanup, OutboxTypes
    <3> QED BY <2>1, <3>1, <3>2, <3>3 DEF LockInv
  <2>3. CASE NothingToClaim(p)
    <3>1. \A q \in Procs : drain'[q].kind = drain[q].kind /\ drain'[q].f = drain[q].f /\ drain'[q].freed = drain[q].freed
      BY <1>p, <2>3 DEF NothingToClaim, OutboxTypes, Drains
    <3> QED BY <1>p, <2>1, <2>3, <3>1, LocksStay DEF NothingToClaim, leaseVars
  <2>4. CASE ReleaseLeaseByProof(p)
    <3> DEFINE f == drain[p].f
    <3>1. f \in Fences /\ UNCHANGED <<generic, terminal>> /\ drain[p].kind # "none"
      BY <1>t, <2>4 DEF ReleaseLeaseByProof
    <3>2. \A g \in Gens : /\ lock'[g] = lock[g] \/ lock'[g] = 0
                          /\ g = admission[f].gen => lock'[g] # f
      BY <1>p, <1>t, <2>4, <3>1 DEF ReleaseLeaseByProof, LeaseTypes
    <3>3. \A q \in Procs : /\ drain'[q].kind = drain[q].kind /\ drain'[q].f = drain[q].f
                           /\ q # p => drain'[q].freed = drain[q].freed
      BY <1>p, <2>4 DEF ReleaseLeaseByProof, OutboxTypes, Drains
    <3>4. \A g \in Gens : lock'[g] <= fence'
      BY <1>p, <2>1, <3>2 DEF LockInv, LeaseTypes
    <3>5. \A h \in Fences : generic'[h].status = "succeeded" \/ terminal'[h].status = "succeeded" =>
            admission'[h].state \in Terminal /\ lock'[admission'[h].gen] # h
      BY <1>t, <2>1, <3>1, <3>2 DEF LockInv
    <3>6. ASSUME NEW q \in Procs, drain'[q].kind # "none"
          PROVE  /\ admission'[drain'[q].f].state \in Terminal
                 /\ drain'[q].freed => lock'[admission'[drain'[q].f].gen] # drain'[q].f
      BY <1>t, <2>1, <3>1, <3>2, <3>3, <3>6 DEF LockInv
    <3> QED BY <3>4, <3>5, <3>6 DEF LockInv
  <2>5. CASE CompleteCleanup(p) \/ RetryCleanup(p)
    <3> DEFINE f == drain[p].f
    <3>1. /\ UNCHANGED lock
          /\ CompleteCleanup(p) => drain[p].freed
          /\ (CompleteCleanup(p) /\ SettleCleanup(p, "succeeded")) \/ SettleCleanup(p, "pending")
      BY <2>5 DEF CompleteCleanup, RetryCleanup, leaseVars
    <3>2. /\ \A q \in Procs : q # p => drain'[q] = drain[q]
          /\ drain'[p].kind = "none"
      BY <1>p, <3>1 DEF SettleCleanup, NoWork, OutboxTypes
    <3>3. \A h \in Fences :
            generic'[h].status = "succeeded" \/ terminal'[h].status = "succeeded" =>
              \/ generic[h].status = "succeeded" \/ terminal[h].status = "succeeded"
              \/ h = f /\ drain[p].kind # "none" /\ drain[p].freed
      BY <1>p, <3>1 DEF SettleCleanup, Settled, OutboxTypes, Records
    <3> QED BY <2>1, <3>1, <3>2, <3>3 DEF LockInv
  <2> QED BY <1>8, <2>2, <2>3, <2>4, <2>5 DEF CleanupStep
<1>9. CASE RoundStep
  <2>1. ASSUME NEW f \in Fences,
               SweepOrphans(f) \/ OrphanStalled(f) \/ DeferStalled(f) \/ ReconcileOrphan(f)
        PROVE  LockInv'
    BY <1>k, <2>1 DEF SweepOrphans, OrphanStalled, DeferStalled, ReconcileOrphan, leaseVars, outbox
  <2>2. ASSUME NEW f \in Fences, RecoverAdmission(f) PROVE LockInv'
    <3>1. UNCHANGED <<fence, lock, terminal, drain>> /\ (UNCHANGED generic \/ generic' = WithCleanup(f))
      BY <2>2 DEF RecoverAdmission
    <3>2. \A h \in Fences : admission[h].state \in Terminal =>
            admission'[h].state \in Terminal /\ admission'[h].gen = admission[h].gen
      BY <1>p, <2>2 DEF RecoverAdmission, Lapsed, LeaseTypes, Admissions, Held, Terminal
    <3>3. \A h \in Fences : generic'[h].status = "succeeded" => generic[h].status = "succeeded"
      BY <1>p, <3>1, CleanupWaits
    <3> QED BY <1>p, <3>1, <3>2, <3>3, LocksStay
  <2>3. ASSUME NEW f \in Fences, BackfillCleanup(f) PROVE LockInv'
    <3>1. \A h \in Fences : generic'[h].status = "succeeded" => generic[h].status = "succeeded"
      BY <1>p, <2>3, CleanupWaits DEF BackfillCleanup
    <3> QED BY <1>p, <2>3, <3>1, LocksStay DEF BackfillCleanup, leaseVars
  <2>4. CASE ReleaseOrphanedAdmission
    BY <1>k, <2>4 DEF ReleaseOrphanedAdmission, leaseVars, outbox
  <2>5. CASE RotateProductSessions \/ NextStage \/ RoundEnds
    BY <1>k, <2>5 DEF RotateProductSessions, NextStage, RoundEnds, leaseVars, outbox
  <2> QED BY <1>9, <2>1, <2>2, <2>3, <2>4, <2>5 DEF RoundStep
<1>10. ASSUME NEW p \in Procs, RoundBegins(p) PROVE LockInv'
  BY <1>k, <1>10 DEF RoundBegins, outbox
<1>11. ASSUME NEW p \in Procs, ProcessCrashes(p) PROVE LockInv'
  <2>1. \A q \in Procs : drain'[q] = drain[q] \/ drain'[q].kind = "none"
    BY <1>11, <1>p DEF ProcessCrashes, OutboxTypes, NoWork
  <2> QED BY <1>11, <1>p, <2>1, LocksStay DEF ProcessCrashes, leaseVars
<1>12. ASSUME NEW p \in Procs, NEW f \in Fences, ConvergeSession(p, f) PROVE LockInv'
  <2>1. \A h \in Fences : admission[h].state \in Terminal =>
          admission'[h].state \in Terminal /\ admission'[h].gen = admission[h].gen
    BY <1>12, <1>p DEF ConvergeSession, LeaseTypes, Admissions, Terminal
  <2>2. \A h \in Fences : terminal'[h].status = "succeeded" => terminal[h].status = "succeeded"
    BY <1>12, <1>p DEF ConvergeSession, OutboxTypes
  <2> QED BY <1>12, <1>p, <2>1, <2>2, LocksStay DEF ConvergeSession
<1> QED BY <1>1, <1>2, <1>3, <1>4, <1>6, <1>7, <1>8, <1>9, <1>10, <1>11, <1>12 DEF Next, DispatcherStep

-------------------------------------------------------------------------------
(* The theorems *)

\* The first states.
LEMMA FirstStates ==
  ASSUME Init
  PROVE  SessionInv /\ LockInv
<1>1. PICK old \in {0, 1}, s \in Runs, t \in Procs :
        /\ fence = old
        /\ lock = [g \in Gens |-> IF g = 1 THEN old ELSE 0]
        /\ admission = [f \in Fences |->
             IF f = old THEN [NoAdmission EXCEPT !.state = "released", !.run = s, !.by = t] ELSE NoAdmission]
  BY DEF Init
<1>n. 0 \in 0..MaxFence /\ 1 \in 0..MaxFence /\ 0 \in 0..MaxFaults /\ MaxFence \in Int
      /\ 0 \notin Fences /\ \A f \in Fences : f \in Int
  BY SessionAssumption DEF Fences
<1>2. /\ admission \in [Fences -> Admissions]
      /\ \A f \in Fences : /\ admission[f].state \in {"none", "released"} /\ admission[f].gen = 1
                           /\ f > fence => admission[f].state = "none"
  <2> DEFINE Old == [NoAdmission EXCEPT !.state = "released", !.run = s, !.by = t]
  <2>1. \A f \in Fences : admission[f] = IF f = old THEN Old ELSE NoAdmission
    BY <1>1
  <2>2. Old \in Admissions /\ Old.state = "released" /\ Old.gen = 1 /\ NoAdmission \in Admissions
    <3>1. NoAdmission \in Admissions /\ NoAdmission.gen = 1
      BY DEF Admissions, NoAdmission, Gens
    <3> QED BY <3>1 DEF Admissions, Terminal
  <2>3. admission \in [Fences -> Admissions]
    BY <1>1, <2>1, <2>2
  <2>4. ASSUME NEW f \in Fences
        PROVE  /\ admission[f].state \in {"none", "released"} /\ admission[f].gen = 1
               /\ f > fence => admission[f].state = "none"
    <3>1. CASE f = old
      <4>1. admission[f] = Old /\ f \in Int /\ fence = f
        BY <1>1, <1>n, <2>1, <3>1
      <4> QED BY <2>2, <4>1
    <3>2. CASE f # old
      BY <2>1, <3>2 DEF NoAdmission
    <3> QED BY <3>1, <3>2
  <2> QED BY <2>3, <2>4
<1>3. LeaseTypes
  BY <1>1, <1>2, <1>n DEF Init, LeaseTypes, Slots, Gens
<1>4. HostTypes /\ MemoryTypes
  <2>1. 1 \in Gens /\ binding = [gen |-> 1, host |-> [g \in Gens |-> FALSE]]
    BY DEF Init, Gens
  <2>2. binding \in [gen : Gens, host : [Gens -> BOOLEAN]]
    BY <2>1
  <2>3. dispatch \in [Fences -> DispatchStates] /\ exec \in [Fences -> {"none", "running", "ended"}]
    BY DEF Init, DispatchStates
  <2> QED BY <2>2, <2>3 DEF Init, HostTypes, MemoryTypes
<1>5. AttemptTypes
  BY <1>n DEF Init, AttemptTypes, Attempts, AttemptPCs, Gens
<1>6. OutboxTypes
  BY <1>n DEF Init, OutboxTypes, Records, Drains, NoRecord, NoWork
<1>7. RoundTypes
  BY <1>n DEF Init, RoundTypes, Rounds, AtRest, RoundPCs, Freeing
<1>8. TypeOK
  BY <1>3, <1>4, <1>5, <1>6, <1>7, <1>n, TypesSplit DEF Init
<1>9. FreshTokens
  BY <1>2 DEF Init, FreshTokens, Untouched
<1>10. OwnTokens
  BY <1>1 DEF Init, OwnTokens, Fenced
<1>11. AttemptSound /\ RowsSound /\ RoundSound
  BY DEF Init, AttemptSound, AttemptFits, RowsSound, RowFits, RoundSound, AtRest, Freeing, Early, Unsent, Sent,
     Binding,
     ActiveDispatch, PreAccept
<1>12. LockInv
  BY <1>1 DEF Init, LockInv, NoRecord, NoWork
<1> QED BY <1>8, <1>9, <1>10, <1>11, <1>12 DEF SessionInv

\* Every step keeps the invariant.
LEMMA StepsKeep ==
  ASSUME SessionInv, [Next]_vars
  PROVE  SessionInv'
<1>1. CASE UNCHANGED vars
  <2>1. TypeOK'
    BY <1>1, TypesSplit, TypesKept, TypesAssembled DEF SessionInv, vars
  <2>2. Kept'
    BY <1>1, FrameKeeps DEF vars, leaseVars, hostVars, memory
  <2> QED BY <2>1, <2>2 DEF SessionInv, Kept
<1>2. CASE Next
  <2>1. TypeOK /\ Fenced
    BY DEF SessionInv, OwnTokens
  <2>2. ASSUME NEW r \in Runs, DispatcherStep(r) PROVE TypeOK' /\ Kept'
    BY <2>1, <2>2, DispatcherTyped, DispatcherKeeps DEF Kept
  <2>3. ASSUME LeaseStep \/ HostStep PROVE TypeOK' /\ Kept'
    BY <2>1, <2>3, LeasesTyped, LeasesKeep
  <2>4. ASSUME RoundStep PROVE TypeOK' /\ Kept'
    BY <2>1, <2>4, RoundTyped, RoundKeeps
  <2>5. ASSUME NEW p \in Procs, CleanupStep(p) \/ RetryCleanup(p) PROVE TypeOK' /\ Kept'
    BY <2>1, <2>5, CleanupTyped, DrainsKeep
  <2>6. ASSUME NEW p \in Procs,
               \/ RoundBegins(p) \/ ProcessCrashes(p)
               \/ \E f \in Fences : ConvergeSession(p, f)
               \/ \E r \in Runs : Take(r, p)
        PROVE  TypeOK' /\ Kept'
    BY <2>1, <2>6, ProcessTyped, ProcessKeeps
  <2>7. TypeOK' /\ Kept'
    BY <1>2, <2>2, <2>3, <2>4, <2>5, <2>6 DEF Next
  <2> QED BY <2>7 DEF SessionInv, Kept
<1> QED BY <1>1, <1>2

\* The inductive invariant.
THEOREM SessionIsSound == Spec => []SessionInv
<1>1. Init => SessionInv
  BY FirstStates
<1>2. SessionInv /\ [Next]_vars => SessionInv'
  BY StepsKeep
<1> QED BY <1>1, <1>2, PTL DEF Spec

\* Every variable keeps its type.
THEOREM TypeCorrect == Spec => []TypeOK
<1>1. SessionInv => TypeOK
  BY DEF SessionInv
<1> QED BY <1>1, SessionIsSound, PTL

\* Whatever lapsed and whoever crashed: a Run that its Host executes under an
\* open Dispatch holds its session (runtime_session_admission.go:1299-1350).
THEOREM SessionAlwaysHeld == Spec => []SessionHeldWhileRunning
<1>1. SessionInv => SessionHeldWhileRunning
  BY DEF SessionInv, RowsSound, RowFits, SessionHeldWhileRunning
<1> QED BY <1>1, SessionIsSound, PTL

\* The lock of an admission that ended has a record until it is given back.
THEOREM LockAlwaysRecorded == Spec => []LockOfEndedAdmissionIsRecorded
<1>1. SessionInv /\ LockInv /\ [Next]_vars => LockInv'
  <2>1. ASSUME SessionInv, LockInv, UNCHANGED vars PROVE LockInv'
    BY <2>1 DEF LockInv, vars, leaseVars, outbox
  <2> QED BY <2>1, LocksKeep
<1>2. SessionInv /\ LockInv => LockOfEndedAdmissionIsRecorded
  <2>1. SessionInv => generic \in [Fences -> Records] /\ terminal \in [Fences -> Records]
    BY TypesSplit DEF SessionInv, OutboxTypes
  <2> QED BY <2>1 DEF LockInv, LockOfEndedAdmissionIsRecorded, Unrecorded, Records
<1>3. Init => LockInv
  BY FirstStates
<1> QED BY <1>1, <1>2, <1>3, SessionIsSound, PTL DEF Spec
=============================================================================
