----------------------- MODULE TerminalConvergenceProofs -----------------------
(* Proofs of the safety properties of TerminalConvergence for every set of   *)
(* workers, every number of events, recovery items and faults.               *)
EXTENDS TerminalConvergence, TLAPS

\* The Host's log has room for its end, and a snapshot was taken after that end.
HostIsHeard ==
  /\ host.result = None => host.events < LastEvent
  /\ conv.result # None => host.result # None
  /\ conv.legacy # "no" =>
       /\ conv.result # None /\ cursor = host.events /\ ledger.state = "completed"
  /\ "product" \in conv.steps => ledger.state = "completed"

Converging == {"verify", "acquire", "apply", "settle", "mark", "final", "tail", "block"}
Verified == {"acquire", "apply", "settle", "mark", "final", "tail"}

\* What a worker may rely on where it is: it converges on the result of the
\* snapshot, after all events, and knows the effects it applied.
WorkerIsSound(w) ==
  /\ worker[w].pc = "ensure" => host.result # None /\ worker[w].result # None
  /\ worker[w].pc \in Converging => conv.result # None /\ worker[w].result = conv.result
  /\ worker[w].pc \in Verified => cursor = host.events
  /\ worker[w].pc = "apply" => (Effects \ worker[w].left) \X {worker[w].result} \subseteq product
  /\ worker[w].pc = "settle" => Effects \X {worker[w].result} \subseteq product
  /\ worker[w].pc \in {"mark", "final", "tail"} => ledger.state = "completed"
  /\ worker[w].pc = "acknowledge" => dispatch # "active"

ConvInv ==
  /\ TypeOK
  /\ HostIsHeard
  /\ \A w \in Workers : WorkerIsSound(w)
  /\ OneOutcome
  /\ DoneIsConsistent

\* What no step takes back.
Grows ==
  /\ host.result # None => host' = host
  /\ cursor = host.events /\ host.result # None => cursor' = cursor
  /\ conv.result # None => conv'.result = conv.result
  /\ ledger.state = "completed" => ledger' = ledger
  /\ product \subseteq product'
  /\ dispatch # "active" => dispatch' = dispatch

-------------------------------------------------------------------------------
(* Types *)

\* The names of the results, and what becomes of them.
LEMMA ResultsNamed ==
  /\ None \notin Results /\ None \notin HostResults
  /\ \A r \in Results :
       /\ RunStatus(r) \in RunStatuses \ RunOpen
       /\ PlanStatus(r) \in PlanStatuses
       /\ DispatchStatus(r) \in DispatchTerminal
  /\ \A r \in HostResults, c \in BOOLEAN : Normalize(r, c) \in Results
  /\ "active" \notin DispatchTerminal
BY ConvergenceAssumption
   DEF Results, HostResults, RunStatus, PlanStatus, DispatchStatus, RunStatuses, RunOpen,
       PlanStatuses, DispatchTerminal, Normalize

LEMMA ItemsTyped == 0 \in Items /\ Idle \in Worker
BY ConvergenceAssumption DEF Items, Idle, Worker, WorkerPCs

\* A worker that gives its attempt up keeps its type.
LEMMA GivesUpTyped ==
  ASSUME worker \in [Workers -> Worker], NEW w \in Workers, GivesUp(w)
  PROVE  worker' \in [Workers -> Worker] /\ worker'[w].pc = "retry"
<1>1. [Idle EXCEPT !.pc = "retry", !.item = worker[w].item] \in Worker
  BY ItemsTyped DEF Worker, WorkerPCs
<1> QED BY <1>1, ItemsTyped DEF GivesUp, Worker

\* The types hold in every initial state.
LEMMA InitTyped ==
  ASSUME InitRunning \/ InitSubmitUnknown \/ InitLegacy, InitWorkers
  PROVE  TypeOK
<1>0. worker \in [Workers -> Worker] /\ sweep \in {"rest", "listed", "marked", "ended"} /\ faults \in 0..MaxFaults
  BY ItemsTyped, ConvergenceAssumption DEF InitWorkers
<1>1. CASE InitRunning \/ InitSubmitUnknown
  <2>1. /\ host = [events |-> 0, result |-> None] /\ cursor = 0 /\ run = "running" /\ dispatch = "active"
        /\ plan \in PlanStatuses
        /\ queue = [i \in Items |-> [status |-> IF i = 0 THEN "waiting" ELSE "absent", holder |-> None]]
        /\ conv = [result |-> None, steps |-> {}, done |-> FALSE, blocked |-> FALSE, legacy |-> "no"]
        /\ admission = Admissions /\ bearer \in Workers /\ ledger = [state |-> "pending", claim |-> 0]
        /\ product = {} /\ published = {}
    BY <1>1, ConvergenceAssumption DEF InitRunning, InitSubmitUnknown, InitHandedOver, PlanStatuses
  <2>2. host \in [events : 0..LastEvent, result : HostResults \cup {None}] /\ cursor \in 0..host.events
    BY <2>1, ConvergenceAssumption
  <2>3. conv \in Convergence /\ run \in RunStatuses
    BY <2>1 DEF Convergence, RunStatuses, RunOpen
  <2>4. queue \in [Items -> [status : {"absent", "waiting", "held", "done", "failed"},
                            holder : Workers \cup {None}]]
    BY <2>1
  <2> QED BY <1>0, <2>1, <2>2, <2>3, <2>4 DEF TypeOK
<1>2. CASE InitLegacy
  <2>1. PICK r \in Results, kind \in {"tail", "contradictory"} :
          /\ queue = [i \in Items |-> [status |-> IF i = 0 THEN "failed" ELSE "absent", holder |-> None]]
          /\ host = [events |-> LastEvent, result |-> r]
          /\ cursor = LastEvent
          /\ run = RunStatus(r)
          /\ plan = PlanStatus(r)
          /\ dispatch = DispatchStatus(r)
          /\ admission = {} /\ bearer = None
          /\ conv = [result |-> r, steps |-> {"events", "product"}, done |-> FALSE, blocked |-> FALSE,
                     legacy |-> kind]
          /\ ledger = [state |-> "completed", claim |-> 1]
          /\ product = Effects \X {r}
          /\ published = {}
    BY <1>2 DEF InitLegacy
  <2>2. r \in HostResults /\ LastEvent \in 0..LastEvent
    BY ConvergenceAssumption DEF HostResults
  <2> QED BY <1>0, <2>1, <2>2, ResultsNamed DEF TypeOK, Convergence
<1> QED BY <1>1, <1>2

\* A step of the Host, of a user, a redelivered task or the sweep keeps the types.
LEMMA OthersTyped == ASSUME TypeOK, HostIsHeard, Others PROVE TypeOK'
<1>1. CASE HostEmits
  <2>1. host.events + 1 \in 0..LastEvent /\ cursor \in 0..(host.events + 1)
    BY <1>1, ConvergenceAssumption DEF HostEmits, TypeOK
  <2>2. host' \in [events : 0..LastEvent, result : HostResults \cup {None}] /\ host'.events = host.events + 1
    BY <1>1, <2>1 DEF HostEmits, TypeOK
  <2> QED BY <1>1, <2>1, <2>2 DEF HostEmits, TypeOK, record
<1>2. CASE HostEnds
  <2>1. host.events + 1 \in 0..LastEvent /\ cursor \in 0..(host.events + 1)
    BY <1>2, ConvergenceAssumption DEF HostEnds, TypeOK, HostIsHeard
  <2>2. host' \in [events : 0..LastEvent, result : HostResults \cup {None}] /\ host'.events = host.events + 1
    BY <1>2, <2>1 DEF HostEnds
  <2> QED BY <1>2, <2>1, <2>2 DEF HostEnds, TypeOK, record
<1>3. CASE CancelRun
  BY <1>3 DEF CancelRun, TypeOK, RunStatuses, RunOpen
<1>4. CASE CompensateRun
  BY <1>4, ConvergenceAssumption DEF CompensateRun, TypeOK, RunStatuses, Fault
<1>5. CASE SweepLists
  BY <1>5, ConvergenceAssumption DEF SweepLists, TypeOK, Fault, record
<1>6. CASE SweepMarksRun
  BY <1>6 DEF SweepMarksRun, TypeOK, RunStatuses, RunOpen
<1>7. CASE SweepEndsDispatch
  BY <1>7 DEF SweepEndsDispatch, TypeOK, DispatchTerminal
<1>8. CASE SweepReleasesAdmissions
  BY <1>8 DEF SweepReleasesAdmissions, TypeOK
<1>9. CASE RecoverSession \/ LoseHandle
  BY <1>9, ConvergenceAssumption DEF RecoverSession, LoseHandle, TypeOK, Fault, record
<1> QED BY <1>1, <1>2, <1>3, <1>4, <1>5, <1>6, <1>7, <1>8, <1>9 DEF Others

\* The steps about queue items keep the types.
LEMMA QueueTyped ==
  ASSUME TypeOK, NEW w \in Workers,
         \/ Acknowledge(w) \/ Retry(w) \/ Abandon(w) \/ Crash(w)
         \/ \E i \in Items : Lease(w, i)
  PROVE  TypeOK'
<1> DEFINE Q == [status : {"absent", "waiting", "held", "done", "failed"}, holder : Workers \cup {None}]
<1>q. \A i \in Items, s \in {"waiting", "done", "failed"}, h \in Workers \cup {None} :
        [queue EXCEPT ![i] = [status |-> s, holder |-> h]] \in [Items -> Q]
  BY DEF TypeOK
<1>h. \A i \in Items, h \in Workers :
        [queue EXCEPT ![i] = [status |-> "held", holder |-> h]] \in [Items -> Q]
  BY DEF TypeOK
<1>w. [worker EXCEPT ![w] = Idle] \in [Workers -> Worker]
  BY ItemsTyped DEF TypeOK
<1>i. worker[w].item \in Items
  BY DEF TypeOK, Worker
<1>f. Fault => faults' \in 0..MaxFaults
  BY ConvergenceAssumption DEF Fault, TypeOK
<1>1. CASE Acknowledge(w)
  BY <1>1, <1>q, <1>w, <1>i DEF Acknowledge, CompletesItem, TypeOK, record
<1>2. CASE Retry(w)
  BY <1>2, <1>q, <1>w, <1>i, <1>f DEF Retry, TypeOK, record
<1>3. CASE Abandon(w)
  BY <1>3, <1>w DEF Abandon, TypeOK, record
<1>4. CASE Crash(w)
  BY <1>4, <1>w, <1>f DEF Crash, TypeOK, record
<1>5. ASSUME NEW i \in Items, Lease(w, i) PROVE TypeOK'
  <2>1. [Idle EXCEPT !.pc = "begin", !.item = i] \in Worker
    BY ItemsTyped DEF Worker, WorkerPCs
  <2> QED BY <1>5, <1>h, <2>1 DEF Lease, TypeOK, record
<1> QED BY <1>1, <1>2, <1>3, <1>4, <1>5

\* Leases that run out and new recovery items keep the types.
LEMMA ItemTyped ==
  ASSUME TypeOK, NEW i \in Items, LeaseLapses(i) \/ EnqueueTerminalRecovery(i)
  PROVE  TypeOK'
<1> DEFINE Q == [status : {"absent", "waiting", "held", "done", "failed"}, holder : Workers \cup {None}]
<1>1. \A s \in {"waiting", "failed"} :
        [queue EXCEPT ![i] = [status |-> s, holder |-> None]] \in [Items -> Q]
  BY DEF TypeOK
<1>2. Fault => faults' \in 0..MaxFaults
  BY ConvergenceAssumption DEF Fault, TypeOK
<1>3. CASE LeaseLapses(i)
  BY <1>1, <1>2, <1>3 DEF LeaseLapses, TypeOK, record
<1>4. CASE EnqueueTerminalRecovery(i)
  BY <1>1, <1>4 DEF EnqueueTerminalRecovery, TypeOK, record
<1> QED BY <1>3, <1>4

\* The steps before the convergence, and what every failure does, keep the types.
LEMMA IngestTyped ==
  ASSUME TypeOK, HostIsHeard, NEW w \in Workers, WorkerIsSound(w),
         Begin(w) \/ IngestEvent(w) \/ EndIngest(w) \/ GetStatus(w) \/ EnsureProgress(w) \/ CallFails(w)
  PROVE  TypeOK'
<1>w. worker[w] \in Worker /\ worker \in [Workers -> Worker]
  BY DEF TypeOK
<1>g. /\ \A pc \in WorkerPCs : Goto(w, pc) => worker' \in [Workers -> Worker]
      /\ GivesUp(w) => worker' \in [Workers -> Worker]
  BY <1>w, GivesUpTyped DEF Goto, Worker
<1>1. CASE Begin(w)
  <2>1. worker' \in [Workers -> Worker]
    <3>1. \A pc \in WorkerPCs, r \in Results \cup {None} :
            [worker EXCEPT ![w].pc = pc, ![w].result = r] \in [Workers -> Worker]
      BY <1>w DEF Worker
    <3>2. \A n \in 0..LastEvent, c \in BOOLEAN :
            [worker EXCEPT ![w].pc = "ingest", ![w].after = n, ![w].cancelled = c] \in [Workers -> Worker]
      BY <1>w DEF Worker, WorkerPCs
    <3>3. cursor \in 0..LastEvent /\ conv.result \in Results \cup {None}
      BY ConvergenceAssumption DEF TypeOK, Convergence
    <3>4. CASE Incomplete
      <4> DEFINE pc == CASE conv.legacy = "no" -> "verify" [] conv.legacy = "tail" -> "tail" [] OTHER -> "block"
      <4>1. pc \in WorkerPCs
        BY DEF WorkerPCs
      <4>2. worker' = [worker EXCEPT ![w].pc = pc, ![w].result = conv.result]
        BY <1>1, <3>4 DEF Begin
      <4> HIDE DEF pc
      <4> QED BY <4>1, <4>2, <3>1, <3>3
    <3>5. CASE ~Incomplete /\ dispatch # "active"
      BY <1>1, <3>5, <1>g DEF Begin, WorkerPCs
    <3>6. CASE ~Incomplete /\ dispatch = "active"
      <4>1. worker' = [worker EXCEPT ![w].pc = "ingest", ![w].after = cursor, ![w].cancelled = (run = "aborting")]
        BY <1>1, <3>6 DEF Begin
      <4>2. (run = "aborting") \in BOOLEAN
        OBVIOUS
      <4> QED BY <4>1, <4>2, <3>2, <3>3
    <3> QED BY <3>4, <3>5, <3>6
  <2> QED BY <1>1, <2>1 DEF Begin, TypeOK, record
<1>2. CASE IngestEvent(w)
  <2>1. worker[w].after \in 0..LastEvent /\ host.events \in 0..LastEvent
    BY <1>w DEF TypeOK, Worker
  <2>2. worker[w].after + 1 \in 0..LastEvent /\ cursor' \in 0..host.events
    BY <1>2, <2>1, ConvergenceAssumption DEF IngestEvent, TypeOK
  <2>3. \A n \in 0..LastEvent : [worker EXCEPT ![w].after = n] \in [Workers -> Worker]
    BY <1>w DEF Worker
  <2>4. worker' = [worker EXCEPT ![w].after = worker[w].after + 1]
    BY <1>2 DEF IngestEvent
  <2>5. worker' \in [Workers -> Worker]
    BY <2>2, <2>3, <2>4
  <2> QED BY <1>2, <2>2, <2>5 DEF IngestEvent, TypeOK, record
<1>3. CASE EndIngest(w)
  BY <1>3, <1>g DEF EndIngest, TypeOK, record, WorkerPCs
<1>4. CASE GetStatus(w)
  <2>1. host.result # None => Normalize(host.result, worker[w].cancelled) \in Results
    BY <1>w, ResultsNamed DEF TypeOK, Worker
  <2>2. \A r \in Results : [worker EXCEPT ![w].pc = "ensure", ![w].cancelled = FALSE, ![w].result = r] \in [Workers -> Worker]
    BY <1>w DEF Worker, WorkerPCs
  <2>3. worker' \in [Workers -> Worker]
    BY <1>4, <1>g, <2>1, <2>2 DEF GetStatus, WorkerPCs
  <2> QED BY <1>4, <2>3 DEF GetStatus, TypeOK, record
<1>5. CASE EnsureProgress(w)
  <2>1. conv' \in Convergence
    <3>1. worker[w].result \in Results \cup {None}
      BY <1>w DEF Worker
    <3>2. \A r \in Results \cup {None} : [conv EXCEPT !.result = r] \in Convergence
      BY DEF TypeOK, Convergence
    <3>3. conv' = conv \/ conv' = [conv EXCEPT !.result = worker[w].result]
      BY <1>5 DEF EnsureProgress
    <3> QED BY <3>1, <3>2, <3>3 DEF TypeOK
  <2>2. worker' \in [Workers -> Worker]
    <3>1. Goto(w, "verify") \/ GivesUp(w)
      BY <1>5 DEF EnsureProgress
    <3> QED BY <3>1, <1>g DEF WorkerPCs
  <2> QED BY <1>5, <2>1, <2>2 DEF EnsureProgress, TypeOK
<1>6. CASE CallFails(w)
  <2>1. conv' \in Convergence
    BY <1>6 DEF CallFails, TypeOK, Convergence
  <2>2. worker' \in [Workers -> Worker]
    BY <1>6, <1>g DEF CallFails, WorkerPCs
  <2>3. ledger' \in [state : {"pending", "applying", "completed"}, claim : Nat]
    BY <1>6 DEF CallFails, TypeOK
  <2>4. faults' \in 0..MaxFaults
    BY <1>6, ConvergenceAssumption DEF CallFails, Fault, TypeOK
  <2> QED BY <1>6, <2>1, <2>2, <2>3, <2>4 DEF CallFails, TypeOK
<1> QED BY <1>1, <1>2, <1>3, <1>4, <1>5, <1>6

\* The steps of the convergence keep the types.
LEMMA ConvergeTyped ==
  ASSUME TypeOK, HostIsHeard, NEW w \in Workers, WorkerIsSound(w),
         \/ VerifyEvents(w) \/ AcquireProjection(w) \/ (\E e \in Effects : ApplyEffect(w, e))
         \/ CompleteProjection(w) \/ MarkProjected(w) \/ FinalizeTerminalEffects(w)
         \/ ConvergeLegacyTail(w) \/ BlockLegacy(w)
  PROVE  TypeOK'
<1> DEFINE L == [state : {"pending", "applying", "completed"}, claim : Nat]
<1> DEFINE Q == [status : {"absent", "waiting", "held", "done", "failed"}, holder : Workers \cup {None}]
<1>w. worker[w] \in Worker /\ worker \in [Workers -> Worker]
  BY DEF TypeOK
<1>g. /\ \A pc \in WorkerPCs : Goto(w, pc) => worker' \in [Workers -> Worker]
      /\ GivesUp(w) => worker' \in [Workers -> Worker]
  BY <1>w, GivesUpTyped DEF Goto, Worker
<1>i. [worker EXCEPT ![w] = Idle] \in [Workers -> Worker] /\ worker[w].item \in Items
  BY <1>w, ItemsTyped DEF Worker
<1>q. \A i \in Items, s \in {"done", "failed"} :
        [queue EXCEPT ![i] = [status |-> s, holder |-> None]] \in [Items -> Q]
  BY DEF TypeOK
<1>f. ConvergeFails(w) => /\ TypeOK' \/ <<queue, host, cursor, sweep, bearer, faults>>' # <<queue, host, cursor, sweep, bearer, faults>>
  <2> SUFFICES ASSUME ConvergeFails(w), UNCHANGED <<queue, host, cursor, sweep, bearer, faults>> PROVE TypeOK'
    OBVIOUS
  <2>1. conv' \in Convergence
    BY DEF ConvergeFails, TypeOK, Convergence
  <2>2. worker' \in [Workers -> Worker]
    BY <1>g DEF ConvergeFails, WorkerPCs
  <2> QED BY <2>1, <2>2 DEF ConvergeFails, TypeOK
<1>r. worker[w].pc \in Converging => worker[w].result \in Results
  BY <1>w DEF WorkerIsSound, TypeOK, Convergence
<1>1. CASE VerifyEvents(w)
  <2>1. conv' \in Convergence
    BY <1>1 DEF VerifyEvents, TypeOK, Convergence
  <2>2. worker' \in [Workers -> Worker]
    BY <1>1, <1>g DEF VerifyEvents, WorkerPCs
  <2> QED BY <1>1, <2>1, <2>2 DEF VerifyEvents, TypeOK
<1>2. CASE AcquireProjection(w)
  <2>1. CASE ConvergeFails(w) /\ UNCHANGED <<queue, host, cursor, sweep, bearer, faults>>
    BY <2>1, <1>f
  <2>2. CASE /\ \/ Goto(w, "final") \/ Goto(w, "mark")
             /\ UNCHANGED <<queue, host, cursor, sweep, record, bearer, faults>>
    BY <2>2, <1>g DEF TypeOK, record, WorkerPCs
  <2>3. CASE /\ UNCHANGED faults \/ Fault
             /\ ledger' = [state |-> "applying", claim |-> ledger.claim + 1]
             /\ worker' = [worker EXCEPT ![w].pc = "apply", ![w].left = Effects, ![w].claim = ledger.claim + 1]
             /\ UNCHANGED <<queue, host, cursor, sweep, bearer, run, plan, dispatch, admission, conv, product, published>>
    <3>1. ledger.claim + 1 \in Nat
      BY DEF TypeOK
    <3>2. \A c \in Nat : [worker EXCEPT ![w].pc = "apply", ![w].left = Effects, ![w].claim = c] \in [Workers -> Worker]
      BY <1>w DEF Worker, WorkerPCs
    <3>3. faults' \in 0..MaxFaults
      BY <2>3, ConvergenceAssumption DEF Fault, TypeOK
    <3>4. ledger' \in L /\ worker' \in [Workers -> Worker]
      BY <2>3, <3>1, <3>2
    <3> QED BY <2>3, <3>3, <3>4 DEF TypeOK
  <2> QED BY <1>2, <2>1, <2>2, <2>3 DEF AcquireProjection
<1>3. ASSUME NEW e \in Effects, ApplyEffect(w, e) PROVE TypeOK'
  <2>1. worker[w].result \in Results
    BY <1>3, <1>r DEF ApplyEffect, Converging
  <2>2. \A s \in SUBSET Effects, pc \in WorkerPCs :
          [worker EXCEPT ![w].left = s, ![w].pc = pc] \in [Workers -> Worker]
    BY <1>w DEF Worker
  <2>3. worker[w].left \ {e} \in SUBSET Effects
    BY <1>w DEF Worker
  <2>4. worker' = [worker EXCEPT ![w].left = worker[w].left \ {e},
                                 ![w].pc = IF worker[w].left = {e} THEN "settle" ELSE "apply"]
    BY <1>3 DEF ApplyEffect
  <2>5. worker' \in [Workers -> Worker]
    BY <2>2, <2>3, <2>4 DEF WorkerPCs
  <2>6. product' \subseteq Effects \X Results
    <3>1. <<e, worker[w].result>> \in Effects \X Results
      BY <2>1
    <3> QED BY <1>3, <3>1 DEF ApplyEffect, TypeOK
  <2> QED BY <1>3, <2>5, <2>6 DEF ApplyEffect, TypeOK
<1>4. CASE CompleteProjection(w)
  <2>1. CASE ConvergeFails(w)
    BY <1>4, <2>1, <1>f DEF CompleteProjection
  <2>2. CASE ~ConvergeFails(w)
    <3>1. ledger' \in L /\ worker' \in [Workers -> Worker]
      BY <1>4, <2>2, <1>g DEF CompleteProjection, WorkerPCs, TypeOK
    <3> QED BY <1>4, <2>2, <3>1 DEF CompleteProjection, TypeOK
  <2> QED BY <2>1, <2>2
<1>5. CASE MarkProjected(w)
  <2>1. conv' \in Convergence
    BY <1>5 DEF MarkProjected, TypeOK, Convergence
  <2>2. worker' \in [Workers -> Worker]
    BY <1>5, <1>g DEF MarkProjected, WorkerPCs
  <2> QED BY <1>5, <2>1, <2>2 DEF MarkProjected, TypeOK
<1>6. CASE FinalizeTerminalEffects(w)
  <2>1. CASE ConvergeFails(w) /\ UNCHANGED queue
    BY <1>6, <2>1, <1>f DEF FinalizeTerminalEffects
  <2>2. CASE ~(ConvergeFails(w) /\ UNCHANGED queue)
    <3>1. worker' \in [Workers -> Worker]
      BY <1>6, <2>2, <1>i DEF FinalizeTerminalEffects
    <3>2. queue' \in [Items -> Q] /\ conv' \in Convergence
      <4>1. CompletesItem(w) => queue' \in [Items -> Q]
        BY <1>i, <1>q DEF CompletesItem
      <4>2. queue \in [Items -> Q] /\ conv \in Convergence
        BY DEF TypeOK
      <4>3. [conv EXCEPT !.done = TRUE, !.blocked = FALSE] \in Convergence
        BY <4>2 DEF Convergence
      <4> QED BY <1>6, <2>2, <4>1, <4>2, <4>3 DEF FinalizeTerminalEffects, record
    <3>3. /\ run' \in RunStatuses /\ plan' \in PlanStatuses
          /\ published' \subseteq RunStatuses /\ dispatch' \in {"active"} \cup DispatchTerminal
      BY <1>6, <2>2, <1>r, ResultsNamed DEF FinalizeTerminalEffects, record, TypeOK, Converging
    <3>4. admission' \subseteq Admissions /\ UNCHANGED <<ledger, product, host, cursor, sweep, bearer, faults>>
      BY <1>6, <2>2 DEF FinalizeTerminalEffects, GivesAdmissionsBack, record, TypeOK
    <3> QED BY <3>1, <3>2, <3>3, <3>4 DEF TypeOK
  <2> QED BY <2>1, <2>2
<1>7. CASE ConvergeLegacyTail(w)
  <2>1. CASE ConvergeFails(w) /\ UNCHANGED queue
    BY <1>7, <2>1, <1>f DEF ConvergeLegacyTail
  <2>2. CASE ~(ConvergeFails(w) /\ UNCHANGED queue)
    <3>1. worker' \in [Workers -> Worker]
      BY <1>7, <2>2, <1>i DEF ConvergeLegacyTail
    <3>2. queue' \in [Items -> Q] /\ conv' \in Convergence
      <4>1. CompletesItem(w) => queue' \in [Items -> Q]
        BY <1>i, <1>q DEF CompletesItem
      <4>2. queue \in [Items -> Q] /\ conv \in Convergence
        BY DEF TypeOK
      <4>3. [conv EXCEPT !.done = TRUE, !.blocked = FALSE] \in Convergence
        BY <4>2 DEF Convergence
      <4> QED BY <1>7, <2>2, <4>1, <4>2, <4>3 DEF ConvergeLegacyTail, record
    <3>3. published' \subseteq RunStatuses
      BY <1>7, <2>2, <1>r, ResultsNamed DEF ConvergeLegacyTail, record, TypeOK, Converging
    <3>4. UNCHANGED <<run, plan, dispatch, admission, ledger, product, host, cursor, sweep, bearer, faults>>
      BY <1>7, <2>2 DEF ConvergeLegacyTail, record
    <3> QED BY <3>1, <3>2, <3>3, <3>4 DEF TypeOK
  <2> QED BY <2>1, <2>2
<1>8. CASE BlockLegacy(w)
  <2>1. queue' \in [Items -> Q] /\ conv' \in Convergence /\ worker' \in [Workers -> Worker]
    BY <1>8, <1>i, <1>q DEF BlockLegacy, TypeOK, Convergence
  <2> QED BY <1>8, <2>1 DEF BlockLegacy, TypeOK
<1> QED BY <1>1, <1>2, <1>3, <1>4, <1>5, <1>6, <1>7, <1>8

\* Every step keeps the types.
LEMMA TypesHold == ConvInv /\ [Next]_vars => TypeOK'
<1> SUFFICES ASSUME ConvInv, [Next]_vars PROVE TypeOK'
  OBVIOUS
<1>1. CASE UNCHANGED vars
  BY <1>1 DEF vars, ConvInv, TypeOK
<1>2. CASE Others
  BY <1>2, OthersTyped DEF ConvInv
<1>3. ASSUME NEW w \in Workers, Work(w) \/ CallFails(w) \/ Crash(w) PROVE TypeOK'
  BY <1>3, QueueTyped, IngestTyped, ConvergeTyped DEF ConvInv, Work
<1>4. ASSUME NEW w \in Workers, NEW i \in Items, Lease(w, i) PROVE TypeOK'
  BY <1>4, QueueTyped DEF ConvInv
<1>5. ASSUME NEW i \in Items, LeaseLapses(i) \/ EnqueueTerminalRecovery(i) PROVE TypeOK'
  BY <1>5, ItemTyped DEF ConvInv
<1> QED BY <1>1, <1>2, <1>3, <1>4, <1>5 DEF Next

-------------------------------------------------------------------------------
(* What no step takes back, and what the other workers keep *)

\* A worker that this step does not move keeps what it relies on.
LEMMA OthersKeep ==
  ASSUME HostIsHeard, Grows, NEW v \in Workers, WorkerIsSound(v), worker'[v] = worker[v]
  PROVE  WorkerIsSound(v)'
BY DEF HostIsHeard, Grows, WorkerIsSound, Converging, Verified

\* A worker that rests, or gives its item up, relies on nothing.
LEMMA RestIsSound ==
  ASSUME NEW w, worker'[w].pc \in {"idle", "begin", "ingest", "status", "retry"}
  PROVE  WorkerIsSound(w)'
BY DEF WorkerIsSound, Converging, Verified

\* Product and snapshot of an outcome stay together while nothing is applied and

\* the snapshot is not written.
LEMMA OutcomeKept ==
  ASSUME OneOutcome, product' = product, conv'.result = conv.result,
         ledger'.state = "completed" => ledger.state = "completed"
  PROVE  OneOutcome'
BY DEF OneOutcome

\* The product of an outcome belongs to its snapshot.
LEMMA DoneHasResult ==
  ASSUME TypeOK
  PROVE  product = Effects \X {conv.result} => conv.result \in Results
<1> SUFFICES ASSUME product = Effects \X {conv.result} PROVE conv.result \in Results
  OBVIOUS
<1>1. <<"usage", conv.result>> \in product
  BY DEF Effects
<1> QED BY <1>1 DEF TypeOK

\* A convergence that is done stays as it is in a step that grows.
LEMMA DoneKept ==
  ASSUME HostIsHeard, Grows, TypeOK, TypeOK', OneOutcome', DoneIsConsistent,
         conv'.done => conv.done, run' = run \/ run \in RunOpen, UNCHANGED plan,
         published \subseteq published', admission' \subseteq admission,
         \A i \in Items : queue'[i].status = "done" => queue[i].status = "done" \/ dispatch # "active"
  PROVE  DoneIsConsistent'
<1>1. ASSUME conv'.done
      PROVE  /\ cursor' = host'.events
             /\ product' = Effects \X {conv'.result}
             /\ run' = RunStatus(conv'.result) /\ plan' = PlanStatus(conv'.result)
             /\ dispatch' = DispatchStatus(conv'.result)
             /\ RunStatus(conv'.result) \in published'
             /\ admission' = {}
  <2>1. conv.done /\ conv.result \in Results
    BY <1>1, DoneHasResult DEF DoneIsConsistent
  <2>2. host.result # None /\ conv.result # None /\ conv'.result = conv.result
    BY <2>1, ResultsNamed DEF HostIsHeard, Grows
  <2>3. cursor' = host'.events
    BY <2>1, <2>2 DEF Grows, DoneIsConsistent
  <2>4. product' = Effects \X {conv.result}
    <3>1. Effects \X {conv.result} \subseteq product'
      BY <2>1 DEF Grows, DoneIsConsistent
    <3>2. \A q \in product' : q \in Effects \X Results /\ q[2] = conv.result
      BY <2>2 DEF OneOutcome, TypeOK
    <3>3. product' \subseteq Effects \X {conv.result}
      BY <3>2
    <3> QED BY <3>1, <3>3
  <2>5. run' = run /\ plan' = plan
    BY <2>1, ResultsNamed DEF DoneIsConsistent
  <2>6. dispatch' = dispatch
    BY <2>1, ResultsNamed DEF DoneIsConsistent, Grows
  <2> QED BY <2>1, <2>2, <2>3, <2>4, <2>5, <2>6 DEF DoneIsConsistent
<1>2. ASSUME NEW i \in Items, queue'[i].status = "done" PROVE dispatch' # "active"
  BY <1>2 DEF DoneIsConsistent, Grows
<1> QED BY <1>1, <1>2 DEF DoneIsConsistent

\* What remains to be shown of a step once its types are known.
Safe ==
  /\ HostIsHeard
  /\ \A w \in Workers : WorkerIsSound(w)
  /\ OneOutcome
  /\ DoneIsConsistent

\* The Host and the others that end a Run leave the convergence sound.
LEMMA OthersSafe == ASSUME ConvInv, TypeOK', Others PROVE Safe'
<1>0. UNCHANGED <<queue, conv, ledger, product, plan, worker, cursor>>
  BY DEF Others, HostEmits, HostEnds, CancelRun, CompensateRun, SweepLists, SweepMarksRun,
         SweepEndsDispatch, SweepReleasesAdmissions, RecoverSession, LoseHandle, record
<1>1. Grows /\ HostIsHeard'
  <2>1. CASE HostEmits
    <3>1. host'.events = host.events + 1 /\ host'.result = host.result /\ host.result = None
      BY <2>1 DEF HostEmits, ConvInv, TypeOK
    <3>2. dispatch' = dispatch /\ host.events < LastEvent - 1 /\ host.events \in Nat /\ LastEvent \in Nat
      BY <2>1, ConvergenceAssumption DEF HostEmits, record, ConvInv, TypeOK
    <3>3. host'.events < LastEvent
      BY <3>1, <3>2
    <3> QED BY <1>0, <3>1, <3>2, <3>3 DEF Grows, HostIsHeard, ConvInv
  <2>2. CASE HostEnds
    <3>1. host'.result # None /\ host.result = None /\ dispatch' = dispatch
      BY <2>2, ResultsNamed DEF HostEnds, record
    <3> QED BY <1>0, <3>1 DEF Grows, HostIsHeard, ConvInv
  <2>3. CASE ~HostEmits /\ ~HostEnds
    <3>1. UNCHANGED host /\ (dispatch' = dispatch \/ dispatch = "active")
      BY <2>3 DEF Others, CancelRun, CompensateRun, SweepLists, SweepMarksRun, SweepEndsDispatch,
                  SweepReleasesAdmissions, RecoverSession, LoseHandle, record
    <3> QED BY <1>0, <3>1 DEF Grows, HostIsHeard, ConvInv
  <2> QED BY <2>1, <2>2, <2>3
<1>2. \A w \in Workers : WorkerIsSound(w)'
  BY <1>0, <1>1, OthersKeep DEF ConvInv
<1>3. OneOutcome'
  BY <1>0, OutcomeKept DEF ConvInv
<1>4. /\ run' = run \/ run \in RunOpen
      /\ published \subseteq published' /\ admission' \subseteq admission
  BY DEF Others, HostEmits, HostEnds, CancelRun, CompensateRun, SweepLists, SweepMarksRun,
         SweepEndsDispatch, SweepReleasesAdmissions, RecoverSession, LoseHandle, record, RunOpen
<1>5. DoneIsConsistent'
  BY <1>0, <1>1, <1>3, <1>4, DoneKept DEF ConvInv
<1> QED BY <1>1, <1>2, <1>3, <1>5 DEF Safe

\* Leases that run out and new recovery items leave the convergence sound.
LEMMA ItemSafe ==
  ASSUME ConvInv, TypeOK', NEW i \in Items, LeaseLapses(i) \/ EnqueueTerminalRecovery(i)
  PROVE  Safe'
<1>0. /\ UNCHANGED <<host, cursor, record, worker>>
      /\ \A j \in Items : queue'[j].status = "done" => queue[j].status = "done"
  BY DEF LeaseLapses, EnqueueTerminalRecovery, ConvInv, TypeOK
<1>1. Grows /\ HostIsHeard'
  BY <1>0 DEF Grows, HostIsHeard, ConvInv, record
<1>2. \A w \in Workers : WorkerIsSound(w)'
  BY <1>0, <1>1, OthersKeep DEF ConvInv
<1>3. OneOutcome'
  BY <1>0, OutcomeKept DEF ConvInv, record
<1>5. DoneIsConsistent'
  BY <1>0, <1>1, <1>3, DoneKept DEF ConvInv, record
<1> QED BY <1>1, <1>2, <1>3, <1>5 DEF Safe

\* The steps about a worker's item leave the convergence sound.
LEMMA QueueSafe ==
  ASSUME ConvInv, TypeOK', NEW w \in Workers,
         \/ Acknowledge(w) \/ Retry(w) \/ Abandon(w) \/ Crash(w)
         \/ \E i \in Items : Lease(w, i)
  PROVE  Safe'
<1>0. /\ UNCHANGED <<host, cursor, record>>
      /\ worker'[w].pc \in {"idle", "begin"}
      /\ \A v \in Workers : v # w => worker'[v] = worker[v]
  <2>0. worker \in [Workers -> Worker]
    BY DEF ConvInv, TypeOK
  <2>1. CASE \E i \in Items : Lease(w, i)
    BY <2>0, <2>1 DEF Lease, Idle
  <2>2. CASE worker' = [worker EXCEPT ![w] = Idle] /\ UNCHANGED <<host, cursor, record>>
    BY <2>0, <2>2 DEF Idle
  <2> QED BY <2>1, <2>2 DEF Acknowledge, Retry, Abandon, Crash
<1>1. \A j \in Items : queue'[j].status = "done" => queue[j].status = "done" \/ dispatch # "active"
  <2>0. queue \in [Items -> [status : {"absent", "waiting", "held", "done", "failed"},
                            holder : Workers \cup {None}]]
    BY DEF ConvInv, TypeOK
  <2>1. CASE Acknowledge(w)
    BY <2>1 DEF Acknowledge, ConvInv, WorkerIsSound
  <2>2. CASE Retry(w)
    <3>1. \/ queue' = queue
          \/ queue' = [queue EXCEPT ![worker[w].item] = [status |-> "waiting", holder |-> None]]
          \/ queue' = [queue EXCEPT ![worker[w].item] = [status |-> "failed", holder |-> None]]
      BY <2>2 DEF Retry
    <3>2. \A s \in {"waiting", "failed"}, j \in Items :
            [queue EXCEPT ![worker[w].item] = [status |-> s, holder |-> None]][j].status = "done"
              => queue[j].status = "done"
      BY <2>0
    <3> QED BY <3>1, <3>2
  <2>3. CASE Abandon(w) \/ Crash(w)
    BY <2>3 DEF Abandon, Crash
  <2>4. CASE \E i \in Items : Lease(w, i)
    <3>1. PICK i \in Items : queue' = [queue EXCEPT ![i] = [status |-> "held", holder |-> w]]
      BY <2>4 DEF Lease
    <3> QED BY <2>0, <3>1
  <2> QED BY <2>1, <2>2, <2>3, <2>4
<1>2. Grows /\ HostIsHeard'
  BY <1>0 DEF Grows, HostIsHeard, ConvInv, record
<1>3. \A v \in Workers : WorkerIsSound(v)'
  BY <1>0, <1>2, OthersKeep, RestIsSound DEF ConvInv
<1>4. OneOutcome'
  BY <1>0, OutcomeKept DEF ConvInv, record
<1>5. DoneIsConsistent'
  BY <1>0, <1>1, <1>2, <1>4, DoneKept DEF ConvInv, record
<1> QED BY <1>2, <1>3, <1>4, <1>5 DEF Safe

\* The steps before a convergence, and every failed call, leave it sound.
LEMMA IngestSafe ==
  ASSUME ConvInv, TypeOK', NEW w \in Workers,
         Begin(w) \/ IngestEvent(w) \/ EndIngest(w) \/ GetStatus(w) \/ EnsureProgress(w) \/ CallFails(w)
  PROVE  Safe'
<1>w. /\ worker \in [Workers -> Worker] /\ HostIsHeard /\ WorkerIsSound(w) /\ TypeOK
      /\ \A pc : Goto(w, pc) => worker'[w].pc = pc /\ worker'[w].result = worker[w].result
      /\ GivesUp(w) => worker'[w].pc = "retry"
  BY GivesUpTyped DEF ConvInv, TypeOK, Goto, Worker
<1>o. /\ UNCHANGED <<host, queue, run, plan, dispatch, admission, product, published>>
      /\ \A v \in Workers : v # w => worker'[v] = worker[v]
  BY <1>w DEF Begin, IngestEvent, EndIngest, GetStatus, EnsureProgress, CallFails, Goto, GivesUp, record
<1>1. CASE Begin(w)
  <2>1. /\ UNCHANGED <<cursor, conv, ledger>>
        /\ Grows /\ HostIsHeard'
    BY <1>1, <1>w DEF Begin, Grows, HostIsHeard, record
  <2>2. WorkerIsSound(w)'
    <3>1. CASE Incomplete
      <4>1. conv.result # None /\ worker'[w].result = conv.result
        BY <1>1, <3>1, <1>w DEF Begin, Incomplete, Worker
      <4>2. \/ worker'[w].pc \in {"verify", "block"}
            \/ worker'[w].pc = "tail" /\ conv.legacy # "no"
        BY <1>1, <3>1, <1>w DEF Begin, Incomplete, Worker
      <4> QED BY <2>1, <4>1, <4>2, <1>w DEF WorkerIsSound, Converging, Verified, HostIsHeard
    <3>2. CASE ~Incomplete /\ dispatch # "active"
      <4>1. worker'[w].pc = "acknowledge"
        BY <1>1, <3>2, <1>w DEF Begin
      <4> QED BY <4>1, <3>2, <1>o DEF WorkerIsSound, Converging, Verified
    <3>3. CASE ~Incomplete /\ dispatch = "active"
      <4>1. worker'[w].pc = "ingest"
        BY <1>1, <3>3, <1>w DEF Begin, Worker
      <4> QED BY <4>1, RestIsSound
    <3> QED BY <3>1, <3>2, <3>3
  <2> QED BY <2>1, <2>2, <1>o, OthersKeep, OutcomeKept, DoneKept DEF ConvInv, Safe
<1>2. CASE IngestEvent(w)
  <2>1. worker[w].after \in Nat /\ host.events \in Nat /\ cursor \in Nat /\ UNCHANGED <<conv, ledger>>
    BY <1>2, <1>w, ConvergenceAssumption DEF IngestEvent, TypeOK, Worker, record
  <2>2. cursor = host.events => cursor' = cursor
    BY <1>2, <2>1 DEF IngestEvent
  <2>3. Grows /\ HostIsHeard'
    BY <2>1, <2>2, <1>o, <1>w DEF Grows, HostIsHeard
  <2>4. WorkerIsSound(w)'
    <3>1. worker'[w].pc = "ingest"
      BY <1>2, <1>w DEF IngestEvent, Worker
    <3> QED BY <3>1, RestIsSound
  <2> QED BY <2>1, <2>3, <2>4, <1>o, OthersKeep, OutcomeKept, DoneKept DEF ConvInv, Safe
<1>3. CASE EndIngest(w)
  <2>1. UNCHANGED <<cursor, conv, ledger>> /\ Grows /\ HostIsHeard'
    BY <1>3, <1>w DEF EndIngest, Grows, HostIsHeard, record
  <2>2. WorkerIsSound(w)'
    BY <1>3, <1>w, RestIsSound DEF EndIngest
  <2> QED BY <2>1, <2>2, <1>o, OthersKeep, OutcomeKept, DoneKept DEF ConvInv, Safe
<1>4. CASE GetStatus(w)
  <2>1. UNCHANGED <<cursor, conv, ledger>> /\ Grows /\ HostIsHeard'
    BY <1>4, <1>w DEF GetStatus, Grows, HostIsHeard, record
  <2>2. WorkerIsSound(w)'
    <3>1. CASE host.result = None \/ host.events > worker[w].after
      BY <1>4, <3>1, <1>w, RestIsSound DEF GetStatus
    <3>2. CASE ~(host.result = None \/ host.events > worker[w].after)
      <4>1. Normalize(host.result, worker[w].cancelled) \in Results
        BY <3>2, <1>w, ResultsNamed DEF TypeOK, Worker
      <4>2. /\ worker'[w].pc = "ensure"
            /\ worker'[w].result = Normalize(host.result, worker[w].cancelled)
        BY <1>4, <3>2, <1>w DEF GetStatus, Worker
      <4> QED BY <4>1, <4>2, <3>2, <1>o, ResultsNamed DEF WorkerIsSound, Converging, Verified
    <3> QED BY <3>1, <3>2
  <2> QED BY <2>1, <2>2, <1>o, OthersKeep, OutcomeKept, DoneKept DEF ConvInv, Safe
<1>5. CASE EnsureProgress(w)
  <2>1. /\ UNCHANGED <<cursor, ledger>> /\ conv' \in Convergence /\ conv \in Convergence
        /\ conv'.steps = conv.steps /\ conv'.done = conv.done /\ conv'.legacy = conv.legacy
        /\ conv.result # None => conv' = conv
        /\ host.result # None
    BY <1>5, <1>w DEF EnsureProgress, TypeOK, Convergence, ConvInv, WorkerIsSound
  <2>2. Grows /\ HostIsHeard'
    BY <2>1, <1>o, <1>w DEF Grows, HostIsHeard
  <2>3. WorkerIsSound(w)'
    <3>1. CASE conv.result = None
      <4>1. /\ worker'[w].pc = "verify" /\ worker'[w].result = worker[w].result
            /\ conv'.result = worker[w].result /\ worker[w].result # None
        BY <1>5, <3>1, <1>w, <2>1 DEF EnsureProgress, WorkerIsSound, Convergence
      <4> QED BY <4>1 DEF WorkerIsSound, Converging, Verified
    <3>2. CASE conv.result # None /\ conv.result = worker[w].result
      <4>1. worker'[w].pc = "verify" /\ worker'[w].result = conv.result /\ conv' = conv
        BY <1>5, <3>2, <1>w DEF EnsureProgress
      <4> QED BY <4>1, <3>2 DEF WorkerIsSound, Converging, Verified
    <3>3. CASE conv.result # None /\ conv.result # worker[w].result
      <4>1. worker'[w].pc = "retry"
        BY <1>5, <3>3, <1>w DEF EnsureProgress
      <4> QED BY <4>1, RestIsSound
    <3> QED BY <3>1, <3>2, <3>3
  <2>4. OneOutcome'
    <3>1. CASE conv.result # None
      BY <2>1, <3>1, <1>o, OutcomeKept DEF ConvInv
    <3>2. CASE conv.result = None
      <4>1. product = {}
        BY <3>2, <1>w, ResultsNamed DEF ConvInv, OneOutcome, TypeOK
      <4>2. ledger.state # "completed"
        <5>1. <<"usage", conv.result>> \in Effects \X {conv.result}
          BY DEF Effects
        <5> QED BY <4>1, <5>1 DEF ConvInv, OneOutcome
      <4> QED BY <4>1, <4>2, <2>1, <1>o DEF OneOutcome
    <3> QED BY <3>1, <3>2
  <2> QED BY <2>1, <2>2, <2>3, <2>4, <1>o, OthersKeep, DoneKept DEF ConvInv, Safe
<1>6. CASE CallFails(w)
  <2>1. /\ UNCHANGED cursor
        /\ conv'.result = conv.result /\ conv'.steps = conv.steps
        /\ conv'.done = conv.done /\ conv'.legacy = conv.legacy
    BY <1>6, <1>w DEF CallFails, TypeOK, Convergence
  <2>2. /\ ledger.state = "completed" => ledger' = ledger
        /\ ledger'.state = "completed" => ledger.state = "completed"
    BY <1>6, <1>w DEF CallFails, TypeOK
  <2>3. Grows /\ HostIsHeard'
    BY <2>1, <2>2, <1>o, <1>w DEF Grows, HostIsHeard
  <2>4. WorkerIsSound(w)'
    <3>1. worker'[w].pc = "retry"
      BY <1>6, <1>w DEF CallFails
    <3> QED BY <3>1, RestIsSound
  <2> QED BY <2>1, <2>2, <2>3, <2>4, <1>o, OthersKeep, OutcomeKept, DoneKept DEF ConvInv, Safe
<1> QED BY <1>1, <1>2, <1>3, <1>4, <1>5, <1>6

\* The steps of the convergence leave it sound.
LEMMA ConvergeSafe ==
  ASSUME ConvInv, TypeOK', NEW w \in Workers,
         \/ VerifyEvents(w) \/ AcquireProjection(w) \/ (\E e \in Effects : ApplyEffect(w, e))
         \/ CompleteProjection(w) \/ MarkProjected(w) \/ FinalizeTerminalEffects(w)
         \/ ConvergeLegacyTail(w) \/ BlockLegacy(w)
  PROVE  Safe'
<1>w. /\ worker \in [Workers -> Worker] /\ HostIsHeard /\ WorkerIsSound(w) /\ TypeOK
      /\ \A pc : Goto(w, pc) => worker'[w].pc = pc /\ worker'[w].result = worker[w].result
      /\ GivesUp(w) => worker'[w].pc = "retry"
      /\ conv \in Convergence
  BY GivesUpTyped DEF ConvInv, TypeOK, Goto, Worker
<1>o. /\ UNCHANGED <<host, cursor>>
      /\ \A v \in Workers : v # w => worker'[v] = worker[v]
  BY <1>w DEF VerifyEvents, AcquireProjection, ApplyEffect, CompleteProjection, MarkProjected,
              FinalizeTerminalEffects, ConvergeLegacyTail, BlockLegacy, Goto, GivesUp, ConvergeFails
<1>c. /\ conv.result # None /\ worker[w].result = conv.result
      /\ ~VerifyEvents(w) /\ ~BlockLegacy(w) => cursor = host.events
  BY <1>w DEF WorkerIsSound, Converging, Verified, VerifyEvents, AcquireProjection, ApplyEffect,
              CompleteProjection, MarkProjected, FinalizeTerminalEffects, ConvergeLegacyTail, BlockLegacy
<1>f. ASSUME ConvergeFails(w), UNCHANGED queue PROVE Safe'
  <2>1. /\ conv'.result = conv.result /\ conv'.steps = conv.steps /\ conv'.done = conv.done
        /\ conv'.legacy = conv.legacy
        /\ UNCHANGED <<run, plan, dispatch, admission, ledger, product, published>>
    BY <1>f, <1>w DEF ConvergeFails, Convergence
  <2>2. Grows /\ HostIsHeard'
    BY <2>1, <1>o, <1>w DEF Grows, HostIsHeard
  <2>3. WorkerIsSound(w)'
    BY <1>f, <1>w, RestIsSound DEF ConvergeFails
  <2> QED BY <1>f, <2>1, <2>2, <2>3, <1>o, OthersKeep, OutcomeKept, DoneKept DEF ConvInv, Safe
<1>1. CASE VerifyEvents(w)
  <2>1. /\ conv'.result = conv.result /\ conv'.done = conv.done /\ conv'.legacy = conv.legacy
        /\ "product" \in conv'.steps => "product" \in conv.steps
        /\ UNCHANGED <<run, plan, dispatch, admission, ledger, product, published, queue>>
    BY <1>1, <1>w DEF VerifyEvents, Convergence
  <2>2. Grows /\ HostIsHeard'
    BY <2>1, <1>o, <1>w DEF Grows, HostIsHeard
  <2>3. WorkerIsSound(w)'
    <3>1. worker'[w].pc = "acquire" /\ worker'[w].result = worker[w].result /\ cursor = host.events
      BY <1>1, <1>w DEF VerifyEvents
    <3> QED BY <3>1, <2>1, <1>o, <1>c DEF WorkerIsSound
  <2> QED BY <2>1, <2>2, <2>3, <1>o, OthersKeep, OutcomeKept, DoneKept DEF ConvInv, Safe
<1>2. CASE AcquireProjection(w)
  <2>1. CASE ConvergeFails(w) /\ UNCHANGED queue
    BY <2>1, <1>f
  <2>2. CASE /\ "product" \in conv.steps \/ ledger.state = "completed"
             /\ Goto(w, IF "product" \in conv.steps THEN "final" ELSE "mark")
             /\ UNCHANGED <<queue, record>>
    <3>1. Grows /\ HostIsHeard'
      BY <2>2, <1>o, <1>w DEF Grows, HostIsHeard, record
    <3>2. ledger.state = "completed"
      BY <2>2, <1>w DEF HostIsHeard
    <3>3. WorkerIsSound(w)'
      <4>1. worker'[w].pc \in {"mark", "final"} /\ worker'[w].result = worker[w].result
        BY <2>2, <1>w
      <4>2. cursor = host.events
        BY <1>2, <1>w DEF AcquireProjection, WorkerIsSound, Verified
      <4> QED BY <4>1, <4>2, <2>2, <3>2, <1>o, <1>c DEF WorkerIsSound, record
    <3> QED BY <2>2, <3>1, <3>3, <1>o, OthersKeep, OutcomeKept, DoneKept DEF ConvInv, Safe, record
  <2>3. CASE /\ ledger.state # "completed"
             /\ ledger' = [state |-> "applying", claim |-> ledger.claim + 1]
             /\ worker' = [worker EXCEPT ![w].pc = "apply", ![w].left = Effects, ![w].claim = ledger.claim + 1]
             /\ UNCHANGED <<queue, run, plan, dispatch, admission, conv, product, published>>
    <3>1. "product" \notin conv.steps /\ ledger'.state # "completed" /\ conv.legacy = "no"
      BY <2>3, <1>w DEF HostIsHeard, Convergence
    <3>2. Grows /\ HostIsHeard'
      BY <2>3, <3>1, <1>o, <1>w DEF Grows, HostIsHeard
    <3>3. WorkerIsSound(w)'
      <4>1. /\ worker'[w].pc = "apply" /\ worker'[w].left = Effects
            /\ worker'[w].result = worker[w].result
        BY <2>3, <1>w DEF Worker
      <4>2. cursor = host.events /\ (Effects \ Effects) \X {worker[w].result} = {}
        BY <1>2, <1>w DEF AcquireProjection, WorkerIsSound, Verified
      <4> QED BY <4>1, <4>2, <2>3, <1>o, <1>c DEF WorkerIsSound
    <3> QED BY <2>3, <3>1, <3>2, <3>3, <1>o, OthersKeep, OutcomeKept, DoneKept DEF ConvInv, Safe
  <2> QED BY <1>2, <2>1, <2>2, <2>3 DEF AcquireProjection
<1>3. ASSUME NEW e \in Effects, ApplyEffect(w, e) PROVE Safe'
  <2>1. /\ product' = product \cup {<<e, worker[w].result>>}
        /\ UNCHANGED <<queue, run, plan, dispatch, admission, conv, ledger, published>>
        /\ worker[w].pc = "apply"
    BY <1>3 DEF ApplyEffect
  <2>2. Grows /\ HostIsHeard'
    BY <2>1, <1>o, <1>w DEF Grows, HostIsHeard
  <2>3. OneOutcome'
    <3>1. \A q \in product' : q[2] = conv.result
      BY <2>1, <1>c DEF ConvInv, OneOutcome
    <3>2. <<e, worker[w].result>> \in Effects \X {conv.result}
      BY <1>c
    <3> QED BY <2>1, <3>1, <3>2 DEF ConvInv, OneOutcome
  <2>4. WorkerIsSound(w)'
    <3>1. /\ worker'[w].left = worker[w].left \ {e} /\ worker'[w].result = worker[w].result
          /\ worker'[w].pc = IF worker[w].left = {e} THEN "settle" ELSE "apply"
      <4>1. worker' = [worker EXCEPT ![w].left = worker[w].left \ {e},
                                     ![w].pc = IF worker[w].left = {e} THEN "settle" ELSE "apply"]
        BY <1>3 DEF ApplyEffect
      <4>2. worker \in [Workers -> Worker]
        BY <1>w
      <4> QED BY <4>1, <4>2 DEF Worker
    <3>2. (Effects \ worker[w].left) \X {worker[w].result} \subseteq product /\ cursor = host.events
      BY <2>1, <1>w DEF WorkerIsSound, Verified
    <3>3. (Effects \ (worker[w].left \ {e})) \X {worker[w].result} \subseteq product'
      <4>1. \A x \in Effects \ (worker[w].left \ {e}) : x \in Effects \ worker[w].left \/ x = e
        OBVIOUS
      <4>2. \A x \in Effects \ (worker[w].left \ {e}) : <<x, worker[w].result>> \in product'
        BY <4>1, <3>2, <2>1
      <4> QED BY <4>2
    <3>4. CASE worker[w].left = {e}
      <4>1. Effects \ (worker[w].left \ {e}) = Effects
        BY <3>4
      <4> QED BY <4>1, <3>1, <3>2, <3>3, <3>4, <2>1, <1>c, <1>o DEF WorkerIsSound
    <3>5. CASE worker[w].left # {e}
      BY <3>1, <3>2, <3>3, <3>5, <2>1, <1>c, <1>o DEF WorkerIsSound
    <3> QED BY <3>4, <3>5
  <2> QED BY <2>1, <2>2, <2>3, <2>4, <1>o, OthersKeep, DoneKept DEF ConvInv, Safe
<1>4. CASE CompleteProjection(w)
  <2>1. CASE ConvergeFails(w)
    BY <1>4, <2>1, <1>f DEF CompleteProjection
  <2>2. CASE ~ConvergeFails(w)
    <3>1. /\ ledger' = [ledger EXCEPT !.state = "completed"] /\ Goto(w, "mark") /\ worker[w].pc = "settle"
          /\ ledger.state = "applying"
          /\ UNCHANGED <<queue, run, plan, dispatch, admission, conv, product, published>>
      BY <1>4, <2>2, <1>w DEF CompleteProjection, TypeOK
    <3>2. ledger'.state = "completed"
      BY <3>1, <1>w DEF TypeOK
    <3>3. Grows /\ HostIsHeard'
      BY <3>1, <3>2, <1>o, <1>w DEF Grows, HostIsHeard
    <3>4. OneOutcome'
      <4>1. Effects \X {conv.result} \subseteq product
        BY <3>1, <1>c, <1>w DEF WorkerIsSound
      <4>2. \A q \in product : q \in Effects \X Results /\ q[2] = conv.result
        BY <1>w DEF ConvInv, OneOutcome, TypeOK
      <4>3. product \subseteq Effects \X {conv.result}
        BY <4>2
      <4> QED BY <3>1, <4>1, <4>2, <4>3 DEF OneOutcome
    <3>5. WorkerIsSound(w)'
      <4>1. worker'[w].pc = "mark" /\ worker'[w].result = worker[w].result /\ cursor = host.events
        BY <3>1, <1>w DEF WorkerIsSound, Verified
      <4> QED BY <4>1, <3>1, <3>2, <1>c, <1>o DEF WorkerIsSound
    <3> QED BY <3>1, <3>3, <3>4, <3>5, <1>o, OthersKeep, DoneKept DEF ConvInv, Safe
  <2> QED BY <2>1, <2>2
<1>5. CASE MarkProjected(w)
  <2>1. /\ conv'.result = conv.result /\ conv'.done = conv.done /\ conv'.legacy = conv.legacy
        /\ UNCHANGED <<run, plan, dispatch, admission, ledger, product, published, queue>>
        /\ ledger.state = "completed" /\ cursor = host.events
    BY <1>5, <1>w DEF MarkProjected, Convergence, WorkerIsSound, Verified
  <2>2. Grows /\ HostIsHeard'
    BY <2>1, <1>o, <1>w DEF Grows, HostIsHeard
  <2>3. WorkerIsSound(w)'
    <3>1. worker'[w].pc = "final" /\ worker'[w].result = worker[w].result
      BY <1>5, <1>w DEF MarkProjected
    <3> QED BY <3>1, <2>1, <1>o, <1>c DEF WorkerIsSound
  <2> QED BY <2>1, <2>2, <2>3, <1>o, OthersKeep, OutcomeKept, DoneKept DEF ConvInv, Safe

<1>p. ledger.state = "completed" => product = Effects \X {conv.result}
  BY DEF ConvInv, OneOutcome
<1>i. ASSUME worker' = [worker EXCEPT ![w] = Idle] PROVE WorkerIsSound(w)'
  <2>1. worker'[w].pc = "idle"
    BY <1>w, <1>i DEF Idle
  <2> QED BY <2>1, RestIsSound
<1>6. CASE FinalizeTerminalEffects(w)
  <2>1. CASE ConvergeFails(w) /\ UNCHANGED queue
    BY <2>1, <1>f
  <2>2. CASE worker' = [worker EXCEPT ![w] = Idle] /\ UNCHANGED <<queue, record>>
    <3>1. Grows /\ HostIsHeard'
      BY <2>2, <1>o, <1>w DEF Grows, HostIsHeard, record
    <3> QED BY <2>2, <3>1, <1>i, <1>o, OthersKeep, OutcomeKept, DoneKept DEF ConvInv, Safe, record
  <2>3. CASE /\ MayFinalize(w, conv.result)
             /\ run' = RunStatus(conv.result) /\ plan' = PlanStatus(conv.result)
             /\ published' = published \cup {RunStatus(conv.result)} /\ GivesAdmissionsBack
             /\ dispatch' = IF dispatch = "active" THEN DispatchStatus(conv.result) ELSE dispatch
             /\ conv' = [conv EXCEPT !.done = TRUE, !.blocked = FALSE]
             /\ worker' = [worker EXCEPT ![w] = Idle]
             /\ UNCHANGED <<ledger, product>>
    <3>1. dispatch' = DispatchStatus(conv.result) /\ dispatch' # "active" /\ admission' = {}
      BY <2>3, <1>c, <1>w, ResultsNamed DEF MayFinalize, DispatchMayEnd, GivesAdmissionsBack, Convergence
    <3>2. conv'.result = conv.result /\ conv'.steps = conv.steps /\ conv'.legacy = conv.legacy
      BY <2>3, <1>w DEF Convergence
    <3>3. Grows /\ HostIsHeard'
      BY <2>3, <3>1, <3>2, <1>o, <1>w DEF Grows, HostIsHeard
    <3>4. cursor = host.events /\ product = Effects \X {conv.result}
      BY <1>6, <1>w, <1>p DEF FinalizeTerminalEffects, WorkerIsSound, Verified
    <3>5. DoneIsConsistent'
      BY <2>3, <3>1, <3>2, <3>4, <1>o DEF DoneIsConsistent
    <3> QED BY <2>3, <3>2, <3>3, <3>5, <1>i, <1>o, OthersKeep, OutcomeKept DEF ConvInv, Safe
  <2> QED BY <1>6, <1>c, <2>1, <2>2, <2>3 DEF FinalizeTerminalEffects
<1>7. CASE ConvergeLegacyTail(w)
  <2>1. CASE ConvergeFails(w) /\ UNCHANGED queue
    BY <2>1, <1>f
  <2>2. CASE worker' = [worker EXCEPT ![w] = Idle] /\ UNCHANGED <<queue, record>>
    <3>1. Grows /\ HostIsHeard'
      BY <2>2, <1>o, <1>w DEF Grows, HostIsHeard, record
    <3> QED BY <2>2, <3>1, <1>i, <1>o, OthersKeep, OutcomeKept, DoneKept DEF ConvInv, Safe, record
  <2>3. CASE /\ MayEndTail(w, conv.result)
             /\ published' = published \cup {RunStatus(conv.result)}
             /\ conv' = [conv EXCEPT !.done = TRUE, !.blocked = FALSE]
             /\ worker' = [worker EXCEPT ![w] = Idle]
             /\ UNCHANGED <<run, plan, dispatch, admission, ledger, product>>
    <3>1. /\ run = RunStatus(conv.result) /\ plan = PlanStatus(conv.result)
          /\ dispatch = DispatchStatus(conv.result) /\ admission = {} /\ dispatch # "active"
      BY <2>3, <1>c, <1>w, ResultsNamed DEF MayEndTail, LegacyFacts, Convergence
    <3>2. conv'.result = conv.result /\ conv'.steps = conv.steps /\ conv'.legacy = conv.legacy
      BY <2>3, <1>w DEF Convergence
    <3>3. Grows /\ HostIsHeard'
      BY <2>3, <3>2, <1>o, <1>w DEF Grows, HostIsHeard
    <3>4. cursor = host.events /\ product = Effects \X {conv.result}
      BY <1>7, <1>w, <1>p DEF ConvergeLegacyTail, WorkerIsSound, Verified
    <3>5. DoneIsConsistent'
      BY <2>3, <3>1, <3>2, <3>4, <1>o DEF DoneIsConsistent
    <3> QED BY <2>3, <3>2, <3>3, <3>5, <1>i, <1>o, OthersKeep, OutcomeKept DEF ConvInv, Safe
  <2> QED BY <1>7, <1>c, <2>1, <2>2, <2>3 DEF ConvergeLegacyTail
<1>8. CASE BlockLegacy(w)
  <2>1. /\ conv'.result = conv.result /\ conv'.steps = conv.steps /\ conv'.done = conv.done
        /\ conv'.legacy = conv.legacy /\ worker' = [worker EXCEPT ![w] = Idle]
        /\ UNCHANGED <<run, plan, dispatch, admission, ledger, product, published>>
    BY <1>8, <1>w DEF BlockLegacy, Convergence
  <2>2. \A i \in Items : queue'[i].status = "done" => queue[i].status = "done"
    BY <1>8, <1>w DEF BlockLegacy, TypeOK
  <2>3. Grows /\ HostIsHeard'
    BY <2>1, <1>o, <1>w DEF Grows, HostIsHeard
  <2> QED BY <2>1, <2>2, <2>3, <1>i, <1>o, OthersKeep, OutcomeKept, DoneKept DEF ConvInv, Safe
<1> QED BY <1>1, <1>2, <1>3, <1>4, <1>5, <1>6, <1>7, <1>8

-------------------------------------------------------------------------------
(* The inductive invariant, and what it implies *)

\* The invariant holds in every initial state.
LEMMA InitInvariant ==
  ASSUME InitRunning \/ InitSubmitUnknown \/ InitLegacy, InitWorkers
  PROVE  ConvInv
<1>1. TypeOK
  BY InitTyped
<1>2. \A w \in Workers : worker[w].pc = "idle"
  BY DEF InitWorkers, Idle
<1>3. \A w \in Workers : WorkerIsSound(w)
  BY <1>2 DEF WorkerIsSound, Converging, Verified
<1>4. CASE InitRunning \/ InitSubmitUnknown
  <2>1. /\ host = [events |-> 0, result |-> None]
        /\ conv = [result |-> None, steps |-> {}, done |-> FALSE, blocked |-> FALSE, legacy |-> "no"]
        /\ ledger = [state |-> "pending", claim |-> 0] /\ product = {}
        /\ \A i \in Items : queue[i].status \in {"waiting", "absent"}
    BY <1>4 DEF InitRunning, InitSubmitUnknown, InitHandedOver
  <2> QED BY <1>1, <1>3, <2>1, ConvergenceAssumption DEF ConvInv, HostIsHeard, OneOutcome, DoneIsConsistent
<1>5. CASE InitLegacy
  <2>1. PICK r \in Results, kind \in {"tail", "contradictory"} :
          /\ host = [events |-> LastEvent, result |-> r] /\ cursor = LastEvent
          /\ conv = [result |-> r, steps |-> {"events", "product"}, done |-> FALSE, blocked |-> FALSE,
                     legacy |-> kind]
          /\ ledger = [state |-> "completed", claim |-> 1] /\ product = Effects \X {r}
          /\ queue = [i \in Items |-> [status |-> IF i = 0 THEN "failed" ELSE "absent", holder |-> None]]
    BY <1>5 DEF InitLegacy
  <2>2. r # None /\ \A i \in Items : queue[i].status \in {"failed", "absent"}
    BY <2>1, ResultsNamed
  <2>3. HostIsHeard /\ OneOutcome /\ DoneIsConsistent
    BY <2>1, <2>2 DEF HostIsHeard, OneOutcome, DoneIsConsistent
  <2> QED BY <1>1, <1>3, <2>3 DEF ConvInv
<1> QED BY <1>4, <1>5

\* Every step keeps the invariant.
LEMMA StepInvariant == ConvInv /\ [Next]_vars => ConvInv'
<1> SUFFICES ASSUME ConvInv, [Next]_vars PROVE ConvInv'
  OBVIOUS
<1>t. TypeOK'
  BY TypesHold
<1>1. CASE UNCHANGED vars
  BY <1>1 DEF vars, ConvInv, TypeOK, HostIsHeard, WorkerIsSound, OneOutcome, DoneIsConsistent
<1>2. CASE Others
  BY <1>2, <1>t, OthersSafe DEF ConvInv, Safe
<1>3. ASSUME NEW w \in Workers, Work(w) \/ CallFails(w) \/ Crash(w) PROVE ConvInv'
  BY <1>3, <1>t, QueueSafe, IngestSafe, ConvergeSafe DEF ConvInv, Safe, Work
<1>4. ASSUME NEW w \in Workers, NEW i \in Items, Lease(w, i) PROVE ConvInv'
  BY <1>4, <1>t, QueueSafe DEF ConvInv, Safe
<1>5. ASSUME NEW i \in Items, LeaseLapses(i) \/ EnqueueTerminalRecovery(i) PROVE ConvInv'
  BY <1>5, <1>t, ItemSafe DEF ConvInv, Safe
<1> QED BY <1>1, <1>2, <1>3, <1>4, <1>5 DEF Next

\* The states keep their types, whatever workers, users, sweeps and failures do.
THEOREM TypeCorrect == Spec => []TypeOK
<1>1. Init => ConvInv
  BY InitInvariant DEF Init
<1>2. ConvInv => TypeOK
  BY DEF ConvInv
<1> QED BY <1>1, <1>2, StepInvariant, PTL DEF Spec

\* The product shows the effects of one result, that of the snapshot, for every
\* number of workers that converge and reclaim beside each other.
THEOREM ProductTellsOneOutcome == Spec => []OneOutcome
<1>1. Init => ConvInv
  BY InitInvariant DEF Init
<1>2. ConvInv => OneOutcome
  BY DEF ConvInv
<1> QED BY <1>1, <1>2, StepInvariant, PTL DEF Spec

\* A complete convergence is complete everywhere and stays so.
THEOREM CompleteIsConsistent == Spec => []DoneIsConsistent
<1>1. Init => ConvInv
  BY InitInvariant DEF Init
<1>2. ConvInv => DoneIsConsistent
  BY DEF ConvInv
<1> QED BY <1>1, <1>2, StepInvariant, PTL DEF Spec

\* The same after a submit without an answer: such a Run may never converge,
\* but it does not converge wrongly either.
THEOREM UnknownSubmitIsSafe == UnknownSpec => [](OneOutcome /\ DoneIsConsistent)
<1>1. InitSubmitUnknown /\ InitWorkers => ConvInv
  BY InitInvariant
<1>2. ConvInv => OneOutcome /\ DoneIsConsistent
  BY DEF ConvInv
<1> QED BY <1>1, <1>2, StepInvariant, PTL DEF UnknownSpec

-------------------------------------------------------------------------------
(* The one outcome of a Run *)

\* What a step does to what is seen of the outcome.
Decides ==
  conv.result = None /\ conv'.result \in Results /\ UNCHANGED product /\ conv'.done = conv.done

Shows(e) ==
  /\ conv.result # None /\ conv'.result = conv.result /\ conv'.done = conv.done
  /\ Before(e) \X {conv.result} \subseteq product
  /\ product' = product \cup {<<e, conv.result>>}

Concludes ==
  /\ conv.result # None /\ conv'.result = conv.result /\ UNCHANGED product
  /\ ~conv.done /\ conv'.done /\ ledger.state = "completed"

Hides == conv'.result = conv.result /\ UNCHANGED product /\ conv'.done = conv.done

\* A step that works on the convergence shows something of it, or nothing.
LEMMA OutcomeMoves ==
  ASSUME ConvInv, Next
  PROVE  Decides \/ (\E e \in Effects : Shows(e)) \/ Concludes \/ Hides
<1>t. conv \in Convergence /\ worker \in [Workers -> Worker] /\ \A w \in Workers : WorkerIsSound(w)
  BY DEF ConvInv, TypeOK
<1>1. CASE Others
  BY <1>1 DEF Others, HostEmits, HostEnds, CancelRun, CompensateRun, SweepLists, SweepMarksRun,
              SweepEndsDispatch, SweepReleasesAdmissions, RecoverSession, LoseHandle, record, Hides
<1>2. CASE \E i \in Items : LeaseLapses(i) \/ EnqueueTerminalRecovery(i)
  BY <1>2 DEF LeaseLapses, EnqueueTerminalRecovery, record, Hides
<1>3. ASSUME NEW w \in Workers,
             \/ Begin(w) \/ Acknowledge(w) \/ IngestEvent(w) \/ EndIngest(w) \/ GetStatus(w)
             \/ Retry(w) \/ Abandon(w) \/ Crash(w) \/ \E i \in Items : Lease(w, i)
      PROVE  Hides
  BY <1>3 DEF Begin, Acknowledge, IngestEvent, EndIngest, GetStatus, Retry, Abandon, Crash, Lease, record, Hides
<1>f. ASSUME NEW w \in Workers, ConvergeFails(w) PROVE Hides
  BY <1>t, <1>f DEF ConvergeFails, Convergence, Hides
<1>4. ASSUME NEW w \in Workers, CallFails(w) \/ VerifyEvents(w) \/ MarkProjected(w) \/ BlockLegacy(w)
      PROVE  Hides
  BY <1>t, <1>4 DEF CallFails, VerifyEvents, MarkProjected, BlockLegacy, Convergence, Hides
<1>5. ASSUME NEW w \in Workers, AcquireProjection(w) \/ CompleteProjection(w) PROVE Hides
  <2>1. ConvergeFails(w) \/ UNCHANGED <<conv, product>>
    BY <1>5 DEF AcquireProjection, CompleteProjection, record
  <2> QED BY <2>1, <1>f DEF Hides
<1>6. ASSUME NEW w \in Workers, EnsureProgress(w) PROVE Decides \/ Hides
  <2>1. worker[w].pc = "ensure" /\ worker[w].result \in Results /\ UNCHANGED product
    BY <1>t, <1>6 DEF EnsureProgress, WorkerIsSound, Worker
  <2>2. \/ conv.result = None /\ conv' = [conv EXCEPT !.result = worker[w].result]
        \/ UNCHANGED conv
    BY <1>6 DEF EnsureProgress
  <2> QED BY <1>t, <2>1, <2>2 DEF Convergence, Decides, Hides
<1>7. ASSUME NEW w \in Workers, NEW e \in Effects, ApplyEffect(w, e) PROVE Shows(e)
  <2>1. /\ conv.result # None /\ worker[w].result = conv.result
        /\ (Effects \ worker[w].left) \X {conv.result} \subseteq product
    BY <1>t, <1>7 DEF ApplyEffect, WorkerIsSound, Converging
  <2>2. Before(e) \subseteq Effects \ worker[w].left
    BY <1>7 DEF ApplyEffect, Before, Effects
  <2> QED BY <1>7, <2>1, <2>2 DEF ApplyEffect, Shows
<1>8. ASSUME NEW w \in Workers, FinalizeTerminalEffects(w) \/ ConvergeLegacyTail(w)
      PROVE  Concludes \/ Hides
  <2>1. ledger.state = "completed" /\ conv.result # None
    BY <1>t, <1>8 DEF FinalizeTerminalEffects, ConvergeLegacyTail, WorkerIsSound, Converging
  <2>2. \/ ConvergeFails(w) \/ UNCHANGED <<conv, product>>
        \/ ~conv.done /\ conv' = [conv EXCEPT !.done = TRUE, !.blocked = FALSE] /\ UNCHANGED product
    BY <1>8 DEF FinalizeTerminalEffects, ConvergeLegacyTail, record
  <2>3. CASE ~conv.done /\ conv' = [conv EXCEPT !.done = TRUE, !.blocked = FALSE] /\ UNCHANGED product
    BY <1>t, <2>1, <2>3 DEF Convergence, Concludes
  <2> QED BY <2>2, <2>3, <1>f DEF Hides
<1> QED BY <1>1, <1>2, <1>3, <1>4, <1>5, <1>6, <1>7, <1>8 DEF Next, Work

\* What is told is the verdict of the result, once the convergence is done.
LEMMA ToldIsVerdict ==
  ASSUME ConvInv
  PROVE  /\ conv.done => /\ conv.result \in Results
                         /\ Told = <<RunStatus(conv.result), PlanStatus(conv.result), DispatchStatus(conv.result)>>
         /\ ~conv.done => Told = None
  BY DoneHasResult DEF ConvInv, DoneIsConsistent, Told

\* The Runs that the modelled steps start with are undecided, or shown and not
\* concluded.
LEMMA InitOutcome ==
  ASSUME InitRunning \/ InitSubmitUnknown \/ InitLegacy
  PROVE  Outcome!Init
<1>1. CASE InitRunning \/ InitSubmitUnknown
  BY <1>1 DEF InitRunning, InitSubmitUnknown, InitHandedOver, Outcome!Init, Told
<1>2. CASE InitLegacy
  <2>1. PICK r \in Results : conv.result = r /\ ~conv.done /\ product = Effects \X {r}
    BY <1>2 DEF InitLegacy
  <2> QED BY <2>1 DEF Outcome!Init, Told
<1> QED BY <1>1, <1>2

\* Each step is a step of the outcome, or one that nobody sees.
LEMMA StepOutcome == ConvInv /\ ConvInv' /\ [Next]_vars => [Outcome!Next]_(Outcome!vars)
<1> SUFFICES ASSUME ConvInv, ConvInv', [Next]_vars PROVE [Outcome!Next]_(Outcome!vars)
  OBVIOUS
<1>a. /\ conv.done => /\ conv.result \in Results
                      /\ Told = <<RunStatus(conv.result), PlanStatus(conv.result), DispatchStatus(conv.result)>>
      /\ ~conv.done => Told = None
  BY ToldIsVerdict
<1>b. /\ conv'.done => /\ conv'.result \in Results
                       /\ Told' = <<RunStatus(conv'.result), PlanStatus(conv'.result), DispatchStatus(conv'.result)>>
      /\ ~conv'.done => Told' = None
  <2>1. conv'.done => <<"usage", conv'.result>> \in product'
    BY DEF ConvInv, DoneIsConsistent, Effects
  <2>2. product' \subseteq Effects \X Results
    BY DEF ConvInv, TypeOK
  <2>3. conv'.done => conv'.result \in Results
    BY <2>1, <2>2
  <2> QED BY <2>3 DEF ConvInv, DoneIsConsistent, Told
<1>c. conv'.done = conv.done /\ (conv.done => conv'.result = conv.result) => Told' = Told
  BY <1>a, <1>b
<1>1. CASE UNCHANGED vars
  BY <1>1 DEF vars, Told, Outcome!vars
<1>2. CASE Decides
  <2>1. Told' = Told
    BY <1>2, <1>a, <1>c, ResultsNamed DEF Decides
  <2> QED BY <1>2, <2>1 DEF Decides, Outcome!Decide, Outcome!Next
<1>3. ASSUME NEW e \in Effects, Shows(e) PROVE Outcome!Show(e)
  <2>1. Told' = Told
    BY <1>3, <1>c DEF Shows
  <2>2. \A f \in Effects : <<f, e>> \in {<<"writeback", "task">>, <<"task", "usage">>} => f \in Before(e)
    BY DEF Before, Effects
  <2>3. \A f \in Before(e) : <<f, conv.result>> \in product
    BY <1>3 DEF Shows
  <2> QED BY <1>3, <2>1, <2>2, <2>3 DEF Shows, Outcome!Show
<1>4. CASE Concludes
  <2>1. conv.result \in Results /\ Told = None
        /\ Told' = <<RunStatus(conv.result), PlanStatus(conv.result), DispatchStatus(conv.result)>>
    BY <1>4, <1>a, <1>b DEF Concludes
  <2>2. product = Effects \X {conv.result}
    BY <1>4 DEF Concludes, ConvInv, OneOutcome
  <2> QED BY <1>4, <2>1, <2>2 DEF Concludes, Outcome!Conclude, Outcome!Next
<1>5. CASE Hides
  <2>1. Told' = Told
    BY <1>5, <1>c DEF Hides
  <2> QED BY <1>5, <2>1 DEF Hides, Outcome!vars
<1> QED BY <1>1, <1>2, <1>3, <1>4, <1>5, OutcomeMoves DEF Outcome!Next

\* Convergence with all its workers, failures, cancellations and sweeps does only
\* what the one outcome of a Run allows.
THEOREM ConvergenceImplementsOutcome == Spec => ImplementsOutcome
<1>1. Init => ConvInv /\ Outcome!Init
  BY InitInvariant, InitOutcome DEF Init
<1> QED BY <1>1, StepInvariant, StepOutcome, PTL DEF Spec, ImplementsOutcome, Outcome!Spec

\* So does one that follows a submit without an answer, as far as it comes.
THEOREM UnknownSubmitImplementsOutcome == UnknownSpec => ImplementsOutcome
<1>1. InitSubmitUnknown /\ InitWorkers => ConvInv /\ Outcome!Init
  BY InitInvariant, InitOutcome
<1> QED BY <1>1, StepInvariant, StepOutcome, PTL DEF UnknownSpec, ImplementsOutcome, Outcome!Spec
===============================================================================
