---------------------------- MODULE WorkQueueProofs ----------------------------
(* Proofs of the properties of WorkQueue, and that it implements             *)
(* FencedQueue, for every set of items and workers.                          *)
EXTENDS WorkQueue, TLAPS

\* A worker has an item exactly while it is past a lease, and its proof is not
\* newer than the row.
WorkersMatch ==
  \A w \in Workers :
    IF worker[w].item = None
    THEN worker[w].pc \in {"idle", "swept", "leasing"} /\ worker[w].heartbeat = "off"
    ELSE /\ worker[w].pc \in {"leased", "starting", "working", "stopping", "deciding"}
         /\ worker[w].attempt <= row[worker[w].item].attempt

QueueInv ==
  /\ TypeOK
  /\ WorkersMatch
  /\ OneHolder
  /\ FailureIsCompensated
  /\ DeadLetterIsAuditedOnce

-------------------------------------------------------------------------------
(* Types *)

\* An item's task is an item.
LEMMA TaskOfTyped == \A i \in Items : TaskOf(i) \in Items
BY QueueAssumption DEF TaskOf

\* A row that nobody holds is a row.
LEMMA UnheldTyped ==
  ASSUME TypeOK, NEW i \in Items, NEW status \in Statuses \ Held
  PROVE  /\ Unheld(i, status) \in Row
         /\ Unheld(i, status).status = status
         /\ Unheld(i, status).owner = None
         /\ Unheld(i, status).attempt = row[i].attempt
<1>1. row[i] \in Row
  BY DEF TypeOK
<1> QED BY <1>1 DEF Unheld, Row

\* The part of the type invariant that is about the rows.
RowsOK ==
  /\ row \in [Items -> Row]
  /\ \A i \in Items : (row[i].owner # None) <=> (row[i].status \in Held)

\* A batch of rows that nobody holds any more.
LEMMA BatchTyped ==
  ASSUME TypeOK, NEW s, NEW status \in Statuses \ Held,
         row' = [i \in Items |-> IF i \in s THEN Unheld(i, status) ELSE row[i]]
  PROVE  RowsOK'
<1>1. \A i \in Items : row'[i] = IF i \in s THEN Unheld(i, status) ELSE row[i]
  OBVIOUS
<1>2. \A i \in Items : row'[i] \in Row /\ ((row'[i].owner # None) <=> (row'[i].status \in Held))
  BY <1>1, UnheldTyped DEF TypeOK
<1> QED BY <1>2 DEF RowsOK

\* The part of it that is about the tasks and the recordings.
TasksTyped ==
  /\ task \in [Items -> {"open", "done", "failed"}]
  /\ asset \in [Items -> {"open", "done", "failed"}]

LEMMA CompensateTyped ==
  ASSUME TypeOK, NEW s, Compensate(s)
  PROVE  TasksTyped'
BY DEF TypeOK, TasksTyped, Compensate, CompensateRecording

LEMMA AuditTyped ==
  ASSUME TypeOK, NEW s, Audit(s)
  PROVE  audits' \in [Items -> Nat]
BY DEF TypeOK, Audit

\* The types hold in the empty queue.
LEMMA InitTyped == Init => TypeOK
BY DEF Init, TypeOK, Row, Statuses, Runnable, Failed, Worker, WorkerPCs, Heartbeats, Idle, Held

\* Leases keep the types.
LEMMA LeaseTyped ==
  ASSUME TypeOK, WorkersMatch, NEW w \in Workers,
         LeaseStep(w) \/ \E i \in Items : LeaseByID(w, i)
  PROVE  TypeOK'
<1>s. {"dead_letter", "retry_wait"} \subseteq Statuses \ Held
  BY DEF Statuses, Runnable, Failed, Held
<1>w. \A pc \in WorkerPCs : [worker EXCEPT ![w].pc = pc] \in [Workers -> Worker]
  BY DEF TypeOK, Worker
<1>i. Idle \in Worker
  BY DEF Idle, Worker, WorkerPCs, Heartbeats
<1>1. CASE DeadLetterExpiredExhaustedLeases(w)
  <2> DEFINE dead == {i \in Items : Expired(i) /\ Exhausted(i)}
  <2>1. FinishDeadLetters(dead) /\ worker' = [worker EXCEPT ![w].pc = "swept"]
    BY <1>1 DEF DeadLetterExpiredExhaustedLeases
  <2>2. RowsOK' /\ TasksTyped' /\ audits' \in [Items -> Nat]
    BY <2>1, <1>s, BatchTyped, CompensateTyped, AuditTyped DEF FinishDeadLetters
  <2>3. worker' \in [Workers -> Worker]
    BY <2>1, <1>w DEF WorkerPCs
  <2> QED BY <2>2, <2>3 DEF TypeOK, RowsOK, TasksTyped
<1>2. CASE RetryExpiredLeases(w)
  <2> DEFINE s == {i \in Items : Expired(i) /\ row[i].status = "leased" /\ ~Exhausted(i)}
  <2>1. row' = [i \in Items |-> IF i \in s THEN Unheld(i, "retry_wait") ELSE row[i]]
    BY <1>2 DEF RetryExpiredLeases
  <2>2. RowsOK'
    BY <2>1, <1>s, BatchTyped
  <2>3. worker' \in [Workers -> Worker]
    BY <1>2, <1>w DEF WorkerPCs, RetryExpiredLeases
  <2> QED BY <2>2, <2>3, <1>2 DEF TypeOK, RowsOK, RetryExpiredLeases
<1>3. ASSUME NEW i \in Items, LeaseRow(w, i)
      PROVE  TypeOK'
  <2>1. row[i] \in Row /\ w # None /\ row[i].attempt + 1 \in Nat
    BY QueueAssumption DEF TypeOK, Row
  <2> DEFINE r == [status |-> "leased", attempt |-> row[i].attempt + 1, owner |-> w, beat |-> 0, lapsed |-> FALSE]
  <2>2. r \in Row /\ r.status = "leased" /\ r.owner = w
    BY <2>1 DEF Row, Statuses, Runnable
  <2>6. row' = [row EXCEPT ![i] = r]
    BY <1>3 DEF LeaseRow
  <2>3. [Idle EXCEPT !.pc = "leased", !.item = i, !.attempt = row[i].attempt + 1] \in Worker
    BY <1>i, <2>1 DEF Worker, WorkerPCs, Idle
  <2>4. RowsOK'
    <3> HIDE DEF r
    <3> QED BY <2>6, <2>1, <2>2 DEF TypeOK, RowsOK, Held
  <2>5. worker' \in [Workers -> Worker]
    BY <1>3, <2>3 DEF LeaseRow, TypeOK
  <2> QED BY <1>3, <2>4, <2>5 DEF LeaseRow, TypeOK, RowsOK
<1>4. CASE Lease(w)
  <2>1. CASE \E i \in Items : LeaseRow(w, i)
    BY <2>1, <1>3
  <2>2. CASE worker' = [worker EXCEPT ![w] = Idle] /\ UNCHANGED <<row, audits, task, asset>>
    BY <2>2, <1>i DEF TypeOK
  <2> QED BY <1>4, <2>1, <2>2 DEF Lease
<1> QED BY <1>1, <1>2, <1>3, <1>4 DEF LeaseStep, LeaseByID

\* An update under a proof keeps the types.
LEMMA UpdateTyped ==
  ASSUME TypeOK, NEW w \in Workers, NEW i \in Items,
         NEW status \in {"succeeded", "failed", "retry_wait", "timeout", "dead_letter"},
         UpdateQueueStatus(w, i, status)
  PROVE  RowsOK' /\ TasksTyped' /\ audits' \in [Items -> Nat]
<1> DEFINE actual == ActualStatus(i, status)
<1>1. actual \in Statuses \ Held
  BY DEF ActualStatus, Statuses, Held, Runnable, Failed
<1>2. Unheld(i, actual) \in Row /\ Unheld(i, actual).owner = None /\ Unheld(i, actual).status = actual
  BY <1>1, UnheldTyped
<1>3. row' = [row EXCEPT ![i] = Unheld(i, actual)]
  BY DEF UpdateQueueStatus
<1>4. RowsOK'
  BY <1>1, <1>2, <1>3 DEF TypeOK, RowsOK
<1>5. TasksTyped' /\ audits' \in [Items -> Nat]
  BY CompensateTyped, AuditTyped DEF UpdateQueueStatus, TypeOK, TasksTyped
<1> QED BY <1>4, <1>5

\* Work, its heartbeat and its end keep the types.
LEMMA WorkTyped ==
  ASSUME TypeOK, WorkersMatch, NEW w \in Workers, WorkStep(w) \/ Crash(w)
  PROVE  TypeOK'
<1>i. Idle \in Worker
  BY DEF Idle, Worker, WorkerPCs, Heartbeats
<1>n. worker[w] \in Worker /\ (worker[w].item # None => worker[w].item \in Items)
  BY DEF TypeOK, Worker
<1>m. worker[w].pc \in {"leased", "starting", "working", "stopping", "deciding"} => worker[w].item \in Items
  BY <1>n DEF WorkersMatch
<1> DEFINE i == worker[w].item
<1>1. CASE MarkRunning(w)
  <2>1. CASE ProofMatches(w, i) /\ row' = [row EXCEPT ![i].status = "running"]
    <3>1. i \in Items /\ row[i] \in Row
      BY <1>1, <1>m DEF MarkRunning, TypeOK
    <3>2. RowsOK'
      BY <2>1, <3>1 DEF TypeOK, RowsOK, Row, Statuses, Runnable, Held, ProofMatches
    <3>3. PICK pc \in {"starting", "working"} :
            worker' = [worker EXCEPT ![w].pc = pc, ![w].heartbeat = IF pc = "starting" THEN "on" ELSE "off"]
      BY <1>1, <2>1 DEF MarkRunning
    <3>4. worker' \in [Workers -> Worker]
      <4> DEFINE next == [worker[w] EXCEPT !.pc = pc, !.heartbeat = IF pc = "starting" THEN "on" ELSE "off"]
      <4>1. next \in Worker
        BY <1>n DEF Worker, WorkerPCs, Heartbeats
      <4>2. worker' = [worker EXCEPT ![w] = next]
        BY <3>3
      <4> HIDE DEF next
      <4> QED BY <4>1, <4>2 DEF TypeOK
    <3> QED BY <3>2, <3>4, <1>1 DEF MarkRunning, TypeOK, RowsOK
  <2>2. CASE worker' = [worker EXCEPT ![w] = Idle] /\ UNCHANGED row
    BY <2>2, <1>1, <1>i DEF MarkRunning, TypeOK
  <2> QED BY <1>1, <2>1, <2>2 DEF MarkRunning
<1>2. CASE HeartbeatRenews(w)
  <2>1. i \in Items /\ row[i] \in Row
    BY <1>2, <1>m DEF HeartbeatRenews, TypeOK
  <2>2. RowsOK'
    <3>1. CASE row' = [row EXCEPT ![i].beat = @ + 1]
      <4> DEFINE r == [row[i] EXCEPT !.beat = @ + 1]
      <4>1. r \in Row /\ r.status = row[i].status /\ r.owner = row[i].owner
        BY <2>1 DEF Row
      <4>2. row' = [row EXCEPT ![i] = r]
        BY <3>1
      <4> HIDE DEF r
      <4> QED BY <2>1, <4>1, <4>2 DEF TypeOK, RowsOK
    <3>2. CASE UNCHANGED row
      BY <3>2 DEF TypeOK, RowsOK
    <3> QED BY <1>2, <3>1, <3>2 DEF HeartbeatRenews
  <2>3. worker' \in [Workers -> Worker]
    BY <1>2 DEF HeartbeatRenews, TypeOK, Worker, Heartbeats
  <2> QED BY <2>2, <2>3, <1>2 DEF HeartbeatRenews, TypeOK, RowsOK
<1>3. CASE HeartbeatAnswered(w) \/ HeartbeatFails(w)
  <2>1. worker' \in [Workers -> Worker]
    BY <1>3 DEF HeartbeatAnswered, HeartbeatFails, TypeOK, Worker, Heartbeats, WorkerPCs
  <2> QED BY <2>1, <1>3 DEF HeartbeatAnswered, HeartbeatFails, TypeOK
<1>4. CASE Work(w)
  <2>1. worker' \in [Workers -> Worker]
    BY <1>4 DEF Work, TypeOK, Worker
  <2>2. TasksTyped'
    BY <1>4 DEF Work, TypeOK, TasksTyped
  <2> QED BY <2>1, <2>2, <1>4 DEF Work, TypeOK, TasksTyped
<1>5. CASE StopHeartbeat(w) \/ HeartbeatStopped(w)
  <2>1. worker' \in [Workers -> Worker]
    BY <1>5, <1>i DEF StopHeartbeat, HeartbeatStopped, TypeOK, Worker, Heartbeats, WorkerPCs
  <2> QED BY <2>1, <1>5 DEF StopHeartbeat, HeartbeatStopped, TypeOK
<1>6. CASE EndAttempt(w)
  <2>1. worker' \in [Workers -> Worker]
    BY <1>6, <1>i DEF EndAttempt, TypeOK
  <2>2. i \in Items
    BY <1>6, <1>m DEF EndAttempt
  <2>3. RowsOK' /\ TasksTyped' /\ audits' \in [Items -> Nat]
    BY <1>6, <2>2, UpdateTyped DEF EndAttempt, TypeOK, RowsOK, TasksTyped
  <2> QED BY <2>1, <2>3 DEF TypeOK, RowsOK, TasksTyped
<1>7. CASE Crash(w)
  BY <1>7, <1>i DEF Crash, TypeOK
<1> QED BY <1>1, <1>2, <1>3, <1>4, <1>5, <1>6, <1>7 DEF WorkStep

\* Sweeps keep the types.
LEMMA SweepTyped ==
  ASSUME TypeOK, SweepStep
  PROVE  TypeOK'
<1>s. {"dead_letter", "retry_wait", "timeout"} \subseteq Statuses \ Held
  BY DEF Statuses, Runnable, Failed, Held
<1>1. CASE RecoverExpiredLeases
  <2> DEFINE dead == {i \in Items : Expired(i) /\ Exhausted(i)}
  <2>1. /\ row' = [i \in Items |->
                    IF i \in dead THEN Unheld(i, "dead_letter")
                    ELSE IF Expired(i) /\ row[i].status = "leased" THEN Unheld(i, "retry_wait")
                    ELSE row[i]]
        /\ Compensate(dead) /\ Audit(dead) /\ UNCHANGED worker
    BY <1>1 DEF RecoverExpiredLeases
  <2>2. \A i \in Items : row'[i] \in Row /\ ((row'[i].owner # None) <=> (row'[i].status \in Held))
    BY <2>1, <1>s, UnheldTyped DEF TypeOK
  <2> QED BY <2>1, <2>2, CompensateTyped, AuditTyped DEF TypeOK, TasksTyped
<1>2. CASE RecoverRunningWithoutHeartbeat
  <2> DEFINE stalled == {i \in Items : Expired(i) /\ row[i].status = "running"}
  <2>1. /\ row' = [i \in Items |-> IF i \in stalled THEN Unheld(i, "timeout") ELSE row[i]]
        /\ Compensate(stalled) /\ UNCHANGED <<audits, worker>>
    BY <1>2 DEF RecoverRunningWithoutHeartbeat
  <2>2. RowsOK'
    BY <2>1, <1>s, BatchTyped
  <2> QED BY <2>1, <2>2, CompensateTyped DEF TypeOK, RowsOK, TasksTyped
<1>3. CASE RequeueRecoverableQueue
  <2>1. PICK s : row' = [i \in Items |-> IF i \in s THEN Unheld(i, "retry_wait") ELSE row[i]]
    BY <1>3 DEF RequeueRecoverableQueue
  <2>2. RowsOK'
    BY <2>1, <1>s, BatchTyped
  <2> QED BY <1>3, <2>2 DEF RequeueRecoverableQueue, TypeOK, RowsOK
<1>4. CASE MarkDeadLetterCandidates
  <2>1. PICK s : FinishDeadLetters(s)
    BY <1>4 DEF MarkDeadLetterCandidates
  <2>2. RowsOK' /\ TasksTyped' /\ audits' \in [Items -> Nat]
    BY <2>1, <1>s, BatchTyped, CompensateTyped, AuditTyped DEF FinishDeadLetters
  <2> QED BY <1>4, <2>2 DEF MarkDeadLetterCandidates, TypeOK, RowsOK, TasksTyped
<1> QED BY <1>1, <1>2, <1>3, <1>4 DEF SweepStep

\* What a client or an administrator does to one item keeps the types.
LEMMA ItemTyped ==
  ASSUME TypeOK, NEW i \in Items,
         LeaseLapses(i) \/ Enqueue(i) \/ MarkIgnored(i) \/ ReplayDeadLetter(i)
  PROVE  TypeOK'
<1>1. row[i] \in Row /\ Unheld(i, "ignored") \in Row
      /\ Unheld(i, "ignored").status = "ignored" /\ Unheld(i, "ignored").owner = None
  BY UnheldTyped DEF TypeOK, Statuses, Held, Runnable, Failed
<1>2. RowsOK'
  <2>1. CASE LeaseLapses(i)
    BY <2>1, <1>1 DEF LeaseLapses, TypeOK, RowsOK, Row
  <2>2. CASE Enqueue(i) \/ ReplayDeadLetter(i)
    BY <2>2, <1>1 DEF Enqueue, ReplayDeadLetter, TypeOK, RowsOK, Row, Statuses, Runnable, Held
  <2>3. CASE MarkIgnored(i)
    BY <2>3, <1>1 DEF MarkIgnored, TypeOK, RowsOK, Held
  <2> QED BY <2>1, <2>2, <2>3
<1> QED BY <1>2 DEF LeaseLapses, Enqueue, MarkIgnored, ReplayDeadLetter, TypeOK, RowsOK

-------------------------------------------------------------------------------
(* Leases and their holders *)

\* No step lowers a row's attempt, and only a lease raises it.
LEMMA AttemptsGrow ==
  ASSUME TypeOK, WorkersMatch, [Next]_vars, NEW i \in Items
  PROVE  /\ row'[i].attempt \in Nat
         /\ row'[i].attempt >= row[i].attempt
         /\ row'[i].attempt # row[i].attempt => \E w \in Workers : LeaseRow(w, i)
<1>1. row[i] \in Row /\ row[i].attempt \in Nat
  BY DEF TypeOK, Row
<1>2. \A j \in Items : \A status : Unheld(j, status).attempt = row[j].attempt
  <2> TAKE j \in Items
  <2> TAKE status
  <2>1. row[j] \in Row
    BY DEF TypeOK
  <2> QED BY <2>1 DEF Unheld, Row
<1>3. ASSUME NEW w \in Workers, NEW j \in Items, LeaseRow(w, j)
      PROVE  row'[i].attempt = IF i = j THEN row[i].attempt + 1 ELSE row[i].attempt
  BY <1>1, <1>3 DEF LeaseRow, TypeOK, Row
<1>4. CASE \E w \in Workers : LeaseStep(w) \/ \E j \in Items : LeaseByID(w, j)
  <2>1. PICK w \in Workers : LeaseStep(w) \/ \E j \in Items : LeaseByID(w, j)
    BY <1>4
  <2>2. CASE \E j \in Items : LeaseRow(w, j)
    BY <2>2, <1>1, <1>3
  <2>3. CASE DeadLetterExpiredExhaustedLeases(w) \/ RetryExpiredLeases(w) \/ UNCHANGED row
    BY <2>3, <1>1, <1>2 DEF DeadLetterExpiredExhaustedLeases, FinishDeadLetters, RetryExpiredLeases
  <2> QED BY <2>1, <2>2, <2>3 DEF LeaseStep, LeaseByID, Lease
<1>5. CASE \E w \in Workers : WorkStep(w) \/ Crash(w)
  <2>1. PICK w \in Workers : WorkStep(w) \/ Crash(w)
    BY <1>5
  <2> DEFINE k == worker[w].item
  <2>2. CASE EndAttempt(w)
    <3>1. k \in Items
      BY <2>2 DEF EndAttempt, WorkersMatch, TypeOK, Worker
    <3>2. UNCHANGED row \/ \E status : row' = [row EXCEPT ![k] = Unheld(k, status)]
      BY <2>2 DEF EndAttempt, UpdateQueueStatus
    <3> QED BY <3>1, <3>2, <1>1, <1>2 DEF TypeOK
  <2>3. CASE MarkRunning(w) \/ HeartbeatRenews(w)
    BY <2>3, <1>1 DEF MarkRunning, HeartbeatRenews, TypeOK, Row
  <2>4. CASE UNCHANGED row
    BY <2>4, <1>1
  <2> QED BY <2>1, <2>2, <2>3, <2>4
       DEF WorkStep, HeartbeatAnswered, HeartbeatFails, Work, StopHeartbeat, HeartbeatStopped, Crash
<1>6. CASE SweepStep
  BY <1>6, <1>1, <1>2 DEF SweepStep, RecoverExpiredLeases, RecoverRunningWithoutHeartbeat,
       RequeueRecoverableQueue, MarkDeadLetterCandidates, FinishDeadLetters
<1>7. CASE \E j \in Items : LeaseLapses(j) \/ Enqueue(j) \/ MarkIgnored(j) \/ ReplayDeadLetter(j)
  BY <1>7, <1>1, <1>2 DEF LeaseLapses, Enqueue, MarkIgnored, ReplayDeadLetter, TypeOK, Row
<1>8. CASE UNCHANGED vars
  BY <1>8, <1>1 DEF vars
<1> QED BY <1>4, <1>5, <1>6, <1>7, <1>8 DEF Next
\* What a step does to the proof of a worker: it keeps it, drops it, or has a
\* new one.
LEMMA ProofChanges ==
  ASSUME TypeOK, WorkersMatch, [Next]_vars, NEW v \in Workers
  PROVE  \/ /\ worker'[v].item = worker[v].item
            /\ worker'[v].attempt = worker[v].attempt
            /\ worker[v].item = None =>
                 worker'[v].pc \in {"idle", "swept", "leasing"} /\ worker'[v].heartbeat = "off"
            /\ worker[v].item # None =>
                 worker'[v].pc \in {"leased", "starting", "working", "stopping", "deciding"}
         \/ worker'[v] = Idle
         \/ \E i \in Items : /\ LeaseRow(v, i)
                             /\ worker'[v] = [Idle EXCEPT !.pc = "leased", !.item = i,
                                                          !.attempt = row[i].attempt + 1]
<1> DEFINE Kept(u) == /\ worker'[u].item = worker[u].item
                      /\ worker'[u].attempt = worker[u].attempt
                      /\ worker[u].item = None =>
                           worker'[u].pc \in {"idle", "swept", "leasing"} /\ worker'[u].heartbeat = "off"
                      /\ worker[u].item # None =>
                           worker'[u].pc \in {"leased", "starting", "working", "stopping", "deciding"}
           Leased(u) == \E i \in Items : /\ LeaseRow(u, i)
                                         /\ worker'[u] = [Idle EXCEPT !.pc = "leased", !.item = i,
                                                                      !.attempt = row[i].attempt + 1]
<1>1. worker[v] \in Worker
  BY DEF TypeOK
<1>2. worker'[v] = worker[v] => Kept(v)
  BY DEF WorkersMatch
<1>3. ASSUME NEW u \in Workers, NEW x, worker' = [worker EXCEPT ![u] = x], u # v
      PROVE  Kept(v)
  BY <1>2, <1>3 DEF TypeOK
<1>4. ASSUME NEW u \in Workers, NEW i \in Items, LeaseRow(u, i)
      PROVE  Kept(v) \/ Leased(v)
  <2>1. CASE u = v
    BY <2>1, <1>4 DEF LeaseRow, TypeOK
  <2>2. CASE u # v
    BY <2>2, <1>4, <1>3 DEF LeaseRow
  <2> QED BY <2>1, <2>2
<1>5. ASSUME NEW u \in Workers, LeaseStep(u) \/ \E i \in Items : LeaseByID(u, i)
      PROVE  Kept(v) \/ worker'[v] = Idle \/ Leased(v)
  <2>1. CASE \E i \in Items : LeaseRow(u, i)
    BY <2>1, <1>4
  <2>2. CASE DeadLetterExpiredExhaustedLeases(u) \/ RetryExpiredLeases(u)
    <3>1. PICK pc \in {"swept", "leasing"} : worker' = [worker EXCEPT ![u].pc = pc]
      BY <2>2 DEF DeadLetterExpiredExhaustedLeases, RetryExpiredLeases
    <3>2. worker[u].pc \in {"idle", "swept"}
      BY <2>2 DEF DeadLetterExpiredExhaustedLeases, RetryExpiredLeases
    <3>3. worker[u].item = None
      BY <3>2 DEF WorkersMatch
    <3> QED BY <3>1, <3>3, <1>1, <1>2 DEF TypeOK, WorkersMatch, Worker
  <2>3. CASE worker' = [worker EXCEPT ![u] = Idle]
    BY <2>3, <1>2 DEF TypeOK
  <2> QED BY <1>5, <2>1, <2>2, <2>3 DEF LeaseStep, LeaseByID, Lease
<1>6. ASSUME NEW u \in Workers, WorkStep(u) \/ Crash(u)
      PROVE  Kept(v) \/ worker'[v] = Idle
  <2>1. CASE worker' = [worker EXCEPT ![u] = Idle]
    BY <2>1, <1>2 DEF TypeOK
  <2>2. CASE u # v
    BY <2>2, <1>2, <1>6 DEF WorkStep, MarkRunning, HeartbeatRenews, HeartbeatAnswered, HeartbeatFails,
         Work, StopHeartbeat, HeartbeatStopped, EndAttempt, Crash, TypeOK
  <2>3. CASE u = v /\ worker' # [worker EXCEPT ![u] = Idle]
    <3>1. worker[v].item # None
      BY <2>3, <1>6 DEF WorkersMatch, WorkStep, MarkRunning, HeartbeatRenews, HeartbeatAnswered,
           HeartbeatFails, Work, StopHeartbeat, HeartbeatStopped, EndAttempt, Crash
    <3>2. worker[v].pc \in {"leased", "starting", "working", "stopping", "deciding"}
      BY <3>1 DEF WorkersMatch
    <3> QED BY <2>3, <3>1, <3>2, <1>1, <1>6 DEF WorkStep, MarkRunning, HeartbeatRenews,
         HeartbeatAnswered, HeartbeatFails, Work, StopHeartbeat, HeartbeatStopped, EndAttempt, Crash,
         TypeOK, Worker
  <2> QED BY <2>1, <2>2, <2>3
<1>7. ASSUME UNCHANGED worker
      PROVE  Kept(v)
  BY <1>7, <1>2
<1>8. CASE \E u \in Workers : LeaseStep(u) \/ WorkStep(u) \/ Crash(u) \/ \E i \in Items : LeaseByID(u, i)
  BY <1>8, <1>5, <1>6
<1>9. CASE SweepStep \/ UNCHANGED vars
      \/ \E i \in Items : LeaseLapses(i) \/ Enqueue(i) \/ MarkIgnored(i) \/ ReplayDeadLetter(i)
  BY <1>9, <1>7 DEF SweepStep, RecoverExpiredLeases, RecoverRunningWithoutHeartbeat,
     RequeueRecoverableQueue, MarkDeadLetterCandidates, LeaseLapses, Enqueue, MarkIgnored,
     ReplayDeadLetter, vars
<1> QED BY <1>8, <1>9 DEF Next

\* A worker's proof stays no newer than the row.
LEMMA WorkersMatchKept ==
  ASSUME TypeOK, WorkersMatch, [Next]_vars
  PROVE  WorkersMatch'
<1> SUFFICES ASSUME NEW v \in Workers
             PROVE  IF worker'[v].item = None
                    THEN worker'[v].pc \in {"idle", "swept", "leasing"} /\ worker'[v].heartbeat = "off"
                    ELSE /\ worker'[v].pc \in {"leased", "starting", "working", "stopping", "deciding"}
                         /\ worker'[v].attempt <= row'[worker'[v].item].attempt
  BY DEF WorkersMatch
<1>1. worker[v] \in Worker
  BY DEF TypeOK
<1>2. CASE worker'[v].item = worker[v].item /\ worker'[v].attempt = worker[v].attempt
           /\ worker[v].item # None /\ worker'[v].pc \in {"leased", "starting", "working", "stopping", "deciding"}
  <2>1. worker[v].item \in Items /\ worker[v].attempt <= row[worker[v].item].attempt
    BY <1>1, <1>2 DEF WorkersMatch, Worker
  <2>2. row[worker[v].item].attempt \in Nat /\ worker[v].attempt \in Nat
    BY <2>1, <1>1 DEF TypeOK, Row, Worker
  <2>3. row'[worker[v].item].attempt \in Nat /\ row'[worker[v].item].attempt >= row[worker[v].item].attempt
    BY <2>1, AttemptsGrow
  <2> QED BY <1>2, <2>1, <2>2, <2>3
<1>3. CASE worker'[v] = Idle
  BY <1>3 DEF Idle
<1>4. ASSUME NEW i \in Items, LeaseRow(v, i),
             worker'[v] = [Idle EXCEPT !.pc = "leased", !.item = i, !.attempt = row[i].attempt + 1]
      PROVE  /\ worker'[v].item = i /\ i # None /\ worker'[v].pc = "leased"
             /\ worker'[v].attempt <= row'[i].attempt
  <2>1. row[i].attempt + 1 \in Nat
    BY DEF TypeOK, Row
  <2>2. row'[i].attempt = row[i].attempt + 1
    BY <1>4 DEF LeaseRow, TypeOK
  <2> QED BY <1>4, <2>1, <2>2, QueueAssumption DEF Idle
<1> QED BY <1>2, <1>3, <1>4, ProofChanges

\* A new lease is an attempt nobody has a proof of.
LEMMA OneHolderKept ==
  ASSUME TypeOK, WorkersMatch, OneHolder, [Next]_vars
  PROVE  OneHolder'
<1> SUFFICES ASSUME NEW v \in Workers, NEW w \in Workers, v # w,
                    worker'[v].item # None, worker'[v].item = worker'[w].item
             PROVE  worker'[v].attempt # worker'[w].attempt
  BY DEF OneHolder
<1> DEFINE Kept(u) == worker'[u].item = worker[u].item /\ worker'[u].attempt = worker[u].attempt
           New(u, i) == /\ LeaseRow(u, i)
                        /\ worker'[u] = [Idle EXCEPT !.pc = "leased", !.item = i,
                                                     !.attempt = row[i].attempt + 1]
<1>1. \A u \in {v, w} : Kept(u) \/ \E i \in Items : New(u, i)
  <2> TAKE u \in {v, w}
  <2>1. u \in Workers /\ worker'[u] # Idle
    BY DEF Idle
  <2> QED BY <2>1, ProofChanges
<1>2. ASSUME NEW u \in Workers, NEW x \in Workers, NEW i \in Items, New(u, i), Kept(x), x # u,
             worker'[x].item = worker'[u].item
      PROVE  worker'[x].attempt # worker'[u].attempt
  <2>1. worker'[u].item = i /\ worker'[u].attempt = row[i].attempt + 1
    BY <1>2 DEF Idle
  <2>2. worker[x].item = i /\ i # None
    BY <1>2, <2>1, QueueAssumption
  <2>3. worker[x].attempt <= row[i].attempt /\ worker[x].attempt \in Nat /\ row[i].attempt \in Nat
    BY <2>2 DEF WorkersMatch, TypeOK, Worker, Row
  <2> QED BY <1>2, <2>1, <2>3
<1>3. ASSUME NEW i \in Items, NEW j \in Items, New(v, i), New(w, j)
      PROVE  FALSE
  <2>1. worker'[v] = worker[v] \/ worker'[w] = worker[w]
    BY <1>3 DEF LeaseRow, TypeOK
  <2>2. row'[i].attempt = row[i].attempt + 1 /\ row'[j].attempt = row[j].attempt + 1
    BY <1>3 DEF LeaseRow, TypeOK
  <2>3. ASSUME NEW u \in {v, w}, NEW k \in Items, New(u, k), worker'[u] = worker[u]
        PROVE  FALSE
    <3>1. worker[u].item = k /\ worker[u].attempt = row[k].attempt + 1 /\ k # None
      BY <2>3, QueueAssumption DEF Idle
    <3>2. row[k].attempt \in Nat /\ worker[u].attempt <= row[k].attempt
      BY <3>1 DEF WorkersMatch, TypeOK, Row
    <3> QED BY <3>1, <3>2
  <2> QED BY <2>1, <2>3, <1>3
<1>4. CASE Kept(v) /\ Kept(w)
  BY <1>4 DEF OneHolder
<1>5. CASE \E i \in Items : New(v, i) /\ Kept(w)
  BY <1>5, <1>2
<1>6. CASE \E i \in Items : New(w, i) /\ Kept(v)
  BY <1>6, <1>2
<1>7. CASE \E i, j \in Items : New(v, i) /\ New(w, j)
  BY <1>7, <1>3
<1>8. (Kept(v) \/ \E i \in Items : New(v, i)) /\ (Kept(w) \/ \E i \in Items : New(w, i))
  BY <1>1
<1> HIDE DEF Kept, New
<1> QED BY <1>8, <1>4, <1>5, <1>6, <1>7
-------------------------------------------------------------------------------
(* Failures and their audit *)

\* What an update leaves behind in the rows.
LEMMA UnheldRow ==
  ASSUME TypeOK
  PROVE  \A i \in Items : \A status :
            /\ Unheld(i, status).owner = None
            /\ Unheld(i, status).status = status
            /\ Unheld(i, status).attempt = row[i].attempt
<1> TAKE i \in Items
<1> TAKE status
<1>1. row[i] \in Row
  BY DEF TypeOK
<1> QED BY <1>1 DEF Unheld, Row

\* The row of an item that a worker works on.
LEMMA WorkedItem ==
  ASSUME TypeOK, WorkersMatch, NEW w \in Workers,
         MarkRunning(w) \/ HeartbeatRenews(w) \/ EndAttempt(w)
  PROVE  worker[w].item \in Items
BY DEF TypeOK, WorkersMatch, Worker, MarkRunning, HeartbeatRenews, EndAttempt

\* The failure of an item reached its task and the recording.
ClosedAfter(i) == task'[TaskOf(i)] # "open" /\ asset'[TaskOf(i)] # "open"

\* The statuses, tasks and audits of the items through a step: no failure
\* without its compensation, no dead letter without its audit.
Settled(i) ==
  \/ row'[i].status = row[i].status /\ audits'[i] = audits[i]
  \/ /\ row'[i].status \in Statuses \ Failed /\ row[i].status \notin {"dead_letter", "ignored"}
     /\ audits'[i] = audits[i]
  \/ row'[i].status = "ignored" /\ audits'[i] = audits[i]
  \/ /\ row'[i].status \in {"failed", "timeout"} /\ row[i].status \in Held
     /\ ClosedAfter(i) /\ audits'[i] = audits[i]
  \/ /\ row'[i].status = "dead_letter" /\ row[i].status \in Held \cup {"failed"}
     /\ ClosedAfter(i) /\ audits'[i] = audits[i] + 1

\* A task that ended keeps its end, and a recording that shows one shows another.
EndsStay(t) ==
  /\ task[t] # "open" => task'[t] = task[t]
  /\ asset[t] # "open" => asset'[t] # "open"

\* A compensated item's task is closed, and so is its recording; nothing opens
\* again, and no task that ended changes.
LEMMA CompensateCloses ==
  ASSUME TypeOK, NEW s, Compensate(s)
  PROVE  /\ \A i \in Items : i \in s => ClosedAfter(i)
         /\ \A t \in Items : EndsStay(t)
<1>1. \A t \in Items : task'[t] = IF task[t] = "open" /\ \E i \in s : TaskOf(i) = t THEN "failed" ELSE task[t]
  BY DEF Compensate
<1>2. \A t \in Items : asset'[t] = IF \E i \in s : TaskOf(i) = t THEN "failed" ELSE asset[t]
  BY DEF Compensate, CompensateRecording
<1> QED BY <1>1, <1>2, TaskOfTyped DEF ClosedAfter, EndsStay

\* No step opens a task, or changes one that ended.
LEMMA TasksStay ==
  ASSUME TypeOK, WorkersMatch, [Next]_vars
  PROVE  \A t \in Items : EndsStay(t)
<1>1. ASSUME NEW s, Compensate(s)
      PROVE  \A t \in Items : EndsStay(t)
  BY <1>1, CompensateCloses
<1>2. ASSUME NEW w \in Workers, LeaseStep(w) \/ \E i \in Items : LeaseByID(w, i)
      PROVE  \A t \in Items : EndsStay(t)
  BY <1>1, <1>2 DEF LeaseStep, LeaseByID, Lease, LeaseRow, DeadLetterExpiredExhaustedLeases,
     FinishDeadLetters, RetryExpiredLeases, EndsStay
<1>3. ASSUME NEW w \in Workers, WorkStep(w) \/ Crash(w)
      PROVE  \A t \in Items : EndsStay(t)
  <2>1. CASE Work(w)
    BY <2>1 DEF Work, TypeOK, EndsStay
  <2>2. CASE EndAttempt(w)
    BY <2>2, <1>1 DEF EndAttempt, UpdateQueueStatus, EndsStay
  <2> QED BY <1>3, <2>1, <2>2 DEF WorkStep, MarkRunning, HeartbeatRenews, HeartbeatAnswered,
       HeartbeatFails, StopHeartbeat, HeartbeatStopped, Crash, EndsStay
<1>4. CASE SweepStep \/ UNCHANGED vars
      \/ \E i \in Items : LeaseLapses(i) \/ Enqueue(i) \/ MarkIgnored(i) \/ ReplayDeadLetter(i)
  BY <1>4, <1>1 DEF SweepStep, RecoverExpiredLeases, RecoverRunningWithoutHeartbeat,
     RequeueRecoverableQueue, MarkDeadLetterCandidates, FinishDeadLetters, LeaseLapses, Enqueue,
     MarkIgnored, ReplayDeadLetter, vars, EndsStay
<1> QED BY <1>2, <1>3, <1>4 DEF Next

\* A batch of dead letters settles every item.
LEMMA DeadLettersSettle ==
  ASSUME TypeOK, NEW s \in SUBSET Items, FinishDeadLetters(s),
         \A i \in s : row[i].status \in Held \cup {"failed"}
  PROVE  \A i \in Items : Settled(i)
<1>1. \A i \in Items :
        /\ row'[i] = IF i \in s THEN Unheld(i, "dead_letter") ELSE row[i]
        /\ audits'[i] = IF i \in s THEN audits[i] + 1 ELSE audits[i]
        /\ i \in s => ClosedAfter(i)
  BY CompensateCloses DEF FinishDeadLetters, Audit
<1> QED BY <1>1, UnheldRow DEF Settled

LEMMA StepSettles ==
  ASSUME TypeOK, WorkersMatch, [Next]_vars
  PROVE  \A i \in Items : Settled(i)
<1>s. {"retry_wait", "leased", "running", "pending", "succeeded"} \subseteq Statuses \ Failed
  BY DEF Statuses, Runnable, Failed
<1>1. \A i \in Items : row'[i].status = row[i].status /\ audits'[i] = audits[i] => Settled(i)
  BY DEF Settled
<1>2. ASSUME NEW w \in Workers, LeaseStep(w) \/ \E i \in Items : LeaseByID(w, i)
      PROVE  \A i \in Items : Settled(i)
  <2>1. CASE DeadLetterExpiredExhaustedLeases(w)
    BY <2>1, DeadLettersSettle DEF DeadLetterExpiredExhaustedLeases, Expired
  <2>2. CASE RetryExpiredLeases(w)
    BY <2>2, <1>1, <1>s, UnheldRow DEF RetryExpiredLeases, Settled
  <2>3. ASSUME NEW j \in Items, LeaseRow(w, j)
        PROVE  \A i \in Items : Settled(i)
    <3>1. row[j].status \notin {"dead_letter", "ignored"}
      BY <2>3 DEF LeaseRow, Leasable, Waiting
    <3> QED BY <2>3, <3>1, <1>1, <1>s DEF LeaseRow, Settled, TypeOK
  <2>4. CASE UNCHANGED <<row, audits, task, asset>>
    BY <2>4, <1>1
  <2> QED BY <1>2, <2>1, <2>2, <2>3, <2>4 DEF LeaseStep, Lease, LeaseByID
<1>3. ASSUME NEW w \in Workers, WorkStep(w) \/ Crash(w)
      PROVE  \A i \in Items : Settled(i)
  <2> DEFINE k == worker[w].item
  <2>1. CASE MarkRunning(w)
    <3>1. CASE row[k].status = "leased" /\ row' = [row EXCEPT ![k].status = "running"]
      BY <3>1, <2>1, <1>1, <1>s, WorkedItem DEF MarkRunning, Settled, TypeOK, Row
    <3>2. CASE UNCHANGED row
      BY <3>2, <2>1, <1>1 DEF MarkRunning
    <3> QED BY <2>1, <3>1, <3>2 DEF MarkRunning
  <2>2. CASE HeartbeatRenews(w)
    BY <2>2, <1>1, WorkedItem DEF HeartbeatRenews, TypeOK, Row
  <2>3. CASE EndAttempt(w)
    <3>1. CASE UNCHANGED <<row, audits, task, asset>>
      BY <3>1, <1>1
    <3>2. ASSUME NEW status \in {"succeeded", "failed", "retry_wait", "timeout", "dead_letter"},
                 UpdateQueueStatus(w, k, status)
          PROVE  \A i \in Items : Settled(i)
      <4> DEFINE actual == ActualStatus(k, status)
      <4>1. k \in Items /\ row[k].status \in Held /\ row' = [row EXCEPT ![k] = Unheld(k, actual)]
        BY <2>3, <3>2, WorkedItem DEF UpdateQueueStatus, ProofMatches
      <4>2. actual \in {"succeeded", "failed", "retry_wait", "timeout", "dead_letter"}
        BY DEF ActualStatus
      <4>3. row'[k].status = actual /\ row[k].status \notin {"dead_letter", "ignored"}
            /\ \A i \in Items \ {k} : row'[i] = row[i]
        BY <4>1, UnheldRow DEF TypeOK, Held
      <4>4. CASE actual \in {"succeeded", "retry_wait"}
        <5>1. UNCHANGED audits
          BY <4>4, <3>2 DEF UpdateQueueStatus
        <5> QED BY <4>3, <4>4, <5>1, <1>1, <1>s DEF Settled
      <4>5. CASE actual \in {"failed", "timeout"}
        <5>1. UNCHANGED audits /\ ClosedAfter(k)
          BY <4>1, <4>5, <3>2, CompensateCloses DEF UpdateQueueStatus, Failed
        <5> QED BY <4>1, <4>3, <4>5, <5>1, <1>1 DEF Settled
      <4>6. CASE actual = "dead_letter"
        <5>1. Audit({k}) /\ ClosedAfter(k)
          BY <4>1, <4>6, <3>2, CompensateCloses DEF UpdateQueueStatus, Failed
        <5>2. \A i \in Items : audits'[i] = IF i = k THEN audits[i] + 1 ELSE audits[i]
          BY <5>1 DEF Audit
        <5> QED BY <4>1, <4>3, <4>6, <5>1, <5>2, <1>1 DEF Settled
      <4> QED BY <4>2, <4>4, <4>5, <4>6
    <3> QED BY <2>3, <3>1, <3>2 DEF EndAttempt
  <2>4. CASE UNCHANGED <<row, audits>>
    BY <2>4, <1>1
  <2> QED BY <1>3, <2>1, <2>2, <2>3, <2>4 DEF WorkStep, HeartbeatAnswered, HeartbeatFails, Work,
       StopHeartbeat, HeartbeatStopped, Crash
<1>4. CASE RecoverExpiredLeases
  <2> DEFINE dead == {i \in Items : Expired(i) /\ Exhausted(i)}
  <2>1. \A i \in Items :
          /\ row'[i] = IF i \in dead THEN Unheld(i, "dead_letter")
                       ELSE IF Expired(i) /\ row[i].status = "leased" THEN Unheld(i, "retry_wait")
                       ELSE row[i]
          /\ audits'[i] = IF i \in dead THEN audits[i] + 1 ELSE audits[i]
          /\ i \in dead => ClosedAfter(i)
    BY <1>4, CompensateCloses DEF RecoverExpiredLeases, Audit
  <2> QED BY <2>1, <1>s, UnheldRow DEF Settled, Expired
<1>5. CASE RecoverRunningWithoutHeartbeat
  <2> DEFINE stalled == {i \in Items : Expired(i) /\ row[i].status = "running"}
  <2>1. \A i \in Items :
          /\ row'[i] = IF i \in stalled THEN Unheld(i, "timeout") ELSE row[i]
          /\ audits'[i] = audits[i]
          /\ i \in stalled => ClosedAfter(i)
    BY <1>5, CompensateCloses DEF RecoverRunningWithoutHeartbeat
  <2> QED BY <2>1, UnheldRow DEF Settled, Expired
<1>6. CASE RequeueRecoverableQueue
  <2>1. PICK s \in SUBSET {i \in Items : row[i].status \in {"failed", "timeout"} /\ ~Exhausted(i)} :
          row' = [i \in Items |-> IF i \in s THEN Unheld(i, "retry_wait") ELSE row[i]]
    BY <1>6 DEF RequeueRecoverableQueue
  <2>2. \A i \in Items : row'[i] = (IF i \in s THEN Unheld(i, "retry_wait") ELSE row[i]) /\ audits'[i] = audits[i]
    BY <1>6, <2>1 DEF RequeueRecoverableQueue
  <2> QED BY <2>2, <1>s, UnheldRow DEF Settled
<1>7. CASE MarkDeadLetterCandidates
  BY <1>7, DeadLettersSettle DEF MarkDeadLetterCandidates
<1>8. ASSUME NEW j \in Items, LeaseLapses(j) \/ Enqueue(j) \/ MarkIgnored(j) \/ ReplayDeadLetter(j)
      PROVE  \A i \in Items : Settled(i)
  <2>1. CASE LeaseLapses(j)
    BY <2>1, <1>1 DEF LeaseLapses, TypeOK, Row
  <2>2. CASE Enqueue(j) \/ ReplayDeadLetter(j)
    BY <2>2, <1>1, <1>s DEF Enqueue, ReplayDeadLetter, TypeOK, Row, Settled
  <2>3. CASE MarkIgnored(j)
    BY <2>3, <1>1, UnheldRow DEF MarkIgnored, TypeOK, Settled
  <2> QED BY <1>8, <2>1, <2>2, <2>3
<1>9. CASE UNCHANGED vars
  BY <1>9, <1>1 DEF vars
<1> QED BY <1>2, <1>3, <1>4, <1>5, <1>6, <1>7, <1>8, <1>9 DEF Next, SweepStep

-------------------------------------------------------------------------------
(* The theorems *)

LEMMA InvariantStarts == Init => QueueInv
<1> SUFFICES ASSUME Init PROVE QueueInv
  OBVIOUS
<1>1. WorkersMatch /\ OneHolder
  BY DEF Init, WorkersMatch, OneHolder, Idle
<1>2. FailureIsCompensated /\ DeadLetterIsAuditedOnce
  BY DEF Init, FailureIsCompensated, DeadLetterIsAuditedOnce, Failed
<1> QED BY <1>1, <1>2, InitTyped DEF QueueInv

LEMMA InvariantStays == QueueInv /\ [Next]_vars => QueueInv'
<1> SUFFICES ASSUME QueueInv, [Next]_vars PROVE QueueInv'
  OBVIOUS
<1>1. TypeOK'
  <2>1. CASE UNCHANGED vars
    BY <2>1 DEF QueueInv, vars, TypeOK
  <2> QED BY <2>1, LeaseTyped, WorkTyped, SweepTyped, ItemTyped DEF QueueInv, Next
<1>2. WorkersMatch' /\ OneHolder'
  BY WorkersMatchKept, OneHolderKept DEF QueueInv
<1>3. \A i \in Items : Settled(i)
  BY StepSettles DEF QueueInv
<1>4. FailureIsCompensated'
  <2> SUFFICES ASSUME NEW i \in Items, row'[i].status \in Failed
               PROVE  ClosedAfter(i)
    BY DEF FailureIsCompensated, TaskOf, ClosedAfter
  <2>1. CASE row'[i].status = row[i].status
    <3>1. task[TaskOf(i)] # "open" /\ asset[TaskOf(i)] # "open"
      BY <2>1 DEF QueueInv, FailureIsCompensated
    <3>2. EndsStay(TaskOf(i))
      BY TaskOfTyped, TasksStay DEF QueueInv
    <3> QED BY <3>1, <3>2, TaskOfTyped DEF ClosedAfter, EndsStay
  <2>2. CASE row'[i].status # row[i].status
    BY <2>2, <1>3 DEF Settled, Failed
  <2> QED BY <2>1, <2>2
<1>5. DeadLetterIsAuditedOnce'
  <2> SUFFICES ASSUME NEW i \in Items
               PROVE  /\ audits'[i] <= 1
                      /\ row'[i].status = "dead_letter" => audits'[i] = 1
                      /\ audits'[i] = 1 => row'[i].status \in {"dead_letter", "ignored"}
    BY DEF DeadLetterIsAuditedOnce
  <2>1. /\ audits[i] \in Nat /\ audits[i] <= 1
        /\ row[i].status = "dead_letter" => audits[i] = 1
        /\ audits[i] = 1 => row[i].status \in {"dead_letter", "ignored"}
    BY DEF QueueInv, TypeOK, DeadLetterIsAuditedOnce
  <2> QED BY <2>1, <1>3 DEF Settled, Failed, Held
<1> QED BY <1>1, <1>2, <1>4, <1>5 DEF QueueInv

\* The rows, the workers and their proofs keep their types, and a row has an
\* owner exactly while it is leased or running.
THEOREM TypeCorrect == Spec => []TypeOK
BY InvariantStarts, InvariantStays, PTL DEF Spec, QueueInv

\* No two workers ever have proofs of the same lease.
THEOREM OneHolderAlways == Spec => []OneHolder
BY InvariantStarts, InvariantStays, PTL DEF Spec, QueueInv

\* A failed, timed out or dead item never leaves its task open, nor its recording.
THEOREM FailureAlwaysCompensated == Spec => []FailureIsCompensated
BY InvariantStarts, InvariantStays, PTL DEF Spec, QueueInv

\* A dead letter is audited exactly once.
THEOREM DeadLetterAlwaysAudited == Spec => []DeadLetterIsAuditedOnce
BY InvariantStarts, InvariantStays, PTL DEF Spec, QueueInv

\* An agent run, AI task or run record that ended stays as it ended; nothing is
\* said of what a recording shows, which a later failure overwrites.
THEOREM TasksEndOnce == Spec => TaskEndsOnce
<1>1. QueueInv /\ [Next]_vars => [\A i \in Items : task[i] # "open" => task'[i] = task[i]]_vars
  BY TasksStay DEF QueueInv, EndsStay
<1> QED BY <1>1, InvariantStarts, InvariantStays, PTL DEF Spec, TaskEndsOnce

-------------------------------------------------------------------------------
(* The refinement *)

\* Whoever is not known to be at a row.
Same(i) == row'[i].owner = row[i].owner /\ OutcomeOf(row'[i].status) = OutcomeOf(row[i].status)

\* A row loses its holder, and its outcome is one that needs no grant.
Overruled(i) ==
  /\ row[i].status # "absent"
  /\ row'[i].owner = None
  /\ OutcomeOf(row'[i].status) \in Fenced!MayBecome[OutcomeOf(row[i].status)]

LEMMA OutcomeTyped == \A status : OutcomeOf(status) \in Fenced!Outcomes
BY DEF OutcomeOf, Fenced!Outcomes

\* The belief of a worker follows its proof.
LEMMA BeliefFollows ==
  ASSUME \A w \in Workers : worker'[w].item = worker[w].item /\ worker'[w].attempt = worker[w].attempt
  PROVE  UNCHANGED Belief
BY DEF Belief

\* A worker that drops its proof forgets its grant.
LEMMA IdleForgets ==
  ASSUME TypeOK, NEW w \in Workers, worker' = [worker EXCEPT ![w] = Idle]
  PROVE  Belief' = [Belief EXCEPT ![w] = None]
BY DEF Belief, TypeOK, Idle

\* A step that changes rows without a proof is a step of the grants.
LEMMA OverruleStep ==
  ASSUME TypeOK, UNCHANGED Belief, UNCHANGED Grants,
         \A i \in Items : Same(i) \/ Overruled(i)
  PROVE  Fenced!Overrule
<1> DEFINE s == {i \in Items : Overruled(i)}
           o == [i \in s |-> OutcomeOf(row'[i].status)]
<1>1. s \in SUBSET {i \in Items : Outcome[i] # "absent"}
  BY DEF Outcome, OutcomeOf, Overruled, Runnable
<1>2. Holder' = [i \in Items |-> IF i \in s THEN None ELSE Holder[i]]
  BY DEF Holder, Overruled, Same
<1>3. o \in [s -> Fenced!Outcomes]
  BY OutcomeTyped
<1>4. \A i \in s : o[i] \in Fenced!MayBecome[Outcome[i]]
  BY DEF Overruled, Outcome
<1>5. Outcome' = [i \in Items |-> IF i \in s THEN o[i] ELSE Outcome[i]]
  BY DEF Outcome, Same
<1> HIDE DEF s, o
<1> QED BY <1>1, <1>2, <1>3, <1>4, <1>5 DEF Fenced!Overrule

\* A step that leaves holders and outcomes alone is invisible.
LEMMA StutterStep ==
  ASSUME UNCHANGED Belief, UNCHANGED Grants, \A i \in Items : Same(i)
  PROVE  UNCHANGED Fenced!vars
BY DEF Same, Outcome, Holder, Fenced!vars

\* What sweeps may do to a row overrules its holder.
LEMMA UnheldOverrules ==
  ASSUME TypeOK, NEW i \in Items, NEW status \in {"dead_letter", "retry_wait", "timeout", "ignored"},
         row'[i] = Unheld(i, status),
         \/ status = "ignored" /\ row[i].status # "absent"
         \/ row[i].status \in Held \cup {"failed"}
         \/ status = "retry_wait" /\ row[i].status = "timeout"
  PROVE  Overruled(i)
<1>1. row'[i].owner = None /\ row'[i].status = status
  BY UnheldRow
<1>2. row[i].status \in Statuses
  BY DEF TypeOK, Row
<1> QED BY <1>1, <1>2 DEF Overruled, OutcomeOf, Fenced!MayBecome, Runnable, Held, Statuses, Failed

LEMMA UnheldKeepsGrants ==
  ASSUME TypeOK, \A i \in Items : row'[i].attempt = row[i].attempt
  PROVE  UNCHANGED Grants
BY DEF Grants

LEMMA LeaseRowGrants ==
  ASSUME QueueInv, NEW w \in Workers, NEW i \in Items, LeaseRow(w, i), worker[w].item = None
  PROVE  Fenced!Grant(w, i)
<1>1. row[i] \in Row /\ worker[w] \in Worker
  BY DEF QueueInv, TypeOK
<1>2. Outcome[i] = "open" /\ Holder[i] = None /\ Grants[i] < MaxAttempts[i] /\ Belief[w] = None
  <2>1. row[i].status \in {"pending", "retry_wait"} /\ ~(row[i].attempt >= MaxAttempts[i])
    BY DEF LeaseRow, Leasable, Waiting, Exhausted
  <2>2. row[i].owner = None
    BY <2>1 DEF QueueInv, TypeOK, Held
  <2>3. row[i].attempt \in Nat /\ MaxAttempts[i] \in Nat
    BY <1>1, QueueAssumption DEF Row
  <2> QED BY <2>1, <2>2, <2>3 DEF Outcome, OutcomeOf, Runnable, Holder, Grants, Belief
<1> DEFINE r == [status |-> "leased", attempt |-> row[i].attempt + 1, owner |-> w, beat |-> 0, lapsed |-> FALSE]
<1>3. row' = [row EXCEPT ![i] = r] /\ row \in [Items -> Row]
  BY DEF LeaseRow, QueueInv, TypeOK
<1>4. Grants' = [Grants EXCEPT ![i] = @ + 1]
  BY <1>3 DEF Grants
<1>5. Holder' = [Holder EXCEPT ![i] = w]
  BY <1>3 DEF Holder
<1>6. Belief' = [Belief EXCEPT ![w] = <<i, Grants[i] + 1>>]
  <2>1. worker' = [worker EXCEPT ![w] = [Idle EXCEPT !.pc = "leased", !.item = i, !.attempt = row[i].attempt + 1]]
    BY DEF LeaseRow
  <2>2. i # None /\ worker \in [Workers -> Worker]
    BY QueueAssumption DEF QueueInv, TypeOK
  <2> QED BY <2>1, <2>2 DEF Belief, Grants, Idle
<1>7. UNCHANGED Outcome
  <2>1. \A j \in Items : OutcomeOf(row'[j].status) = OutcomeOf(row[j].status)
    BY <1>3, <1>2 DEF Outcome, OutcomeOf, Runnable
  <2> QED BY <2>1 DEF Outcome
<1> QED BY <1>2, <1>4, <1>5, <1>6, <1>7 DEF Fenced!Grant

LEMMA UpdateDecides ==
  ASSUME QueueInv, NEW w \in Workers, NEW i \in Items, worker[w].item = i,
         NEW status \in {"succeeded", "failed", "retry_wait", "timeout", "dead_letter"},
         UpdateQueueStatus(w, i, status), worker' = [worker EXCEPT ![w] = Idle]
  PROVE  Fenced!Decide(w, i)
<1> DEFINE actual == ActualStatus(i, status)
<1>1. TypeOK /\ i # None
  BY QueueAssumption DEF QueueInv
<1>2. row' = [row EXCEPT ![i] = Unheld(i, actual)] /\ row \in [Items -> Row]
  BY <1>1 DEF UpdateQueueStatus, TypeOK
<1>3. Unheld(i, actual).owner = None /\ Unheld(i, actual).status = actual /\ Unheld(i, actual).attempt = row[i].attempt
  BY <1>1, UnheldRow
<1>4. Belief[w] = <<i, Grants[i]>> /\ Holder[i] = w
  BY <1>1 DEF UpdateQueueStatus, ProofMatches, Belief, Grants, Holder
<1>5. Holder' = [Holder EXCEPT ![i] = None]
  BY <1>2, <1>3 DEF Holder
<1>6. Belief' = [Belief EXCEPT ![w] = None]
  BY <1>1, IdleForgets
<1>7. UNCHANGED Grants
  BY <1>2, <1>3 DEF Grants
<1>8. OutcomeOf(actual) \in {"open", "done", "failed", "dropped"}
  BY DEF OutcomeOf, ActualStatus, Runnable
<1>9. Outcome' = [Outcome EXCEPT ![i] = OutcomeOf(actual)]
  BY <1>2, <1>3 DEF Outcome
<1> QED BY <1>4, <1>5, <1>6, <1>7, <1>8, <1>9 DEF Fenced!Decide
\* A worker that forgets its item, and nothing else happens.
LEMMA ForgetStep ==
  ASSUME TypeOK, NEW w \in Workers, worker' = [worker EXCEPT ![w] = Idle], UNCHANGED row
  PROVE  Fenced!Forget(w)
<1>1. Belief' = [Belief EXCEPT ![w] = None]
  BY IdleForgets
<1> QED BY <1>1 DEF Fenced!Forget, Grants, Holder, Outcome

\* Nothing but the place of a worker in its loop changes.
LEMMA InvisibleStep ==
  ASSUME TypeOK, UNCHANGED row,
         \A w \in Workers : worker'[w].item = worker[w].item /\ worker'[w].attempt = worker[w].attempt
  PROVE  UNCHANGED Fenced!vars
<1>1. UNCHANGED Belief
  BY BeliefFollows
<1> QED BY <1>1 DEF Fenced!vars, Grants, Holder, Outcome

LEMMA LeaseRefines ==
  ASSUME QueueInv, NEW w \in Workers, LeaseStep(w) \/ \E i \in Items : LeaseByID(w, i)
  PROVE  [Fenced!Next]_Fenced!vars
<1>t. TypeOK /\ worker \in [Workers -> Worker] /\ WorkersMatch
  BY DEF QueueInv, TypeOK
<1>1. worker[w].item = None
  BY <1>t DEF WorkersMatch, LeaseStep, LeaseByID, DeadLetterExpiredExhaustedLeases, RetryExpiredLeases, Lease
<1>2. CASE DeadLetterExpiredExhaustedLeases(w)
  <2> DEFINE s == {i \in Items : Expired(i) /\ Exhausted(i)}
  <2>1. \A i \in Items : row'[i] = IF i \in s THEN Unheld(i, "dead_letter") ELSE row[i]
    BY <1>2 DEF DeadLetterExpiredExhaustedLeases, FinishDeadLetters
  <2>2. \A i \in Items : Same(i) \/ Overruled(i)
    BY <1>t, <2>1, UnheldOverrules DEF Same, Expired
  <2>3. UNCHANGED Grants
    BY <1>t, <2>1, UnheldRow, UnheldKeepsGrants
  <2>4. UNCHANGED Belief
    BY <1>2, <1>t, BeliefFollows DEF DeadLetterExpiredExhaustedLeases, Worker
  <2> QED BY <1>t, <2>2, <2>3, <2>4, OverruleStep DEF Fenced!Next
<1>3. CASE RetryExpiredLeases(w)
  <2> DEFINE s == {i \in Items : Expired(i) /\ row[i].status = "leased" /\ ~Exhausted(i)}
  <2>1. \A i \in Items : row'[i] = IF i \in s THEN Unheld(i, "retry_wait") ELSE row[i]
    BY <1>3 DEF RetryExpiredLeases
  <2>2. \A i \in Items : Same(i) \/ Overruled(i)
    BY <1>t, <2>1, UnheldOverrules DEF Same, Expired
  <2>3. UNCHANGED Grants
    BY <1>t, <2>1, UnheldRow, UnheldKeepsGrants
  <2>4. UNCHANGED Belief
    BY <1>3, <1>t, BeliefFollows DEF RetryExpiredLeases, Worker
  <2> QED BY <1>t, <2>2, <2>3, <2>4, OverruleStep DEF Fenced!Next
<1>4. CASE \E i \in Items : LeaseRow(w, i)
  BY <1>4, <1>1, LeaseRowGrants DEF Fenced!Next
<1>5. CASE worker' = [worker EXCEPT ![w] = Idle] /\ UNCHANGED row
  BY <1>5, <1>t, ForgetStep DEF Fenced!Next
<1> QED BY <1>2, <1>3, <1>4, <1>5 DEF LeaseStep, LeaseByID, Lease

LEMMA WorkRefines ==
  ASSUME QueueInv, NEW w \in Workers, WorkStep(w) \/ Crash(w)
  PROVE  [Fenced!Next]_Fenced!vars
<1>t. TypeOK /\ worker \in [Workers -> Worker] /\ row \in [Items -> Row] /\ WorkersMatch
  BY DEF QueueInv, TypeOK
<1> DEFINE k == worker[w].item
<1>1. CASE worker' = [worker EXCEPT ![w] = Idle] /\ UNCHANGED row
  BY <1>1, <1>t, ForgetStep DEF Fenced!Next
<1>2. CASE MarkRunning(w)
  <2>1. CASE row[k].status = "leased" /\ row' = [row EXCEPT ![k].status = "running"]
             /\ worker' # [worker EXCEPT ![w] = Idle]
    <3>1. k \in Items
      BY <1>t, <1>2, WorkedItem
    <3>2. \A i \in Items : Same(i) /\ row'[i].attempt = row[i].attempt
      BY <1>t, <2>1, <3>1 DEF Same, OutcomeOf, Runnable, Row
    <3>3. UNCHANGED Grants
      BY <3>2, <1>t, UnheldKeepsGrants
    <3>4. UNCHANGED Belief
      <4>1. PICK pc \in {"starting", "working"} :
              worker' = [worker EXCEPT ![w].pc = pc,
                                       ![w].heartbeat = IF pc = "starting" THEN "on" ELSE "off"]
        BY <1>2, <2>1 DEF MarkRunning, ProofMatches
      <4> QED BY <4>1, <1>t, BeliefFollows DEF Worker
    <3> QED BY <3>2, <3>3, <3>4, StutterStep
  <2>2. CASE worker' = [worker EXCEPT ![w] = Idle] /\ UNCHANGED row
    BY <2>2, <1>1
  <2>3. CASE row[k].status = "leased" /\ row' = [row EXCEPT ![k].status = "running"]
             /\ worker' = [worker EXCEPT ![w] = Idle]
    <3>1. \A pc \in {"starting", "working"} :
            worker' # [worker EXCEPT ![w].pc = pc,
                                     ![w].heartbeat = IF pc = "starting" THEN "on" ELSE "off"]
      BY <2>3, <1>t DEF Worker, Idle
    <3>2. UNCHANGED row
      BY <1>2, <3>1 DEF MarkRunning
    <3> QED BY <3>2, <2>3, <1>1
  <2> QED BY <1>2, <2>1, <2>2, <2>3 DEF MarkRunning
<1>3. CASE HeartbeatRenews(w)
  <2>1. k \in Items
    BY <1>t, <1>3, WorkedItem
  <2>2. \A i \in Items : Same(i) /\ row'[i].attempt = row[i].attempt
    BY <1>t, <1>3, <2>1 DEF HeartbeatRenews, Same, Row
  <2>3. UNCHANGED Grants
    BY <2>2, <1>t, UnheldKeepsGrants
  <2>4. UNCHANGED Belief
    BY <1>3, <1>t, BeliefFollows DEF HeartbeatRenews, Worker
  <2> QED BY <2>2, <2>3, <2>4, StutterStep
<1>4. CASE HeartbeatAnswered(w) \/ HeartbeatFails(w) \/ Work(w) \/ StopHeartbeat(w)
  <2>1. UNCHANGED row
    BY <1>4 DEF HeartbeatAnswered, HeartbeatFails, Work, StopHeartbeat
  <2>2. \A v \in Workers : worker'[v].item = worker[v].item /\ worker'[v].attempt = worker[v].attempt
    BY <1>4, <1>t DEF HeartbeatAnswered, HeartbeatFails, Work, StopHeartbeat, Worker
  <2> QED BY <1>t, <2>1, <2>2, InvisibleStep
<1>5. CASE HeartbeatStopped(w)
  <2>1. CASE worker' = [worker EXCEPT ![w] = Idle]
    BY <2>1, <1>1, <1>5 DEF HeartbeatStopped
  <2>2. CASE worker' = [worker EXCEPT ![w].pc = "deciding", ![w].heartbeat = "off"]
    <3>1. \A v \in Workers : worker'[v].item = worker[v].item /\ worker'[v].attempt = worker[v].attempt
      BY <2>2, <1>t DEF Worker
    <3> QED BY <1>5, <1>t, <3>1, InvisibleStep DEF HeartbeatStopped
  <2> QED BY <1>5, <2>1, <2>2 DEF HeartbeatStopped
<1>6. CASE EndAttempt(w)
  <2>1. k \in Items /\ worker' = [worker EXCEPT ![w] = Idle]
    BY <1>6, <1>t, WorkedItem DEF EndAttempt
  <2>2. ASSUME NEW status \in {"succeeded", "failed", "retry_wait", "timeout", "dead_letter"},
               UpdateQueueStatus(w, k, status)
        PROVE  Fenced!Decide(w, k)
    BY <2>1, <2>2, UpdateDecides
  <2> QED BY <1>6, <2>1, <2>2, <1>1 DEF EndAttempt, Fenced!Next
<1> QED BY <1>1, <1>2, <1>3, <1>4, <1>5, <1>6 DEF WorkStep, Crash

LEMMA SweepRefines ==
  ASSUME QueueInv, SweepStep
  PROVE  [Fenced!Next]_Fenced!vars
<1>t. TypeOK
  BY DEF QueueInv
<1>1. UNCHANGED worker
  BY DEF SweepStep, RecoverExpiredLeases, RecoverRunningWithoutHeartbeat, RequeueRecoverableQueue,
     MarkDeadLetterCandidates
<1>2. UNCHANGED Belief
  BY <1>1 DEF Belief
<1>3. ASSUME \A i \in Items : \/ row'[i] = row[i]
                              \/ /\ row[i].status \in Held \cup {"failed"}
                                 /\ \E status \in {"dead_letter", "retry_wait", "timeout"} :
                                      row'[i] = Unheld(i, status)
                              \/ row[i].status = "timeout" /\ row'[i] = Unheld(i, "retry_wait")
      PROVE  Fenced!Overrule
  <2>1. \A i \in Items : Same(i) \/ Overruled(i)
    BY <1>3, <1>t, UnheldOverrules DEF Same
  <2>2. UNCHANGED Grants
    BY <1>3, <1>t, UnheldRow, UnheldKeepsGrants
  <2> QED BY <1>t, <1>2, <2>1, <2>2, OverruleStep
<1>4. CASE RecoverExpiredLeases
  BY <1>4, <1>3 DEF RecoverExpiredLeases, Expired, Fenced!Next
<1>5. CASE RecoverRunningWithoutHeartbeat
  BY <1>5, <1>3 DEF RecoverRunningWithoutHeartbeat, Expired, Fenced!Next
<1>6. CASE RequeueRecoverableQueue
  <2>1. PICK s \in SUBSET {i \in Items : row[i].status \in {"failed", "timeout"} /\ ~Exhausted(i)} :
          row' = [i \in Items |-> IF i \in s THEN Unheld(i, "retry_wait") ELSE row[i]]
    BY <1>6 DEF RequeueRecoverableQueue
  <2> QED BY <2>1, <1>3 DEF Fenced!Next
<1>7. CASE MarkDeadLetterCandidates
  BY <1>7, <1>3 DEF MarkDeadLetterCandidates, FinishDeadLetters, Fenced!Next
<1> QED BY <1>4, <1>5, <1>6, <1>7 DEF SweepStep

LEMMA ItemRefines ==
  ASSUME QueueInv, NEW j \in Items,
         LeaseLapses(j) \/ Enqueue(j) \/ MarkIgnored(j) \/ ReplayDeadLetter(j)
  PROVE  [Fenced!Next]_Fenced!vars
<1>t. TypeOK /\ row \in [Items -> Row]
  BY DEF QueueInv, TypeOK
<1>1. UNCHANGED worker
  BY DEF LeaseLapses, Enqueue, MarkIgnored, ReplayDeadLetter
<1>2. UNCHANGED Belief
  BY <1>1 DEF Belief
<1>3. CASE LeaseLapses(j)
  <2>1. \A i \in Items : Same(i) /\ row'[i].attempt = row[i].attempt
    BY <1>3, <1>t DEF LeaseLapses, Same, Row
  <2> QED BY <2>1, <1>t, <1>2, UnheldKeepsGrants, StutterStep
<1>4. CASE Enqueue(j) \/ ReplayDeadLetter(j)
  <2>1. row' = [row EXCEPT ![j].status = "pending"] /\ row[j].status = "absent"
    BY <1>4 DEF Enqueue, ReplayDeadLetter
  <2>2. \A i \in Items : row'[i].owner = row[i].owner /\ row'[i].attempt = row[i].attempt
    BY <2>1, <1>t DEF Row
  <2>3. Outcome' = [Outcome EXCEPT ![j] = "open"] /\ Outcome[j] = "absent"
    BY <2>1, <1>t DEF Outcome, OutcomeOf, Runnable, Row
  <2> QED BY <2>2, <2>3, <1>2 DEF Fenced!Next, Fenced!Open, Grants, Holder
<1>5. CASE MarkIgnored(j)
  <2>1. row'[j] = Unheld(j, "ignored") /\ \A i \in Items \ {j} : row'[i] = row[i]
    BY <1>5, <1>t DEF MarkIgnored
  <2>2. Overruled(j)
    BY <1>5, <1>t, <2>1, UnheldOverrules DEF MarkIgnored
  <2>3. \A i \in Items : Same(i) \/ Overruled(i)
    BY <2>1, <2>2 DEF Same
  <2>4. UNCHANGED Grants
    BY <1>t, <2>1, UnheldRow, UnheldKeepsGrants
  <2> QED BY <1>t, <1>2, <2>3, <2>4, OverruleStep DEF Fenced!Next
<1> QED BY <1>3, <1>4, <1>5

LEMMA StepRefines == QueueInv /\ [Next]_vars => [Fenced!Next]_Fenced!vars
<1> SUFFICES ASSUME QueueInv, [Next]_vars PROVE [Fenced!Next]_Fenced!vars
  OBVIOUS
<1>1. CASE UNCHANGED vars
  BY <1>1 DEF vars, Fenced!vars, Grants, Holder, Belief, Outcome
<1> QED BY <1>1, LeaseRefines, WorkRefines, SweepRefines, ItemRefines DEF Next

LEMMA InitRefines == Init => Fenced!Init
<1> SUFFICES ASSUME Init PROVE Fenced!Init
  OBVIOUS
<1>1. \A i \in Items : row[i].attempt = 0 /\ row[i].owner = None /\ row[i].status = "absent"
  BY DEF Init
<1>2. \A w \in Workers : worker[w].item = None
  BY DEF Init, Idle
<1> QED BY <1>1, <1>2 DEF Fenced!Init, Grants, Holder, Belief, Outcome, OutcomeOf

\* The queue with its leases, heartbeats, sweeps and crashes does only what
\* numbered grants allow: FencedQueue.
THEOREM QueueImplementsGrants == Spec => ImplementsFencedQueue
BY InitRefines, StepRefines, InvariantStarts, InvariantStays, PTL
   DEF Spec, ImplementsFencedQueue, Fenced!Spec
===============================================================================
