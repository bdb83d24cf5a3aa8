------------------------------- MODULE WorkQueue -------------------------------
(***************************************************************************)
(* The durable work queue: rows of task_queue_records, the workers that    *)
(* lease them, renew their leases in the background and finish them, and   *)
(* the sweeps that take expired leases away.                               *)
(*                                                                         *)
(* It follows the PostgreSQL path of QueueRepository and the heartbeat of  *)
(* the workers.  Each statement or transaction is one step; a lease by     *)
(* queue name is three transactions.                                       *)
(*                                                                         *)
(* Abstractions.                                                           *)
(*  - All items are in one queue of a replayable type, and available as    *)
(*    soon as they wait: a delay only narrows who may lease.               *)
(*  - The fencing token grows with the attempt, at every lease and nowhere *)
(*    else, and the token is fresh, so the attempt names the lease.  The   *)
(*    exact expiry that a proof carries is the number of its renewals.     *)
(*  - The task behind an item stands for the agent run, the AI task and    *)
(*    the run record, which a failure closes only while they are open.     *)
(*    The asset is what the recording shows, its transcript, minutes or    *)
(*    summary: a failure is written over it whatever it shows.  The sub-   *)
(*    task and the deposit of a recording, which are compensated unless    *)
(*    they are done, would repeat the task and are left out.               *)
(*  - A replayed item works for the task of its source.                    *)
(*  - Time: a lease runs out at any moment.                                *)
(*  - An Enqueue of a known item repeats the item and changes nothing.     *)
(***************************************************************************)
EXTENDS Integers, FiniteSets

CONSTANTS
  Items,            \* queue_id
  Workers,          \* lease_owner, one item at a time
  MaxAttempts,      \* max_attempts of each item
  SourceOf,         \* the dead-lettered item an item replays, or None
  MaxBeats,         \* bound: the renewals of one lease
  None              \* no value

ASSUME QueueAssumption ==
  /\ MaxAttempts \in [Items -> Nat \ {0}]
  /\ SourceOf \in [Items -> Items \cup {None}]
  /\ MaxBeats \in Nat \ {0}
  /\ IsFiniteSet(Items)
  /\ None \notin Items \cup Workers

Runnable == {"pending", "leased", "running", "retry_wait"}
Waiting == {"pending", "retry_wait"}
Held == {"leased", "running"}
Failed == {"failed", "timeout", "dead_letter"}
Statuses == {"absent", "succeeded", "ignored"} \cup Runnable \cup Failed

VARIABLES
  row,              \* task_queue_records
  audits,           \* task_queue_dead_letter_audit: how many rows of each item
  task,             \* what an item works for
  asset,            \* what the recording shows of it
  worker            \* a worker's local state: where it is, its proof, its heartbeat

vars == <<row, audits, task, asset, worker>>

Row == [status : Statuses, attempt : Nat, owner : Workers \cup {None}, beat : Nat, lapsed : BOOLEAN]
WorkerPCs == {"idle", "swept", "leasing", "leased", "starting", "working", "stopping", "deciding"}
Heartbeats == {"off", "on", "sent", "broken"}
Worker == [pc : WorkerPCs, item : Items \cup {None}, attempt : Nat, beat : Nat,
           heartbeat : Heartbeats, done : BOOLEAN]

TypeOK ==
  /\ row \in [Items -> Row]
  /\ audits \in [Items -> Nat]
  /\ task \in [Items -> {"open", "done", "failed"}]
  /\ asset \in [Items -> {"open", "done", "failed"}]
  /\ worker \in [Workers -> Worker]
  /\ \A i \in Items : (row[i].owner # None) <=> (row[i].status \in Held)

Idle == [pc |-> "idle", item |-> None, attempt |-> 0, beat |-> 0, heartbeat |-> "off", done |-> FALSE]

Init ==
  /\ row = [i \in Items |->
             [status |-> "absent", attempt |-> 0, owner |-> None, beat |-> 0, lapsed |-> FALSE]]
  /\ audits = [i \in Items |-> 0]
  /\ task = [i \in Items |-> "open"]
  /\ asset = [i \in Items |-> "open"]
  /\ worker = [w \in Workers |-> Idle]

-------------------------------------------------------------------------------
(* Rows *)

TaskOf(i) == IF SourceOf[i] = None THEN i ELSE SourceOf[i]

\* Mutant: the lease stays in the row.
UnheldByNobodyElse(i, status) == [row[i] EXCEPT !.status = status, !.beat = 0, !.lapsed = FALSE]

\* A row that nobody holds, in another status.
Unheld(i, status) == [row[i] EXCEPT !.status = status, !.owner = None, !.beat = 0, !.lapsed = FALSE]

Expired(i) == row[i].status \in Held /\ row[i].lapsed

Exhausted(i) == row[i].attempt >= MaxAttempts[i]

\* Mutant: a proof only names the item.
ProofMatchesItem(w, i) ==
  /\ worker[w].item = i
  /\ row[i].status \in Held
  /\ ~row[i].lapsed

\* The row still is as the worker's proof says, and its lease has not run out.
ProofMatches(w, i) ==
  /\ worker[w].item = i
  /\ row[i].status \in Held
  /\ row[i].owner = w
  /\ row[i].attempt = worker[w].attempt
  /\ row[i].beat = worker[w].beat
  /\ ~row[i].lapsed

\* The recordings of these items show that they failed, done or not.
CompensateRecording(s) ==
  asset' = [t \in Items |-> IF \E i \in s : TaskOf(i) = t THEN "failed" ELSE asset[t]]

\* Mutant: a failure is written over a task that is done.
CompensateAll(s) ==
  /\ CompensateRecording(s)
  /\ task' = [t \in Items |-> IF \E i \in s : TaskOf(i) = t THEN "failed" ELSE task[t]]

\* The open tasks of these items fail with them, in the same transaction.
Compensate(s) ==
  /\ CompensateRecording(s)
  /\ task' = [t \in Items |->
               IF task[t] = "open" /\ \E i \in s : TaskOf(i) = t THEN "failed" ELSE task[t]]

Audit(s) == audits' = [i \in Items |-> IF i \in s THEN audits[i] + 1 ELSE audits[i]]

\* Mutant: an item that is given up leaves no audit row.
DeadLetterUnaudited(s) ==
  /\ row' = [i \in Items |-> IF i \in s THEN Unheld(i, "dead_letter") ELSE row[i]]
  /\ Compensate(s)
  /\ UNCHANGED audits

\* A batch of items is given up: dead letter, compensation and audit at once.
FinishDeadLetters(s) ==
  /\ row' = [i \in Items |-> IF i \in s THEN Unheld(i, "dead_letter") ELSE row[i]]
  /\ Compensate(s)
  /\ Audit(s)

LeaseLapses(i) ==
  /\ row[i].status \in Held
  /\ ~row[i].lapsed
  /\ row' = [row EXCEPT ![i].lapsed = TRUE]
  /\ UNCHANGED <<audits, task, asset, worker>>

Enqueue(i) ==
  /\ row[i].status = "absent"
  /\ SourceOf[i] = None
  /\ row' = [row EXCEPT ![i].status = "pending"]
  /\ UNCHANGED <<audits, task, asset, worker>>

-------------------------------------------------------------------------------
(* Leases *)

\* First of all, expired leases of exhausted items are given up.
DeadLetterExpiredExhaustedLeases(w) ==
  /\ worker[w].pc = "idle"
  /\ worker' = [worker EXCEPT ![w].pc = "swept"]
  /\ FinishDeadLetters({i \in Items : Expired(i) /\ Exhausted(i)})

\* Then the leases that expired before their worker started wait again.
RetryExpiredLeases(w) ==
  /\ worker[w].pc = "swept"
  /\ worker' = [worker EXCEPT ![w].pc = "leasing"]
  /\ row' = [i \in Items |->
              IF Expired(i) /\ row[i].status = "leased" /\ ~Exhausted(i)
              THEN Unheld(i, "retry_wait") ELSE row[i]]
  /\ UNCHANGED <<audits, task, asset>>

Leasable(i) == row[i].status \in Waiting /\ ~Exhausted(i)

\* Mutant: a lease does not count as an attempt.
LeaseSameAttempt(w, i) ==
  /\ Leasable(i)
  /\ row' = [row EXCEPT ![i] = [status |-> "leased", attempt |-> row[i].attempt,
                               owner |-> w, beat |-> 0, lapsed |-> FALSE]]
  /\ worker' = [worker EXCEPT ![w] =
       [Idle EXCEPT !.pc = "leased", !.item = i, !.attempt = row[i].attempt]]
  /\ UNCHANGED <<audits, task, asset>>

LeaseRow(w, i) ==
  /\ Leasable(i)
  /\ row' = [row EXCEPT ![i] = [status |-> "leased", attempt |-> row[i].attempt + 1,
                               owner |-> w, beat |-> 0, lapsed |-> FALSE]]
  /\ worker' = [worker EXCEPT ![w] =
       [Idle EXCEPT !.pc = "leased", !.item = i, !.attempt = row[i].attempt + 1]]
  /\ UNCHANGED <<audits, task, asset>>

Lease(w) ==
  /\ worker[w].pc = "leasing"
  /\ \/ \E i \in Items : LeaseRow(w, i)
     \/ /\ \A i \in Items : ~Leasable(i)
        /\ worker' = [worker EXCEPT ![w] = Idle]
        /\ UNCHANGED <<row, audits, task, asset>>

LeaseByID(w, i) ==
  /\ worker[w].pc = "idle"
  /\ LeaseRow(w, i)

-------------------------------------------------------------------------------
(* A worker at work, and its heartbeat *)

MarkRunning(w) ==
  LET i == worker[w].item IN
  /\ worker[w].pc = "leased"
  /\ \/ /\ ProofMatches(w, i)
        /\ row[i].status = "leased"
        /\ row' = [row EXCEPT ![i].status = "running"]
        /\ \E pc \in {"starting", "working"} :
             worker' = [worker EXCEPT ![w].pc = pc,
                                      ![w].heartbeat = IF pc = "starting" THEN "on" ELSE "off"]
     \/ /\ ~ProofMatches(w, i)
        /\ worker' = [worker EXCEPT ![w] = Idle]
        /\ UNCHANGED row
  /\ UNCHANGED <<audits, task, asset>>

\* A renewal commits and its answer is under way, or it finds the proof stale.
HeartbeatRenews(w) ==
  LET i == worker[w].item IN
  /\ worker[w].pc \in {"starting", "working"}
  /\ worker[w].heartbeat = "on"
  /\ row[i].beat < MaxBeats \/ ~ProofMatches(w, i)
  /\ IF ProofMatches(w, i)
     THEN /\ row' = [row EXCEPT ![i].beat = @ + 1]
          /\ worker' = [worker EXCEPT ![w].heartbeat = "sent"]
     ELSE /\ worker' = [worker EXCEPT ![w].heartbeat = "broken"]
          /\ UNCHANGED row
  /\ UNCHANGED <<audits, task, asset>>

\* The answer brings the new proof.  The first one lets the work begin.
HeartbeatAnswered(w) ==
  /\ worker[w].heartbeat = "sent"
  /\ worker' = [worker EXCEPT ![w].heartbeat = "on", ![w].beat = @ + 1,
                              ![w].pc = IF @ = "starting" THEN "working" ELSE @]
  /\ UNCHANGED <<row, audits, task, asset>>

\* The answer is lost, or the worker stops waiting for it: the old proof stays.
HeartbeatFails(w) ==
  /\ worker[w].heartbeat = "sent"
  /\ worker' = [worker EXCEPT ![w].heartbeat = "broken"]
  /\ UNCHANGED <<row, audits, task, asset>>

\* The effect of the work.  It does not look at the lease.
Work(w) ==
  LET t == TaskOf(worker[w].item) IN
  /\ worker[w].pc = "working"
  /\ worker[w].heartbeat # "broken"
  /\ task' = [task EXCEPT ![t] = IF @ = "open" THEN "done" ELSE @]
  /\ asset' = [asset EXCEPT ![t] = "done"]
  /\ worker' = [worker EXCEPT ![w].done = TRUE]
  /\ UNCHANGED <<row, audits>>

\* The work is over, or its context was cancelled with the heartbeat.
StopHeartbeat(w) ==
  /\ worker[w].pc \in {"starting", "working"}
  /\ worker[w].pc = "starting" => worker[w].heartbeat = "broken"
  /\ worker' = [worker EXCEPT ![w].pc = "stopping"]
  /\ UNCHANGED <<row, audits, task, asset>>

\* With the heartbeat gone the last proof decides.  A heartbeat that failed
\* means that the item is somebody else's: the worker drops it.
HeartbeatStopped(w) ==
  /\ worker[w].pc = "stopping"
  /\ worker[w].heartbeat # "sent"
  /\ worker' = IF worker[w].heartbeat = "broken"
               THEN [worker EXCEPT ![w] = Idle]
               ELSE [worker EXCEPT ![w].pc = "deciding", ![w].heartbeat = "off"]
  /\ UNCHANGED <<row, audits, task, asset>>

Crash(w) ==
  /\ worker[w].item # None
  /\ worker' = [worker EXCEPT ![w] = Idle]
  /\ UNCHANGED <<row, audits, task, asset>>

-------------------------------------------------------------------------------
(* The end of an attempt *)

\* A retry of the last attempt is a dead letter.
ActualStatus(i, status) == IF status = "retry_wait" /\ Exhausted(i) THEN "dead_letter" ELSE status

UpdateQueueStatus(w, i, status) ==
  LET actual == ActualStatus(i, status) IN
  /\ ProofMatches(w, i)
  /\ row' = [row EXCEPT ![i] = Unheld(i, actual)]
  /\ IF actual \in Failed THEN Compensate({i}) ELSE UNCHANGED <<task, asset>>
  /\ IF actual = "dead_letter" THEN Audit({i}) ELSE UNCHANGED audits

\* Complete, Fail, ScheduleRetry, MarkTimeout or DeadLetter, with the proof the
\* worker has.  A stale proof changes nothing.
EndAttempt(w) ==
  LET i == worker[w].item IN
  /\ worker[w].pc = "deciding"
  /\ worker' = [worker EXCEPT ![w] = Idle]
  /\ \/ worker[w].done /\ UpdateQueueStatus(w, i, "succeeded")
     \/ \E status \in {"failed", "retry_wait", "timeout", "dead_letter"} :
          ~worker[w].done /\ UpdateQueueStatus(w, i, status)
     \/ ~ProofMatches(w, i) /\ UNCHANGED <<row, audits, task, asset>>

-------------------------------------------------------------------------------
(* Sweeps and administration *)

RecoverExpiredLeases ==
  LET dead == {i \in Items : Expired(i) /\ Exhausted(i)} IN
  /\ \E i \in Items : Expired(i) /\ (Exhausted(i) \/ row[i].status = "leased")
  /\ row' = [i \in Items |->
              IF i \in dead THEN Unheld(i, "dead_letter")
              ELSE IF Expired(i) /\ row[i].status = "leased" THEN Unheld(i, "retry_wait")
              ELSE row[i]]
  /\ Compensate(dead)
  /\ Audit(dead)
  /\ UNCHANGED worker

\* Mutant: a stalled item times out and its task stays open.
TimeOutRunningWithoutHeartbeat ==
  LET stalled == {i \in Items : Expired(i) /\ row[i].status = "running"} IN
  /\ stalled # {}
  /\ row' = [i \in Items |-> IF i \in stalled THEN Unheld(i, "timeout") ELSE row[i]]
  /\ UNCHANGED <<audits, task, asset, worker>>

\* An expired lease of an item at work is not retried: the item times out.
RecoverRunningWithoutHeartbeat ==
  LET stalled == {i \in Items : Expired(i) /\ row[i].status = "running"} IN
  /\ stalled # {}
  /\ row' = [i \in Items |-> IF i \in stalled THEN Unheld(i, "timeout") ELSE row[i]]
  /\ Compensate(stalled)
  /\ UNCHANGED <<audits, worker>>

\* The failed items with a given error code, which any of them may have.
RequeueRecoverableQueue ==
  /\ \E s \in SUBSET {i \in Items : row[i].status \in {"failed", "timeout"} /\ ~Exhausted(i)} :
       /\ s # {}
       /\ row' = [i \in Items |-> IF i \in s THEN Unheld(i, "retry_wait") ELSE row[i]]
  /\ UNCHANGED <<audits, task, asset, worker>>

MarkDeadLetterCandidates ==
  LET candidates == {i \in Items : row[i].status = "failed" /\ Exhausted(i)} IN
  /\ candidates # {}
  /\ FinishDeadLetters(candidates)
  /\ UNCHANGED worker

MarkIgnored(i) ==
  /\ row[i].status # "absent"
  /\ row' = [row EXCEPT ![i] = Unheld(i, "ignored")]
  /\ UNCHANGED <<audits, task, asset, worker>>

\* A replay is a new item with attempts of its own.
ReplayDeadLetter(i) ==
  /\ SourceOf[i] # None
  /\ row[SourceOf[i]].status = "dead_letter"
  /\ row[SourceOf[i]].attempt \in 1 .. MaxAttempts[SourceOf[i]]
  /\ row[i].status = "absent"
  /\ row' = [row EXCEPT ![i].status = "pending"]
  /\ UNCHANGED <<audits, task, asset, worker>>

-------------------------------------------------------------------------------
LeaseStep(w) ==
  DeadLetterExpiredExhaustedLeases(w) \/ RetryExpiredLeases(w) \/ Lease(w)

WorkStep(w) ==
  \/ MarkRunning(w)
  \/ HeartbeatRenews(w)
  \/ HeartbeatAnswered(w)
  \/ HeartbeatFails(w)
  \/ Work(w)
  \/ StopHeartbeat(w)
  \/ HeartbeatStopped(w)
  \/ EndAttempt(w)

SweepStep ==
  \/ RecoverExpiredLeases
  \/ RecoverRunningWithoutHeartbeat
  \/ RequeueRecoverableQueue
  \/ MarkDeadLetterCandidates

Next ==
  \/ \E i \in Items :
       LeaseLapses(i) \/ Enqueue(i) \/ MarkIgnored(i) \/ ReplayDeadLetter(i)
  \/ \E w \in Workers :
       LeaseStep(w) \/ WorkStep(w) \/ Crash(w) \/ \E i \in Items : LeaseByID(w, i)
  \/ SweepStep

Spec == Init /\ [][Next]_vars

-------------------------------------------------------------------------------
(* Properties *)

\* No two workers have a proof of the same lease, however leases ran out and
\* items were leased again: a lease is an attempt of its own.
OneHolder ==
  \A v, w \in Workers :
    (v # w /\ worker[v].item # None /\ worker[v].item = worker[w].item)
      => worker[v].attempt # worker[w].attempt

\* Whatever made an item fail - its worker, a lease by anybody, a sweep - neither
\* its task nor what the recording shows of it stays open: the compensation is in
\* the same transaction.
FailureIsCompensated ==
  \A i \in Items :
    row[i].status \in Failed => task[TaskOf(i)] # "open" /\ asset[TaskOf(i)] # "open"

\* An item is given up once, by one of four ways, and leaves one audit row,
\* also when it is ignored afterwards.
DeadLetterIsAuditedOnce ==
  \A i \in Items : /\ audits[i] <= 1
                   /\ row[i].status = "dead_letter" => audits[i] = 1
                   /\ audits[i] = 1 => row[i].status \in {"dead_letter", "ignored"}

\* An agent run, its AI task and its run record keep their end: a worker that lost
\* its lease after the work was done does not turn it into a failure, nor a late
\* worker a failure into success.  It is not so for what a recording shows: the
\* queue writes a failure over a transcript that is there.
TaskEndsOnce == [][\A i \in Items : task[i] # "open" => task'[i] = task[i]]_vars

\* The grants that the rows and the proofs stand for.
Grants == [i \in Items |-> row[i].attempt]

Holder == [i \in Items |-> row[i].owner]

Belief ==
  [w \in Workers |-> IF worker[w].item = None THEN None ELSE <<worker[w].item, worker[w].attempt>>]

OutcomeOf(status) ==
  IF status = "absent" THEN "absent"
  ELSE IF status \in Runnable THEN "open"
  ELSE IF status = "succeeded" THEN "done"
  ELSE IF status \in {"failed", "timeout"} THEN "failed"
  ELSE "dropped"

Outcome == [i \in Items |-> OutcomeOf(row[i].status)]

Fenced == INSTANCE FencedQueue WITH
  grants <- Grants, holder <- Holder, belief <- Belief, outcome <- Outcome

\* Only the worker of the latest lease has an item done, and a lease is never
\* given while another one lasts.
ImplementsFencedQueue == Fenced!Spec

\* An item that waits or is at work comes to an end: its attempts are limited,
\* and what a dead worker leaves behind is retried, timed out or given up.
ItemEnds ==
  \A i \in Items : row[i].status \in Runnable ~> row[i].status \notin Runnable
===============================================================================
