-------------------------- MODULE TerminalConvergence --------------------------
(***************************************************************************)
(* One Dispatch from the events of its Host to the convergence of          *)
(* everything that depends on its end: the event workers that ingest,      *)
(* project and converge under a queue lease, the recovery worker that puts *)
(* a new generation of queue items behind a convergence that stopped, and  *)
(* the others that may end the Run meanwhile: the user, a redelivered task *)
(* and the sweep of an offline Host.                                       *)
(*                                                                         *)
(* Abstractions.                                                           *)
(*  - The queue is what WorkQueue implements: an item has one holder, and  *)
(*    only that holder can finish it.  Attempts are not counted: an item   *)
(*    whose attempts are used up fails, and that is one of the faults.     *)
(*  - Item 0 is the Run's own runtime_events item, item n the recovery     *)
(*    item of generation n.                                                *)
(*  - A result stands for status, result, error and usage of the Host:     *)
(*    "unusable" succeeded on the Host with an output its plan cannot read.*)
(*  - The projection ledger (TerminalProductProjections) is not in src: it *)
(*    is modelled from its table and its use.                              *)
(*  - Capacity and session are held or given back at once: their rows and  *)
(*    the lock are CapacityAdmission's and SessionAdmission's.  The handle *)
(*    of the session is in the memory of the process that admitted the     *)
(*    Run, and is not made anew.  What recovery shows of a Run it orphans  *)
(*    after ten minutes (runtime_recovery_worker.go:606-683) is left out.  *)
(*  - Faults (crashes, lost leases, refused calls, attempts used up) are   *)
(*    counted, and MaxFaults bounds them.                                  *)
(***************************************************************************)
EXTENDS Integers, FiniteSets

CONSTANTS
  Workers,          \* event workers
  Admitter,         \* the worker whose process admitted the session of the Run
  LastEvent,        \* bound: the sequence of the Host's terminal event
  MaxGenerations,   \* bound: the recovery items of the convergence
  MaxFaults,        \* bound: the faults of a behaviour
  None              \* no value

ASSUME ConvergenceAssumption ==
  /\ LastEvent \in Nat \ {0}
  /\ MaxGenerations \in Nat
  /\ MaxFaults \in Nat
  /\ Admitter \in Workers
  /\ None \notin Workers \cup {"succeeded", "unusable", "timeout", "aborted", "cancelledTimeout"}

Items == 0..MaxGenerations
Results == {"succeeded", "unusable", "timeout", "aborted"}
HostResults == Results \cup {"cancelledTimeout"}
Effects == {"writeback", "task", "usage"}
Admissions == {"capacity", "slot", "session"}
RunOpen == {"running", "aborting", "orphaned"}
RunStatuses == RunOpen \cup {"succeeded", "failed", "timeout", "cancelled"}
PlanStatuses == {"validated", "executing", "succeeded", "failed", "cancelled"}
DispatchTerminal == {"succeeded", "timeout", "aborted", "orphaned"}

VARIABLES
  queue,            \* status and lease owner of each runtime_events item
  host,             \* the Run on its Host: events emitted, result once it ended
  cursor,           \* event_cursor: the events 1..cursor are stored
  run,              \* status of the Agent Run
  plan,             \* status of its plan
  dispatch,         \* state of the Dispatch
  admission,        \* capacity, Slot and session that are still held
  conv,             \* runtime_terminal_convergences
  ledger,           \* runtime_terminal_product_projections
  product,          \* product effects with the result they show
  published,        \* terminal public events of the Run
  sweep,            \* how far the sweep of the offline Host is
  bearer,           \* the worker whose process has a good handle of the session
  worker,           \* local state of the event workers
  faults            \* how many faults there were

vars == <<queue, host, cursor, run, plan, dispatch, admission, conv, ledger, product,
          published, sweep, bearer, worker, faults>>

WorkerPCs == {"idle", "begin", "ingest", "status", "ensure", "verify", "acquire", "apply",
              "settle", "mark", "final", "tail", "block", "acknowledge", "retry"}
Worker == [pc : WorkerPCs, item : Items, after : 0..LastEvent, cancelled : BOOLEAN,
           result : Results \cup {None}, left : SUBSET Effects, claim : Nat]
Convergence == [result : Results \cup {None}, steps : SUBSET {"events", "product"}, done : BOOLEAN,
                blocked : BOOLEAN, legacy : {"no", "tail", "contradictory"}]

TypeOK ==
  /\ queue \in [Items -> [status : {"absent", "waiting", "held", "done", "failed"},
                          holder : Workers \cup {None}]]
  /\ host \in [events : 0..LastEvent, result : HostResults \cup {None}]
  /\ cursor \in 0..host.events
  /\ run \in RunStatuses
  /\ plan \in PlanStatuses
  /\ dispatch \in {"active"} \cup DispatchTerminal
  /\ admission \subseteq Admissions
  /\ conv \in Convergence
  /\ ledger \in [state : {"pending", "applying", "completed"}, claim : Nat]
  /\ product \subseteq Effects \X Results
  /\ published \subseteq RunStatuses
  /\ sweep \in {"rest", "listed", "marked", "ended"}
  /\ bearer \in Workers \cup {None}
  /\ worker \in [Workers -> Worker]
  /\ faults \in 0..MaxFaults

Idle == [pc |-> "idle", item |-> 0, after |-> 0, cancelled |-> FALSE, result |-> None,
         left |-> {}, claim |-> 0]

\* A Run that was handed to its Host, with its event item enqueued: "running"
\* stands for every status from dispatched to finalizing.  Its scope needs a
\* session, whose handle the process of a worker has.
InitHandedOver ==
  /\ queue = [i \in Items |-> [status |-> IF i = 0 THEN "waiting" ELSE "absent", holder |-> None]]
  /\ host = [events |-> 0, result |-> None]
  /\ cursor = 0
  /\ run = "running"
  /\ dispatch = "active"
  /\ admission = Admissions
  /\ bearer = Admitter
  /\ conv = [result |-> None, steps |-> {}, done |-> FALSE, blocked |-> FALSE, legacy |-> "no"]
  /\ ledger = [state |-> "pending", claim |-> 0]
  /\ product = {}
  /\ published = {}

\* The dispatcher marks the plan once its Host has accepted the Run.
InitRunning == InitHandedOver /\ plan = "executing"

\* A submit without an answer, or an acceptance that failed: the plan is left as
\* it is, and the Run goes on if its Host has it.
InitSubmitUnknown == InitHandedOver /\ plan = "validated"

RunStatus(r) ==
  CASE r = "aborted" -> "cancelled" [] r = "unusable" -> "failed" [] OTHER -> r

PlanStatus(r) ==
  CASE r = "succeeded" -> "succeeded" [] r = "aborted" -> "cancelled" [] OTHER -> "failed"

DispatchStatus(r) == IF r = "unusable" THEN "succeeded" ELSE r

\* A convergence of an earlier version: everything is done but the public event
\* and the queue, its Dispatch has no capacity, and its snapshot agrees with
\* that (tail) or names a reservation all the same (contradictory).
InitLegacy ==
  \E r \in Results, kind \in {"tail", "contradictory"} :
    /\ queue = [i \in Items |-> [status |-> IF i = 0 THEN "failed" ELSE "absent", holder |-> None]]
    /\ host = [events |-> LastEvent, result |-> r]
    /\ cursor = LastEvent
    /\ run = RunStatus(r)
    /\ plan = PlanStatus(r)
    /\ dispatch = DispatchStatus(r)
    /\ admission = {}
    /\ bearer = None
    /\ conv = [result |-> r, steps |-> {"events", "product"}, done |-> FALSE, blocked |-> FALSE,
               legacy |-> kind]
    /\ ledger = [state |-> "completed", claim |-> 1]
    /\ product = Effects \X {r}
    /\ published = {}

InitWorkers ==
  /\ sweep = "rest"
  /\ worker = [w \in Workers |-> Idle]
  /\ faults = 0

Init == (InitRunning \/ InitLegacy) /\ InitWorkers

record == <<run, plan, dispatch, admission, conv, ledger, product, published>>

Fault ==
  /\ faults < MaxFaults
  /\ faults' = faults + 1

-------------------------------------------------------------------------------
(* The Host and the others that end a Run *)

HostEmits ==
  /\ host.result = None
  /\ host.events < LastEvent - 1
  /\ host' = [host EXCEPT !.events = @ + 1]
  /\ UNCHANGED <<queue, cursor, record, sweep, bearer, worker, faults>>

\* The terminal event is the last one.  A Host that honours a cancellation ends
\* the Run as aborted, or as a timeout that says it was cancelled.
HostEnds ==
  /\ host.result = None
  /\ \E r \in HostResults :
       /\ r \in {"aborted", "cancelledTimeout"} => run = "aborting"
       /\ host' = [events |-> host.events + 1, result |-> r]
  /\ UNCHANGED <<queue, cursor, record, sweep, bearer, worker, faults>>

CancelRun ==
  /\ run = "running"
  /\ run' = "aborting"
  /\ UNCHANGED <<queue, host, cursor, plan, dispatch, admission, conv, ledger, product, published,
                 sweep, bearer, worker, faults>>

\* A redelivered runtime_dispatch item that fails takes its Run with it.
CompensateRun ==
  /\ run \in RunOpen
  /\ Fault
  /\ run' = "failed"
  /\ published' = published \cup {"failed"}
  /\ UNCHANGED <<queue, host, cursor, plan, dispatch, admission, conv, ledger, product, sweep, bearer, worker>>

\* The recovery worker lists the active Dispatches of an offline Host, marks the
\* Run, then the Dispatch with its Slot, then gives its capacity back.
SweepLists ==
  /\ sweep = "rest"
  /\ dispatch = "active"
  /\ Fault
  /\ sweep' = "listed"
  /\ UNCHANGED <<queue, host, cursor, record, bearer, worker>>

SweepMarksRun ==
  /\ sweep = "listed"
  /\ \/ /\ run \in {"running", "aborting"}
        /\ run' = "orphaned"
        /\ published' = published \cup {"orphaned"}
        /\ sweep' = "marked"
     \/ /\ run \notin {"running", "aborting"}
        /\ sweep' = "ended"
        /\ UNCHANGED <<run, published>>
  /\ UNCHANGED <<queue, host, cursor, plan, dispatch, admission, conv, ledger, product, bearer, worker, faults>>

SweepEndsDispatch ==
  /\ sweep = "marked"
  /\ sweep' = "ended"
  /\ dispatch' = IF dispatch = "active" THEN "orphaned" ELSE dispatch
  /\ admission' = IF dispatch = "active" THEN admission \ {"slot"} ELSE admission
  /\ UNCHANGED <<queue, host, cursor, run, plan, conv, ledger, product, published, bearer, worker, faults>>

SweepReleasesAdmissions ==
  /\ sweep = "ended"
  /\ dispatch = "orphaned"
  /\ "capacity" \in admission
  /\ admission' = admission \ {"capacity"}
  /\ UNCHANGED <<queue, host, cursor, run, plan, dispatch, conv, ledger, product, published, sweep,
                 bearer, worker, faults>>

\* The session of a Dispatch that ended, and whose Slot is closed, runs out; as
\* long as the Dispatch is active it is kept.
RecoverSession ==
  /\ "session" \in admission
  /\ dispatch # "active"
  /\ admission' = admission \ {"session"}
  /\ UNCHANGED <<queue, host, cursor, run, plan, dispatch, conv, ledger, product, published, sweep,
                 bearer, worker, faults>>

\* The lease of the session lapses, or the process that has its handle restarts
\* between two items.
LoseHandle ==
  /\ bearer # None
  /\ Fault
  /\ bearer' = None
  /\ UNCHANGED <<queue, host, cursor, record, sweep, worker>>

-------------------------------------------------------------------------------
(* Queue items *)

Holds(w) == queue[worker[w].item] = [status |-> "held", holder |-> w]

Lease(w, i) ==
  /\ worker[w].pc = "idle"
  /\ queue[i].status = "waiting"
  /\ queue' = [queue EXCEPT ![i] = [status |-> "held", holder |-> w]]
  /\ worker' = [worker EXCEPT ![w] = [Idle EXCEPT !.pc = "begin", !.item = i]]
  /\ UNCHANGED <<host, cursor, record, sweep, bearer, faults>>

\* The lease of a worker that is slow, or that is gone, runs out: the item
\* waits again, or has failed.
LeaseLapses(i) ==
  /\ queue[i].status = "held"
  /\ \/ /\ worker[queue[i].holder].pc # "idle" /\ worker[queue[i].holder].item = i
        /\ Fault
     \/ /\ worker[queue[i].holder].pc = "idle" \/ worker[queue[i].holder].item # i
        /\ UNCHANGED faults
  /\ \E s \in {"waiting", "failed"} : queue' = [queue EXCEPT ![i] = [status |-> s, holder |-> None]]
  /\ UNCHANGED <<host, cursor, record, sweep, bearer, worker>>

Crash(w) ==
  /\ worker[w].pc # "idle"
  /\ Fault
  /\ worker' = [worker EXCEPT ![w] = Idle]
  /\ bearer' = IF bearer = w THEN None ELSE bearer
  /\ UNCHANGED <<queue, host, cursor, record, sweep>>

\* The heartbeat finds the lease lost and cancels the work.
Abandon(w) ==
  /\ worker[w].pc # "idle"
  /\ ~Holds(w)
  /\ worker' = [worker EXCEPT ![w] = Idle]
  /\ UNCHANGED <<queue, host, cursor, record, sweep, bearer, faults>>

\* Every error ends the attempt; the item waits for the next poll unless its
\* attempts are used up.
Retry(w) ==
  /\ worker[w].pc = "retry"
  /\ worker' = [worker EXCEPT ![w] = Idle]
  /\ \/ /\ Holds(w)
        /\ \/ /\ queue' = [queue EXCEPT ![worker[w].item] = [status |-> "waiting", holder |-> None]]
              /\ UNCHANGED faults
           \/ /\ queue' = [queue EXCEPT ![worker[w].item] = [status |-> "failed", holder |-> None]]
              /\ Fault
     \/ ~Holds(w) /\ UNCHANGED <<queue, faults>>
  /\ UNCHANGED <<host, cursor, record, sweep, bearer>>

\* The item of a Dispatch whose convergence is complete is done.
CompletesItem(w) == queue' = [queue EXCEPT ![worker[w].item] = [status |-> "done", holder |-> None]]

Goto(w, pc) == worker' = [worker EXCEPT ![w].pc = pc]

\* The attempt ends with an error, and keeps nothing but its item.
GivesUp(w) == worker' = [worker EXCEPT ![w] = [Idle EXCEPT !.pc = "retry", !.item = worker[w].item]]

\* A call to the Host, the repository or the product fails.  A failed projection
\* gives its claim back, if that call succeeds, and the convergence notes the
\* error of its own steps: of its last error only "blocked" is told apart.
CallFails(w) ==
  /\ worker[w].pc \notin {"idle", "retry"}
  /\ Fault
  /\ GivesUp(w)
  /\ \/ UNCHANGED ledger
     \/ /\ worker[w].pc \in {"apply", "settle"}
        /\ ledger = [state |-> "applying", claim |-> worker[w].claim]
        /\ ledger' = [ledger EXCEPT !.state = "pending"]
  /\ \/ UNCHANGED conv
     \/ /\ worker[w].pc \in {"verify", "acquire", "apply", "settle", "final", "tail"}
        /\ conv' = [conv EXCEPT !.blocked = FALSE]
  /\ UNCHANGED <<queue, host, cursor, run, plan, dispatch, admission, product, published, sweep, bearer>>

\* A step of the convergence ends with an error that the convergence notes.
ConvergeFails(w) ==
  /\ conv' = [conv EXCEPT !.blocked = FALSE]
  /\ GivesUp(w)
  /\ UNCHANGED <<run, plan, dispatch, admission, ledger, product, published>>

-------------------------------------------------------------------------------
(* The event worker *)

\* The convergence that an item, or the recovery worker, finds not complete.
Incomplete == conv.result # None /\ ~conv.done

\* A convergence that is not done is resumed from its snapshot; without one, the
\* item of a terminal Dispatch is obsolete, and any other item polls the Host.
Begin(w) ==
  /\ worker[w].pc = "begin"
  /\ Holds(w)
  /\ \/ /\ Incomplete
        /\ worker' = [worker EXCEPT ![w].pc = CASE conv.legacy = "no" -> "verify"
                                               [] conv.legacy = "tail" -> "tail"
                                               [] OTHER -> "block",
                                    ![w].result = conv.result]
     \/ /\ ~Incomplete
        /\ dispatch # "active"
        /\ Goto(w, "acknowledge")
     \/ /\ ~Incomplete
        /\ dispatch = "active"
        /\ worker' = [worker EXCEPT ![w].pc = "ingest", ![w].after = cursor,
                                    ![w].cancelled = run = "aborting"]
  /\ UNCHANGED <<queue, host, cursor, record, sweep, bearer, faults>>

Acknowledge(w) ==
  /\ worker[w].pc = "acknowledge"
  /\ Holds(w)
  /\ CompletesItem(w)
  /\ worker' = [worker EXCEPT ![w] = Idle]
  /\ UNCHANGED <<host, cursor, record, sweep, bearer, faults>>

\* The next event of the Host: one that is stored already is a duplicate, any
\* other must continue the cursor.
IngestEvent(w) ==
  /\ worker[w].pc = "ingest"
  /\ worker[w].after < host.events
  /\ \/ worker[w].after + 1 <= cursor /\ UNCHANGED cursor
     \/ worker[w].after = cursor /\ cursor' = cursor + 1
  /\ worker' = [worker EXCEPT ![w].after = @ + 1]
  /\ UNCHANGED <<queue, host, record, sweep, bearer, faults>>

EndIngest(w) ==
  /\ worker[w].pc = "ingest"
  /\ worker[w].after = host.events
  /\ Goto(w, "status")
  /\ UNCHANGED <<queue, host, cursor, record, sweep, bearer, faults>>

\* A timeout that answers a cancellation the worker knows of is an abort.
Normalize(r, cancelled) ==
  IF r = "cancelledTimeout" THEN IF cancelled THEN "aborted" ELSE "timeout" ELSE r

\* The end of the Run on its Host counts once all events up to it are ingested.
GetStatus(w) ==
  /\ worker[w].pc = "status"
  /\ IF host.result = None \/ host.events > worker[w].after
     THEN GivesUp(w)
     ELSE worker' = [worker EXCEPT ![w].pc = "ensure", ![w].cancelled = FALSE,
                                   ![w].result = Normalize(host.result, worker[w].cancelled)]
  /\ UNCHANGED <<queue, host, cursor, record, sweep, bearer, faults>>

-------------------------------------------------------------------------------
(* Convergence *)

\* Mutant: the convergence goes on with the worker's own result.
EnsureAnyProgress(w) ==
  /\ worker[w].pc = "ensure"
  /\ Goto(w, "verify")
  /\ conv' = IF conv.result = None THEN [conv EXCEPT !.result = worker[w].result] ELSE conv
  /\ UNCHANGED <<queue, host, cursor, run, plan, dispatch, admission, ledger, product, published,
                 sweep, bearer, faults>>

\* The first worker writes the snapshot; another one goes on only if its own
\* command is the same.
EnsureProgress(w) ==
  /\ worker[w].pc = "ensure"
  /\ \/ /\ conv.result = None
        /\ conv' = [conv EXCEPT !.result = worker[w].result]
        /\ Goto(w, "verify")
     \/ /\ conv.result # None
        /\ IF conv.result = worker[w].result THEN Goto(w, "verify") ELSE GivesUp(w)
        /\ UNCHANGED conv
  /\ UNCHANGED <<queue, host, cursor, run, plan, dispatch, admission, ledger, product, published,
                 sweep, bearer, faults>>

VerifyEvents(w) ==
  /\ worker[w].pc = "verify"
  /\ cursor = host.events
  /\ Goto(w, "acquire")
  /\ conv' = IF "events" \in conv.steps THEN conv
             ELSE [conv EXCEPT !.steps = @ \cup {"events"}, !.blocked = FALSE]
  /\ UNCHANGED <<queue, host, cursor, run, plan, dispatch, admission, ledger, product, published,
                 sweep, bearer, faults>>

Applying(w) == worker[w].pc \in {"apply", "settle"} /\ worker[w].claim = ledger.claim

\* The claim on the projection: taken when nobody has it, or from a worker that
\* is gone, or slow.
AcquireProjection(w) ==
  /\ worker[w].pc = "acquire"
  /\ \/ /\ "product" \in conv.steps \/ ledger.state = "completed"
        /\ Goto(w, IF "product" \in conv.steps THEN "final" ELSE "mark")
        /\ UNCHANGED <<record, faults>>
     \/ /\ "product" \notin conv.steps
        /\ ledger.state # "completed"
        /\ \/ /\ ledger.state = "pending" \/ \A v \in Workers : ~Applying(v)
              /\ UNCHANGED faults
           \/ ledger.state = "applying" /\ (\E v \in Workers : Applying(v)) /\ Fault
        /\ ledger' = [state |-> "applying", claim |-> ledger.claim + 1]
        /\ worker' = [worker EXCEPT ![w].pc = "apply", ![w].left = Effects,
                                    ![w].claim = ledger.claim + 1]
        /\ UNCHANGED <<run, plan, dispatch, admission, conv, product, published>>
     \/ /\ "product" \notin conv.steps
        /\ ledger.state = "applying"
        /\ \E v \in Workers : Applying(v)
        /\ ConvergeFails(w)
        /\ UNCHANGED faults
  /\ UNCHANGED <<queue, host, cursor, sweep, bearer>>

\* Mutant: the effects are applied in any order.
BeforeNothing(e) == {}

Before(e) ==
  CASE e = "writeback" -> {} [] e = "task" -> {"writeback"} [] OTHER -> {"writeback", "task"}

\* The effects carry the key of the projection: one that is there stays as it is.
ApplyEffect(w, e) ==
  /\ worker[w].pc = "apply"
  /\ e \in worker[w].left
  /\ Before(e) \cap worker[w].left = {}
  /\ product' = product \cup {<<e, worker[w].result>>}
  /\ worker' = [worker EXCEPT ![w].left = @ \ {e},
                              ![w].pc = IF worker[w].left = {e} THEN "settle" ELSE "apply"]
  /\ UNCHANGED <<queue, host, cursor, run, plan, dispatch, admission, conv, ledger, published, sweep, bearer, faults>>

\* Only the latest claim completes the projection.
CompleteProjection(w) ==
  /\ worker[w].pc = "settle"
  /\ \/ /\ ledger = [state |-> "applying", claim |-> worker[w].claim]
        /\ ledger' = [ledger EXCEPT !.state = "completed"]
        /\ Goto(w, "mark")
        /\ UNCHANGED <<run, plan, dispatch, admission, conv, product, published>>
     \/ /\ ledger # [state |-> "applying", claim |-> worker[w].claim]
        /\ ConvergeFails(w)
  /\ UNCHANGED <<queue, host, cursor, sweep, bearer, faults>>

MarkProjected(w) ==
  /\ worker[w].pc = "mark"
  /\ conv' = [conv EXCEPT !.steps = @ \cup {"product"}, !.blocked = FALSE]
  /\ Goto(w, "final")
  /\ UNCHANGED <<queue, host, cursor, run, plan, dispatch, admission, ledger, product, published,
                 sweep, bearer, faults>>

\* Mutant: an orphaned Dispatch does not stop the convergence.
AnyDispatchMayEnd(r) == dispatch \in {DispatchStatus(r), "active"} \cup DispatchTerminal

DispatchMayEnd(r) == dispatch \in {DispatchStatus(r), "active"}

RunMayEnd(r) ==
  /\ run \in {RunStatus(r)} \cup RunOpen
  /\ plan \in {PlanStatus(r), "executing"}

\* A session that is held is given back by its handle only.
SessionMayEnd(w) == "session" \in admission => bearer = w

\* What the last step demands of the item, the Run, its plan, the Dispatch and
\* the session.
MayFinalize(w, r) == Holds(w) /\ RunMayEnd(r) /\ DispatchMayEnd(r) /\ SessionMayEnd(w)

\* Capacity and session are given back with the Slot of the Dispatch, unless
\* somebody did so before.
GivesAdmissionsBack == admission' = {}

\* Run, public event, capacity, Slot, Dispatch, session, queue item and the
\* convergence itself, in one transaction of the holder of the item.
FinalizeTerminalEffects(w) ==
  LET r == worker[w].result IN
  /\ worker[w].pc = "final"
  /\ \/ /\ ~conv.done /\ MayFinalize(w, r)
        /\ run' = RunStatus(r)
        /\ plan' = PlanStatus(r)
        /\ published' = published \cup {RunStatus(r)}
        /\ GivesAdmissionsBack
        /\ dispatch' = IF dispatch = "active" THEN DispatchStatus(r) ELSE dispatch
        /\ CompletesItem(w)
        /\ conv' = [conv EXCEPT !.done = TRUE, !.blocked = FALSE]
        /\ worker' = [worker EXCEPT ![w] = Idle]
        /\ UNCHANGED <<ledger, product>>
     \/ /\ conv.done /\ queue[worker[w].item].status = "done"
        /\ worker' = [worker EXCEPT ![w] = Idle]
        /\ UNCHANGED <<queue, record>>
     \/ /\ IF conv.done
           THEN queue[worker[w].item].status # "done"
           ELSE ~MayFinalize(w, r)
        /\ ConvergeFails(w)
        /\ UNCHANGED queue
  /\ UNCHANGED <<host, cursor, sweep, bearer, faults>>

LegacyFacts(r) ==
  run = RunStatus(r) /\ plan = PlanStatus(r) /\ dispatch = DispatchStatus(r) /\ admission = {}

MayEndTail(w, r) == Holds(w) /\ LegacyFacts(r)

\* A legacy convergence lacks its public event and its queue item only, and
\* finds everything else at its end.
ConvergeLegacyTail(w) ==
  LET r == worker[w].result IN
  /\ worker[w].pc = "tail"
  /\ \/ /\ ~conv.done /\ MayEndTail(w, r)
        /\ published' = published \cup {RunStatus(r)}
        /\ CompletesItem(w)
        /\ conv' = [conv EXCEPT !.done = TRUE, !.blocked = FALSE]
        /\ worker' = [worker EXCEPT ![w] = Idle]
        /\ UNCHANGED <<run, plan, dispatch, admission, ledger, product>>
     \/ /\ conv.done
        /\ worker' = [worker EXCEPT ![w] = Idle]
        /\ UNCHANGED <<queue, record>>
     \/ /\ ~conv.done /\ ~MayEndTail(w, r)
        /\ ConvergeFails(w)
        /\ UNCHANGED queue
  /\ UNCHANGED <<host, cursor, sweep, bearer, faults>>

\* A contradictory legacy convergence is given up together with its item.
BlockLegacy(w) ==
  /\ worker[w].pc = "block"
  /\ Holds(w)
  /\ queue' = [queue EXCEPT ![worker[w].item] = [status |-> "failed", holder |-> None]]
  /\ conv' = [conv EXCEPT !.blocked = TRUE]
  /\ worker' = [worker EXCEPT ![w] = Idle]
  /\ UNCHANGED <<host, cursor, run, plan, dispatch, admission, ledger, product, published, sweep, bearer, faults>>

-------------------------------------------------------------------------------
(* The recovery worker *)

Ended(i) == queue[i].status \in {"done", "failed"}

\* Mutant: recovery waits for an item that succeeded.
EnqueueRecoveryAfterSuccess(n) ==
  /\ Incomplete
  /\ ~conv.blocked
  /\ queue[n].status = "absent"
  /\ \A i \in 0..(n - 1) : queue[i].status = "done"
  /\ queue' = [queue EXCEPT ![n] = [status |-> "waiting", holder |-> None]]
  /\ UNCHANGED <<host, cursor, record, sweep, bearer, worker, faults>>

\* A convergence that is neither done nor blocked, whose items have all ended,
\* gets a new one; while one may still run, it is left to that one.
EnqueueTerminalRecovery(n) ==
  /\ Incomplete
  /\ ~conv.blocked
  /\ queue[n].status = "absent"
  /\ \A i \in 0..(n - 1) : Ended(i)
  /\ queue' = [queue EXCEPT ![n] = [status |-> "waiting", holder |-> None]]
  /\ UNCHANGED <<host, cursor, record, sweep, bearer, worker, faults>>

-------------------------------------------------------------------------------

Work(w) ==
  \/ Begin(w) \/ Acknowledge(w) \/ IngestEvent(w) \/ EndIngest(w) \/ GetStatus(w)
  \/ EnsureProgress(w) \/ VerifyEvents(w) \/ AcquireProjection(w)
  \/ (\E e \in Effects : ApplyEffect(w, e))
  \/ CompleteProjection(w) \/ MarkProjected(w) \/ FinalizeTerminalEffects(w)
  \/ ConvergeLegacyTail(w) \/ BlockLegacy(w) \/ Retry(w) \/ Abandon(w)

Others ==
  \/ HostEmits \/ HostEnds \/ CancelRun \/ CompensateRun
  \/ SweepLists \/ SweepMarksRun \/ SweepEndsDispatch \/ SweepReleasesAdmissions
  \/ RecoverSession \/ LoseHandle

Next ==
  \/ Others
  \/ \E w \in Workers : Work(w) \/ CallFails(w) \/ Crash(w)
  \/ \E w \in Workers, i \in Items : Lease(w, i)
  \/ \E i \in Items : LeaseLapses(i)
  \/ \E n \in Items \ {0} : EnqueueTerminalRecovery(n)

Spec == Init /\ [][Next]_vars

\* Workers poll their queue and go on with what they began, leases run out, and
\* recovery reconciles periodically.  An item that comes back again and again is
\* leased by each of the workers at some time: the one that has the handle is
\* not always late.  (If it were, recovery would orphan the Dispatch after ten
\* minutes, which is an end as well.)  Nothing makes a Host end a Run, and no
\* fault has to happen.
Fairness ==
  /\ \A w \in Workers : WF_vars(Work(w)) /\ SF_vars(\E i \in Items : Lease(w, i))
  /\ \A i \in Items : WF_vars(LeaseLapses(i) /\ UNCHANGED faults)
  /\ WF_vars(\E n \in Items \ {0} : EnqueueTerminalRecovery(n))

FairSpec == Spec /\ Fairness

\* The same steps after an ambiguous submit.
UnknownSpec == InitSubmitUnknown /\ InitWorkers /\ [][Next]_vars /\ Fairness

-------------------------------------------------------------------------------
(* Properties *)

\* Whatever workers, users and sweeps did, the product shows the effects of one
\* result, the one of the convergence's snapshot, and a completed projection
\* shows all of them.
OneOutcome ==
  /\ \A p \in product : p[2] = conv.result
  /\ ledger.state = "completed" => product = Effects \X {conv.result}

\* A convergence that is done is done everywhere: no event of the Host is
\* missing, the product, the Run and the Dispatch show its result, also when the
\* sweep or a redelivered task was under way, and nothing is held any more.
\* A queue item that was acknowledged belongs to a Dispatch that ended.
DoneIsConsistent ==
  /\ conv.done => /\ cursor = host.events
                  /\ product = Effects \X {conv.result}
                  /\ run = RunStatus(conv.result) /\ plan = PlanStatus(conv.result)
                  /\ dispatch = DispatchStatus(conv.result)
                  /\ RunStatus(conv.result) \in published
                  /\ admission = {}
  /\ \A i \in Items : queue[i].status = "done" => dispatch # "active"

\* What a convergence that is done tells of the end of the Run.
Told == IF conv.done THEN <<run, plan, dispatch>> ELSE None

Outcome == INSTANCE TerminalOutcome WITH
  Precedes <- {<<"writeback", "task">>, <<"task", "usage">>},
  Verdict <- [r \in Results |-> <<RunStatus(r), PlanStatus(r), DispatchStatus(r)>>],
  decided <- conv.result, shown <- product, verdict <- Told

\* Workers that converge beside each other, with crashes, lost leases, the user
\* and the sweep in between, do only what the one outcome of a Run allows: a
\* result decided once, its effects shown in their order, and a verdict of Run,
\* plan and Dispatch that comes after all of them and stays.
ImplementsOutcome == Outcome!Spec

\* The two ends of a Run that a convergence cannot overcome.
EndedElsewhere == dispatch = "orphaned" \/ (run = "failed" /\ RunStatus(conv.result) # "failed")

\* The handle of the session is lost while the session is held: no event worker
\* can converge any more (runtime_terminal_converger.go:936), recovery keeps the
\* session until it orphans the Dispatch, ten minutes after its creation.
Stranded == "session" \in admission /\ bearer = None

\* A convergence that was begun ends, whichever worker gets its items: it is
\* done, or was blocked as contradictory, or somebody else ended the Dispatch or
\* the Run before it, or the handle of its session was lost.
ConvergenceEnds ==
  conv.result # None ~> (conv.done \/ conv.blocked \/ EndedElsewhere \/ Stranded)

\* What the comment on acceptPostgres promises of a Dispatch left to
\* submit_unknown recovery: the Run that its Host has goes on to its end, and
\* its convergence, once begun, is done.
UnknownSubmitConverges == conv.result # None ~> conv.done
===============================================================================
