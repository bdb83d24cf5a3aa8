----------------------------- MODULE RunLifecycle -----------------------------
(***************************************************************************)
(* One agent run from its creation to the moment a Host executes it:       *)
(* planning, confirmation with its quota, the dispatcher, cancellation and *)
(* the abort job.  How a Run that a Host executes comes to its end is the  *)
(* matter of TerminalConvergence.                                          *)
(*                                                                         *)
(* Each transaction or statement is one step; a dispatcher, an abort       *)
(* worker and the cancellation handler may stop between any two of them.   *)
(*                                                                         *)
(* Abstractions: the work items are those of WorkQueue, reduced to whether *)
(* they wait, are held or have ended; the slot of the Run is the one that  *)
(* RuntimeHostSlots describes.  The planning worker is not part of the     *)
(* repository: it holds its item and publishes a plan or gives up.         *)
(***************************************************************************)
EXTENDS UsageSettlement

CONSTANTS
  RunTask,          \* the product task of the Run
  MaxTries          \* attempts of the dispatch and of the abort item

ASSUME RunAssumption == RunTask \in Tasks /\ MaxTries \in Nat \ {0}

VARIABLES
  run,              \* agent_runs.status
  cancelAsked,      \* agent_runs.cancel_requested_at is set
  plan,             \* agent_run_plans.status
  confirmedBy,      \* agent_run_plans.confirmation_key_hash
  workspaceMoved,   \* the Workspace is no longer the one the Run was made for
  productTask,      \* ai_tasks.status
  item,             \* task_queue_records of the Run
  tries,            \* attempts of these items
  slot,             \* the Run's slot reservation
  dispatch,         \* runtime_run_dispatches.state
  submitted,        \* the request has reached a Host
  dispatcher,       \* where the dispatcher is
  aborter,          \* where the abort worker is
  cancelling        \* a cancellation handler is past its transaction

runVars == <<run, cancelAsked, plan, confirmedBy, workspaceMoved, productTask, item, tries,
             slot, dispatch, submitted, dispatcher, aborter, cancelling>>

ItemKinds == {"planning", "dispatch", "abort", "events"}
ItemStatuses == {"none", "waiting", "held", "done", "failed"}
RunStatuses == {"none", "planning", "awaiting_confirmation", "queued", "dispatched", "accepted",
                "running", "aborting", "cancelled", "failed"}
Ended == {"cancelled", "failed"}
OwnedStatuses == {"dispatched", "accepted", "running", "aborting"}
ActiveDispatch == {"created", "sent", "submit_unknown", "accepted"}

RunTypeOK ==
  /\ run \in RunStatuses
  /\ plan \in {"none", "validated", "awaiting_confirmation", "confirmed", "executing"}
  /\ confirmedBy \in Checks \cup {"none"}
  /\ cancelAsked \in BOOLEAN /\ workspaceMoved \in BOOLEAN /\ submitted \in BOOLEAN
  /\ cancelling \in BOOLEAN
  /\ productTask \in {"none", "queued", "running", "failed"}
  /\ item \in [ItemKinds -> ItemStatuses]
  /\ tries \in [{"dispatch", "abort"} -> 0 .. MaxTries]
  /\ slot \in {"none", "reserved", "accepted", "released"}
  /\ dispatch \in {"none"} \cup ActiveDispatch
  /\ dispatcher \in {"idle", "leased", "admitting", "reserved", "created", "authorized", "sent",
                     "answered", "unanswered", "accepted", "started", "enqueueing"}
  /\ aborter \in {"idle", "leased", "requested", "acknowledged"}

RunInit ==
  /\ run = "none" /\ cancelAsked = FALSE
  /\ plan = "none" /\ confirmedBy = "none"
  /\ workspaceMoved = FALSE
  /\ productTask = "none"
  /\ item = [i \in ItemKinds |-> "none"]
  /\ tries = [i \in {"dispatch", "abort"} |-> 0]
  /\ slot = "none" /\ dispatch = "none" /\ submitted = FALSE
  /\ dispatcher = "idle" /\ aborter = "idle" /\ cancelling = FALSE

plannerVars == <<plan, confirmedBy, workspaceMoved>>
hostVars == <<slot, dispatch, submitted>>

-------------------------------------------------------------------------------
(* Creation, planning, confirmation *)

\* The Run and its planning item.  A repeated request finds both and changes
\* nothing.
CreateRunAndEnqueuePlanning ==
  /\ run = "none"
  /\ run' = "planning"
  /\ productTask' \in {"none", "queued"}
  /\ item' = [item EXCEPT !["planning"] = "waiting"]
  /\ UNCHANGED <<plannerVars, hostVars, cancelAsked, tries, dispatcher, aborter, cancelling, usageVars>>

WorkspaceMoves ==
  /\ run # "none" /\ ~workspaceMoved
  /\ workspaceMoved' = TRUE
  /\ UNCHANGED <<run, cancelAsked, plan, confirmedBy, productTask, item, tries, hostVars, dispatcher,
                 aborter, cancelling, usageVars>>

PlanningLease ==
  /\ item["planning"] = "waiting"
  /\ item' = [item EXCEPT !["planning"] = "held"]
  /\ UNCHANGED <<run, cancelAsked, plannerVars, productTask, tries, hostVars, dispatcher, aborter,
                 cancelling, usageVars>>

\* The worker's lease runs out, or it gives the plan up and fails the Run.
PlanningEndsWithoutPlan ==
  /\ item["planning"] = "held"
  /\ \/ item' = [item EXCEPT !["planning"] = "waiting"] /\ UNCHANGED run
     \/ /\ item' = [item EXCEPT !["planning"] = "failed"]
        /\ run' = IF run = "planning" THEN "failed" ELSE run
  /\ UNCHANGED <<cancelAsked, plannerVars, productTask, tries, hostVars, dispatcher, aborter,
                 cancelling, usageVars>>

\* Plan, Run, dispatch item and the end of the planning item become visible at
\* once, while the lease of the planning item lasts and the Workspace has not moved.
FinalizePlanningSuccess ==
  /\ item["planning"] = "held" /\ run = "planning" /\ ~workspaceMoved
  /\ \/ /\ plan' = "validated" /\ run' = "queued"
        /\ item' = [item EXCEPT !["planning"] = "done", !["dispatch"] = "waiting"]
     \/ /\ plan' = "awaiting_confirmation" /\ run' = "awaiting_confirmation"
        /\ item' = [item EXCEPT !["planning"] = "done"]
  /\ UNCHANGED <<cancelAsked, confirmedBy, workspaceMoved, productTask, tries, hostVars, dispatcher,
                 aborter, cancelling, usageVars>>

OneGeneration == [m \in Meters |-> IF m = "generation" THEN 1 ELSE 0]

MayConfirm == run = "awaiting_confirmation" /\ plan = "awaiting_confirmation"

\* The permission check is named after the Run, the plan and the caller's key, so
\* that a confirmation with another key asks again.
ConfirmPlanAndEnqueue(key) ==
  /\ MayConfirm
  /\ AdmitAndReserve(key, RunTask, OneGeneration)
  /\ plan' = "confirmed" /\ confirmedBy' = key /\ run' = "queued"
  /\ productTask' = IF productTask = "none" THEN "queued" ELSE productTask
  /\ item["dispatch"] = "none"
  /\ item' = [item EXCEPT !["dispatch"] = "waiting"]
  /\ UNCHANGED <<cancelAsked, workspaceMoved, tries, hostVars, dispatcher, aborter, cancelling>>

\* Mutant: a confirmation goes on after a denial.
ConfirmedThoughDenied(key) ==
  /\ MayConfirm
  /\ DenyAdmission(key, RunTask, OneGeneration)
  /\ plan' = "confirmed" /\ confirmedBy' = key /\ run' = "queued"
  /\ item' = [item EXCEPT !["dispatch"] = "waiting"]
  /\ UNCHANGED <<cancelAsked, workspaceMoved, productTask, tries, hostVars, dispatcher, aborter, cancelling>>

\* A denial commits the check and nothing else.
ConfirmationDenied(key) ==
  /\ MayConfirm
  /\ DenyAdmission(key, RunTask, OneGeneration)
  /\ UNCHANGED runVars

-------------------------------------------------------------------------------
(* Cancellation *)

\* Somebody may be about to hand the Run to a Host, or has.
Owned ==
  dispatch \in ActiveDispatch \/ slot \in {"reserved", "accepted"} \/ run \in OwnedStatuses

\* Without an owner the Run is cancelled at once; with one it is aborting and has
\* one abort item, which a second cancellation finds.
RequestCancelAndEnqueue ==
  /\ run \notin Ended \cup {"none"}
  /\ cancelAsked' = TRUE
  /\ IF Owned
     THEN /\ run' = "aborting"
          /\ item' = [item EXCEPT !["abort"] = IF @ = "none" THEN "waiting" ELSE @]
     ELSE run' = "cancelled" /\ UNCHANGED item
  /\ cancelling' = TRUE
  /\ UNCHANGED <<plannerVars, productTask, tries, hostVars, dispatcher, aborter, usageVars>>

\* The handler then ends the product task of a cancelled Run; if it stops before,
\* a repeated cancellation does it.
CancelProjectsTask ==
  /\ cancelling \/ run = "cancelled"
  /\ cancelling' = FALSE
  /\ productTask' = IF run = "cancelled" /\ productTask # "none" THEN "failed" ELSE productTask
  /\ UNCHANGED <<run, cancelAsked, plannerVars, item, tries, hostVars, dispatcher, aborter, usageVars>>

CancelHandlerStops ==
  /\ cancelling
  /\ cancelling' = FALSE
  /\ UNCHANGED <<run, cancelAsked, plannerVars, productTask, item, tries, hostVars, dispatcher,
                 aborter, usageVars>>

-------------------------------------------------------------------------------
(* The dispatcher *)

dispatcherFrame == <<cancelAsked, confirmedBy, workspaceMoved, aborter, cancelling, usageVars>>

\* Mutant: a failed item leaves its Run as it is.
CompensateItemOnly(i) ==
  /\ item' = [item EXCEPT ![i] = "failed"]
  /\ UNCHANGED <<run, productTask>>

\* A failed dispatch item takes its Run and the product task with it.
CompensateQueueFailure(i) ==
  /\ item' = [item EXCEPT ![i] = "failed"]
  /\ run' = IF run \in Ended THEN run ELSE "failed"
  /\ productTask' = IF productTask = "none" THEN "none" ELSE "failed"

\* The dispatcher gives up: with a stale proof nothing happens, a retry of the
\* last attempt is a failure.
Fail(retryable) ==
  /\ dispatcher' = "idle"
  /\ \/ item["dispatch"] # "held" /\ UNCHANGED <<item, run, productTask>>
     \/ /\ item["dispatch"] = "held" /\ retryable /\ tries["dispatch"] < MaxTries
        /\ item' = [item EXCEPT !["dispatch"] = "waiting"]
        /\ UNCHANGED <<run, productTask>>
     \/ /\ item["dispatch"] = "held" /\ ~(retryable /\ tries["dispatch"] < MaxTries)
        /\ CompensateQueueFailure("dispatch")
  /\ UNCHANGED <<plan, tries, dispatcherFrame>>

ReleaseBeforeAccept ==
  /\ slot' = IF slot = "reserved" THEN "released" ELSE slot
  /\ UNCHANGED <<dispatch, submitted>>

\* Completion with the event item after it, unless the proof is stale.
CompleteThen(next) ==
  /\ \/ /\ item["dispatch"] = "held"
        /\ item' = [item EXCEPT !["dispatch"] = "done"]
        /\ dispatcher' = next
     \/ item["dispatch"] # "held" /\ dispatcher' = "idle" /\ UNCHANGED item

DispatchLease ==
  /\ dispatcher = "idle" /\ item["dispatch"] = "waiting"
  /\ tries["dispatch"] < MaxTries
  /\ item' = [item EXCEPT !["dispatch"] = "held"]
  /\ tries' = [tries EXCEPT !["dispatch"] = @ + 1]
  /\ dispatcher' = "leased"
  /\ UNCHANGED <<run, plan, productTask, hostVars, dispatcherFrame>>

\* Only a queued Run, with the plan's Workspace, is dispatched.
LoadRunAndPlan ==
  /\ dispatcher = "leased"
  /\ \/ /\ run = "queued" /\ ~workspaceMoved
        /\ dispatcher' = "admitting"
        /\ UNCHANGED <<run, plan, productTask, item, tries, dispatcherFrame>>
     \/ (run # "queued" \/ workspaceMoved) /\ Fail(FALSE)
  /\ UNCHANGED hostVars

\* Capacity, session and slot, or none of them (SessionAdmission, CapacityAdmission).
Reserve ==
  /\ dispatcher = "admitting"
  /\ \/ /\ slot # "accepted"
        /\ slot' = "reserved" /\ dispatcher' = "reserved"
        /\ UNCHANGED <<run, plan, productTask, item, tries, dispatch, submitted, dispatcherFrame>>
     \/ Fail(TRUE) /\ UNCHANGED hostVars

\* The manifest is built from a Workspace that is checked before and after.
CreateDispatch ==
  /\ dispatcher = "reserved"
  /\ \/ /\ ~workspaceMoved /\ slot = "reserved"
        /\ dispatch' = "created" /\ dispatcher' = "created"
        /\ UNCHANGED <<run, plan, productTask, item, tries, slot, submitted, dispatcherFrame>>
     \/ workspaceMoved /\ ReleaseBeforeAccept /\ Fail(FALSE)
     \/ ReleaseBeforeAccept /\ Fail(TRUE)

\* Mutant: the Run is authorised as the dispatcher read it.
AuthorizedUnread == dispatch = "created" /\ slot = "reserved"

\* What the transaction finds when it has locked Run, Dispatch and slot.
MayAuthorize == run = "queued" /\ ~cancelAsked /\ dispatch = "created" /\ slot = "reserved"

\* The fence between submit and cancellation: it is committed before the request
\* leaves.  Of a Run cancelled by now only the slot remains to be given back; an
\* aborting one is left to the abort job and the event worker.
AuthorizeDispatchSubmit ==
  /\ dispatcher = "created"
  /\ \/ /\ MayAuthorize
        /\ run' = "dispatched" /\ dispatcher' = "authorized"
        /\ UNCHANGED <<plan, productTask, item, tries, hostVars, dispatcherFrame>>
     \/ /\ ~MayAuthorize /\ (cancelAsked \/ run \in {"cancelled", "aborting"})
        /\ IF run = "cancelled" THEN ReleaseBeforeAccept ELSE UNCHANGED hostVars
        /\ CompleteThen(IF run = "aborting" THEN "enqueueing" ELSE "idle")
        /\ UNCHANGED <<run, plan, productTask, tries, dispatcherFrame>>
     \/ ~MayAuthorize /\ ~cancelAsked /\ ReleaseBeforeAccept /\ Fail(TRUE)

MarkDispatchSent ==
  /\ dispatcher = "authorized"
  /\ \/ /\ slot = "reserved"
        /\ dispatch' = "sent" /\ dispatcher' = "sent"
        /\ UNCHANGED <<run, plan, productTask, item, tries, slot, submitted, dispatcherFrame>>
     \/ ReleaseBeforeAccept /\ Fail(TRUE)

\* The request reaches the Host or not, and the answer reaches the dispatcher or not.
Submit ==
  /\ dispatcher = "sent"
  /\ \/ submitted' = TRUE /\ dispatcher' \in {"answered", "unanswered"}
     \/ dispatcher' = "unanswered" /\ UNCHANGED submitted
  /\ UNCHANGED <<run, plan, productTask, item, tries, slot, dispatch, dispatcherFrame>>

MarkDispatchSubmitUnknown ==
  /\ dispatcher = "unanswered"
  /\ dispatch' \in {dispatch, "submit_unknown"}
  /\ CompleteThen("enqueueing")
  /\ UNCHANGED <<run, plan, productTask, tries, slot, submitted, dispatcherFrame>>

\* The acceptance; if it is refused the submit counts as unanswered.
Accept ==
  /\ dispatcher = "answered"
  /\ \/ slot = "reserved" /\ slot' = "accepted" /\ dispatch' = "accepted" /\ dispatcher' = "accepted"
     \/ dispatcher' = "unanswered" /\ UNCHANGED <<slot, dispatch>>
  /\ UNCHANGED <<run, plan, productTask, item, tries, submitted, dispatcherFrame>>

\* Two updates of the Run, each refused when a cancellation came first.
MarkRunAccepted ==
  /\ dispatcher = "accepted"
  /\ \/ /\ run = "dispatched"
        /\ run' = "accepted" /\ UNCHANGED <<dispatcher, plan, productTask, item, tries, dispatcherFrame>>
     \/ /\ run = "accepted"
        /\ run' = "running" /\ dispatcher' = "started"
        /\ UNCHANGED <<plan, productTask, item, tries, dispatcherFrame>>
     \/ /\ run = "aborting"
        /\ CompleteThen("enqueueing") /\ UNCHANGED <<run, plan, productTask, tries, dispatcherFrame>>
     \/ run \in Ended /\ Fail(FALSE)
  /\ UNCHANGED hostVars

\* The product task and the plan follow; then the item is done.  A projection
\* that fails sends the item back to wait.
ProjectRunning ==
  /\ dispatcher = "started"
  /\ \/ /\ productTask' = IF productTask = "queued" THEN "running" ELSE productTask
        /\ plan' = IF plan \in {"validated", "confirmed"} THEN "executing" ELSE plan
        /\ CompleteThen("enqueueing")
        /\ UNCHANGED <<run, tries, dispatcherFrame>>
     \/ Fail(TRUE)
  /\ UNCHANGED hostVars

EnqueueRuntimeEventRecovery ==
  /\ dispatcher = "enqueueing"
  /\ dispatcher' = "idle"
  /\ item' = [item EXCEPT !["events"] = IF @ = "none" THEN "waiting" ELSE @]
  /\ UNCHANGED <<run, plan, productTask, tries, hostVars, dispatcherFrame>>

DispatcherStops ==
  /\ dispatcher # "idle"
  /\ dispatcher' = "idle"
  /\ UNCHANGED <<run, plan, productTask, item, tries, hostVars, dispatcherFrame>>

\* A lease that ran out before the work began is retried, one at work fails.
DispatchLeaseLapses ==
  /\ item["dispatch"] = "held"
  /\ \/ /\ dispatcher \in {"idle", "leased"} /\ tries["dispatch"] < MaxTries
        /\ item' = [item EXCEPT !["dispatch"] = "waiting"]
        /\ dispatcher' = "idle" /\ UNCHANGED <<run, productTask>>
     \/ CompensateQueueFailure("dispatch") /\ UNCHANGED dispatcher
  /\ UNCHANGED <<plan, tries, hostVars, dispatcherFrame>>

\* The slot of a dispatcher that is gone lapses (RuntimeHostSlots).
SlotLapses ==
  /\ slot = "reserved" /\ dispatcher = "idle"
  /\ slot' = "released"
  /\ UNCHANGED <<run, plan, productTask, item, tries, dispatch, submitted, dispatcher, dispatcherFrame>>

-------------------------------------------------------------------------------
(* The abort job *)

aborterFrame == <<run, cancelAsked, plannerVars, productTask, hostVars, dispatcher, cancelling, usageVars>>

AbortLease ==
  /\ aborter = "idle" /\ item["abort"] = "waiting" /\ tries["abort"] < MaxTries
  /\ item' = [item EXCEPT !["abort"] = "held"]
  /\ tries' = [tries EXCEPT !["abort"] = @ + 1]
  /\ aborter' = "leased"
  /\ UNCHANGED aborterFrame

\* The last attempt fails the item; the Run stays as it is, because the lease
\* context that the update to orphaned uses has been cancelled by then.
AbortFail ==
  /\ aborter' = "idle"
  /\ item' = [item EXCEPT !["abort"] = IF tries["abort"] < MaxTries THEN "waiting" ELSE "failed"]
  /\ UNCHANGED <<tries, aborterFrame>>

AbortBegins ==
  /\ aborter = "leased"
  /\ \/ /\ run \in Ended
        /\ item' = [item EXCEPT !["abort"] = "done"] /\ aborter' = "idle"
        /\ UNCHANGED <<tries, aborterFrame>>
     \/ /\ run = "aborting" /\ dispatch \in ActiveDispatch /\ slot \in {"reserved", "accepted"}
        /\ aborter' = "requested"
        /\ UNCHANGED <<item, tries, aborterFrame>>
     \/ run \notin Ended /\ AbortFail

\* The Host acknowledges, or does not.
AbortAsync ==
  /\ aborter = "requested"
  /\ \/ aborter' = "acknowledged" /\ UNCHANGED <<item, tries, aborterFrame>>
     \/ AbortFail

\* The acknowledgement is not the end of the Run: the event worker brings it.
AbortEnqueuesEvents ==
  /\ aborter = "acknowledged"
  /\ aborter' = "idle"
  /\ item' = [item EXCEPT !["abort"] = "done",
                          !["events"] = IF @ = "none" THEN "waiting" ELSE @]
  /\ UNCHANGED <<tries, aborterFrame>>

\* A worker that died leaves a lease that lapses.
AborterStops ==
  /\ aborter # "idle"
  /\ AbortFail

-------------------------------------------------------------------------------
PlanningStep ==
  \/ CreateRunAndEnqueuePlanning \/ WorkspaceMoves
  \/ PlanningLease \/ PlanningEndsWithoutPlan \/ FinalizePlanningSuccess
  \/ \E key \in Checks : ConfirmPlanAndEnqueue(key) \/ ConfirmationDenied(key)

CancelStep == RequestCancelAndEnqueue \/ CancelProjectsTask \/ CancelHandlerStops

DispatcherStep ==
  \/ DispatchLease \/ LoadRunAndPlan \/ Reserve \/ CreateDispatch \/ AuthorizeDispatchSubmit
  \/ MarkDispatchSent \/ Submit \/ MarkDispatchSubmitUnknown \/ Accept \/ MarkRunAccepted
  \/ ProjectRunning \/ EnqueueRuntimeEventRecovery \/ DispatcherStops \/ DispatchLeaseLapses
  \/ SlotLapses

AborterStep == AbortLease \/ AbortBegins \/ AbortAsync \/ AbortEnqueuesEvents \/ AborterStops

RunNext ==
  \/ PlanningStep \/ CancelStep \/ DispatcherStep \/ AborterStep
  \/ ChangeMembership /\ UNCHANGED runVars

-------------------------------------------------------------------------------
(* Properties *)

\* A Run that was cancelled at once, because nobody owned it, is never handed to
\* a Host, although a dispatcher may have read it as queued before.
CancelledRunIsNeverSubmitted ==
  [][run = "cancelled" => run' = "cancelled" /\ ~submitted']_runVars

Live(i) == item[i] \in {"waiting", "held"}

\* No Run is forgotten: in every state that is not final some durable row brings
\* it on - its planning, dispatch, abort or event item, or an active Dispatch,
\* which the recovery worker looks for - whoever died and whichever lease ran out.
RunIsNotForgotten ==
  /\ run = "planning" => Live("planning")
  /\ run = "queued" => Live("dispatch")
  /\ run \in OwnedStatuses =>
       Live("dispatch") \/ Live("events") \/ Live("abort") \/ dispatch \in ActiveDispatch

\* A plan is confirmed once, by the key whose permission check was allowed, and
\* the reservation of that check is held; a key that lost holds no quota.
ConfirmedOnceAndPaid ==
  /\ run # "none" => \A key \in Checks : permission[key] = "allowed" <=> key = confirmedBy
  /\ confirmedBy # "none" => quota[RunTask].status = "reserved" /\ quota[RunTask].check = confirmedBy
===============================================================================
