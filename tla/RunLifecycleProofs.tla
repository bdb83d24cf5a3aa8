-------------------------- MODULE RunLifecycleProofs --------------------------
(***************************************************************************)
(* Proofs about one Run from its creation to its submission and about the  *)
(* quota it is paid from, for every task, confirmation key, demand, number *)
(* of attempts and of accounting periods.                                  *)
(***************************************************************************)
EXTENDS RunLifecycle, FiniteSetTheorems, TLAPS

RunLifecycleSpec == UsageInit /\ RunInit /\ [][RunNext]_<<runVars, usageVars>>

-------------------------------------------------------------------------------
(* The invariant *)

\* A dispatcher that has authorised the submission.
Sending == {"authorized", "sent", "answered", "unanswered", "accepted", "started"}

\* Before its plan is published nobody works at the dispatch of a Run.
NotYetQueued ==
  run \in {"none", "planning", "awaiting_confirmation"} =>
    slot = "none" /\ dispatch = "none" /\ dispatcher = "idle" /\ item["dispatch"] = "none"

\* What reached a Host, or may reach it, is owned until it fails.
SubmittedIsOwned ==
  submitted \/ dispatcher \in Sending => run \in OwnedStatuses \cup {"failed"}

\* The row that brings the Run on, in each of its states.
IsCarried ==
  /\ run = "planning" => Live("planning")
  /\ run = "queued" => Live("dispatch")
  /\ run \in OwnedStatuses => Live("dispatch") \/ dispatch \in ActiveDispatch

RunInv ==
  /\ RunTypeOK
  /\ NotYetQueued
  /\ cancelAsked => run \in {"aborting"} \cup Ended
  /\ dispatcher \in {"created"} \cup Sending => dispatch \in ActiveDispatch
  /\ SubmittedIsOwned
  /\ IsCarried

-------------------------------------------------------------------------------
(* Helpers *)

\* One item moves, the others stay.
LEMMA ItemSet ==
  ASSUME RunTypeOK, NEW i \in ItemKinds, NEW s \in ItemStatuses
  PROVE  /\ [item EXCEPT ![i] = s] \in [ItemKinds -> ItemStatuses]
         /\ [item EXCEPT ![i] = s][i] = s
         /\ \A k \in ItemKinds : k # i => [item EXCEPT ![i] = s][k] = item[k]
BY DEF RunTypeOK

\* An item is enqueued unless it is there.
Enqueued(i) == [item EXCEPT ![i] = IF @ = "none" THEN "waiting" ELSE @]

\* It keeps the other items and the type.
LEMMA ItemEnqueued ==
  ASSUME RunTypeOK, NEW i \in ItemKinds
  PROVE  /\ Enqueued(i) \in [ItemKinds -> ItemStatuses]
         /\ \A k \in ItemKinds : k # i => Enqueued(i)[k] = item[k]
<1>1. CASE item[i] = "none"
  BY <1>1 DEF RunTypeOK, Enqueued, ItemStatuses
<1>2. CASE item[i] # "none"
  BY <1>2 DEF RunTypeOK, Enqueued, ItemStatuses
<1> QED BY <1>1, <1>2

\* An attempt that is counted stays within the bound.
LEMMA OneMoreTry ==
  ASSUME RunTypeOK, NEW i \in {"dispatch", "abort"}, tries[i] < MaxTries
  PROVE  [tries EXCEPT ![i] = @ + 1] \in [{"dispatch", "abort"} -> 0 .. MaxTries]
<1>1. tries[i] + 1 \in 0 .. MaxTries
  BY RunAssumption DEF RunTypeOK
<1>2. [tries EXCEPT ![i] = @ + 1] = [tries EXCEPT ![i] = tries[i] + 1]
  BY DEF RunTypeOK
<1> QED BY <1>1, <1>2 DEF RunTypeOK

\* Nothing the invariant speaks of but the other items has moved.
LEMMA OtherItemMoves ==
  ASSUME RunInv, item' \in [ItemKinds -> ItemStatuses],
         item'["dispatch"] = item["dispatch"], item'["planning"] = item["planning"],
         tries' \in [{"dispatch", "abort"} -> 0 .. MaxTries],
         aborter' \in {"idle", "leased", "requested", "acknowledged"},
         UNCHANGED <<run, cancelAsked, plan, confirmedBy, workspaceMoved, productTask, slot,
                     dispatch, submitted, dispatcher, cancelling>>
  PROVE  RunInv'
BY DEF RunInv, RunTypeOK, NotYetQueued, SubmittedIsOwned, IsCarried, Live

\* An item that fails takes its Run with it.
LEMMA Compensated ==
  ASSUME RunTypeOK, CompensateQueueFailure("dispatch")
  PROVE  /\ item' \in [ItemKinds -> ItemStatuses]
         /\ \A k \in ItemKinds : k # "dispatch" => item'[k] = item[k]
         /\ run' \in Ended /\ (run = "cancelled" <=> run' = "cancelled")
         /\ productTask' \in {"none", "queued", "running", "failed"}
BY DEF CompensateQueueFailure, RunTypeOK, ItemStatuses, ItemKinds, Ended

\* What a dispatcher that gives up, or is done with its item, leaves behind:
\* the dispatch item ends only with the Run or with an active Dispatch.
GivenUp ==
  /\ item' \in [ItemKinds -> ItemStatuses]
  /\ \A k \in ItemKinds : k # "dispatch" => item'[k] = item[k]
  /\ productTask' \in {"none", "queued", "running", "failed"}
  /\ \/ run' = run /\ (Live("dispatch") => Live("dispatch")')
     \/ run' \in Ended /\ (run = "cancelled" <=> run' = "cancelled")
  /\ dispatcher' = "idle"
  /\ UNCHANGED <<plan, tries, cancelAsked, confirmedBy, workspaceMoved, aborter, cancelling>>

\* The failure of an attempt gives it up, with a stale proof too.
LEMMA FailGivesUp ==
  ASSUME RunTypeOK, NEW retryable \in BOOLEAN, Fail(retryable)
  PROVE  GivenUp
<1> UNCHANGED <<plan, tries, cancelAsked, confirmedBy, workspaceMoved, aborter, cancelling>>
  BY DEF Fail, dispatcherFrame
<1>1. CASE UNCHANGED <<item, run, productTask>>
  BY <1>1 DEF Fail, GivenUp, RunTypeOK, Live
<1>2. CASE item' = [item EXCEPT !["dispatch"] = "waiting"] /\ UNCHANGED <<run, productTask>>
  BY <1>2 DEF Fail, GivenUp, RunTypeOK, Live, ItemKinds, ItemStatuses
<1>3. CASE CompensateQueueFailure("dispatch")
  BY <1>3, Compensated DEF Fail, GivenUp
<1> QED BY <1>1, <1>2, <1>3 DEF Fail

\* A dispatcher that gives up keeps the invariant.
LEMMA GivingUpIsSafe ==
  ASSUME RunInv, dispatcher # "idle", GivenUp, submitted' = submitted, dispatch' = dispatch,
         slot' \in {slot, "released"}
  PROVE  RunInv'
<1>1. RunTypeOK'
  BY DEF RunInv, RunTypeOK, GivenUp, Ended, RunStatuses
<1>2. run \notin {"none", "planning", "awaiting_confirmation"}
  BY DEF RunInv, NotYetQueued
<1>3. run' \notin {"none", "planning", "awaiting_confirmation"}
  BY <1>2 DEF GivenUp, Ended
<1>4. SubmittedIsOwned'
  BY DEF RunInv, SubmittedIsOwned, GivenUp, Ended, OwnedStatuses, Sending
<1>5. IsCarried'
  BY <1>3 DEF RunInv, IsCarried, GivenUp, Ended, OwnedStatuses, Live, ItemKinds
<1>6. cancelAsked' => run' \in {"aborting"} \cup Ended
  BY DEF RunInv, GivenUp
<1> QED BY <1>1, <1>3, <1>4, <1>5, <1>6 DEF RunInv, NotYetQueued, GivenUp, Sending

\* The item is done only where an active Dispatch or an ended Run takes over.
LEMMA CompletionIsSafe ==
  ASSUME RunInv, NEW next \in {"idle", "enqueueing"}, CompleteThen(next), dispatcher # "idle",
         run \in Ended \/ dispatch' \in ActiveDispatch, run # "queued",
         submitted' = submitted, dispatch' \in {dispatch} \cup ActiveDispatch,
         slot' \in {slot, "released"},
         plan' \in {plan, "executing"}, productTask' \in {productTask, "running"},
         UNCHANGED <<run, tries, cancelAsked, confirmedBy, workspaceMoved, aborter, cancelling>>
  PROVE  RunInv'
<1>1. /\ item' \in [ItemKinds -> ItemStatuses] /\ item'["planning"] = item["planning"]
      /\ dispatcher' \in {"idle", "enqueueing"}
  BY DEF CompleteThen, RunInv, RunTypeOK, ItemKinds, ItemStatuses
<1>2. RunTypeOK'
  BY <1>1 DEF RunInv, RunTypeOK
<1>3. run \notin {"none", "planning", "awaiting_confirmation"}
  BY DEF RunInv, NotYetQueued
<1>4. IsCarried'
  BY <1>1, <1>3 DEF RunInv, IsCarried, Ended, OwnedStatuses, Live
<1> QED BY <1>1, <1>2, <1>3, <1>4 DEF RunInv, NotYetQueued, SubmittedIsOwned, Sending

-------------------------------------------------------------------------------
(* Planning, confirmation, cancellation *)

\* Creation, planning and confirmation keep the invariant.
LEMMA PlanningSafe ==
  ASSUME RunInv, PlanningStep
  PROVE  RunInv'
<1> USE DEF RunInv, RunTypeOK, NotYetQueued, SubmittedIsOwned, IsCarried, Live, Sending
<1>1. CASE CreateRunAndEnqueuePlanning
  BY <1>1, ItemSet DEF CreateRunAndEnqueuePlanning, plannerVars, hostVars, RunStatuses, OwnedStatuses,
     ItemKinds, ItemStatuses, Ended
<1>2. CASE WorkspaceMoves
  BY <1>2 DEF WorkspaceMoves, hostVars
<1>3. CASE PlanningLease
  BY <1>3, ItemSet DEF PlanningLease, plannerVars, hostVars, ItemKinds, ItemStatuses
<1>4. CASE PlanningEndsWithoutPlan
  BY <1>4, ItemSet DEF PlanningEndsWithoutPlan, plannerVars, hostVars, ItemKinds, ItemStatuses, RunStatuses,
     OwnedStatuses, Ended
<1>5. CASE FinalizePlanningSuccess
  BY <1>5 DEF FinalizePlanningSuccess, hostVars, ItemKinds, ItemStatuses, RunStatuses,
     OwnedStatuses, Ended
<1>6. ASSUME NEW key \in Checks, ConfirmPlanAndEnqueue(key) PROVE RunInv'
  BY <1>6, ItemSet DEF ConfirmPlanAndEnqueue, MayConfirm, hostVars, ItemKinds, ItemStatuses, RunStatuses,
     OwnedStatuses, Ended
<1>7. ASSUME NEW key \in Checks, ConfirmationDenied(key) PROVE RunInv'
  BY <1>7 DEF ConfirmationDenied, runVars
<1> QED BY <1>1, <1>2, <1>3, <1>4, <1>5, <1>6, <1>7 DEF PlanningStep

\* A cancellation keeps the invariant: what is owned gets its abort item.
LEMMA CancelSafe ==
  ASSUME RunInv, CancelStep
  PROVE  RunInv'
<1>1. CASE RequestCancelAndEnqueue
  <2>1. item' \in [ItemKinds -> ItemStatuses] /\ \A k \in ItemKinds : k # "abort" => item'[k] = item[k]
    BY <1>1, ItemEnqueued DEF RequestCancelAndEnqueue, Enqueued, RunInv, RunTypeOK, ItemKinds
  <2>2. UNCHANGED <<plan, confirmedBy, workspaceMoved, productTask, tries, slot, dispatch, submitted,
                    dispatcher, aborter>>
    BY <1>1 DEF RequestCancelAndEnqueue, plannerVars, hostVars
  <2>3. cancelAsked' = TRUE /\ cancelling' = TRUE
    BY <1>1 DEF RequestCancelAndEnqueue
  <2>4. CASE Owned
    <3>1. run' = "aborting" /\ run \notin Ended
      BY <1>1, <2>4 DEF RequestCancelAndEnqueue
    <3>2. run \notin {"none", "planning", "awaiting_confirmation"}
      BY <1>1, <2>4 DEF RequestCancelAndEnqueue, Owned, RunInv, NotYetQueued, OwnedStatuses, ActiveDispatch
    <3>3. Live("dispatch") \/ dispatch \in ActiveDispatch
      BY <3>1, <3>2 DEF RunInv, RunTypeOK, IsCarried, RunStatuses, OwnedStatuses, Ended
    <3> QED BY <2>1, <2>2, <2>3, <3>1, <3>2, <3>3 DEF RunInv, RunTypeOK, NotYetQueued, SubmittedIsOwned,
               IsCarried, Live, Sending, RunStatuses, OwnedStatuses, ItemKinds
  <2>5. CASE ~Owned
    <3>1. run' = "cancelled" /\ run \notin OwnedStatuses
      BY <1>1, <2>5 DEF RequestCancelAndEnqueue, Owned
    <3>2. ~submitted /\ dispatcher \notin Sending
      BY <1>1, <3>1 DEF RequestCancelAndEnqueue, RunInv, SubmittedIsOwned, Ended
    <3> QED BY <2>1, <2>2, <2>3, <3>1, <3>2 DEF RunInv, RunTypeOK, NotYetQueued, SubmittedIsOwned,
               IsCarried, Live, RunStatuses, OwnedStatuses, Ended, ItemKinds
  <2> QED BY <2>4, <2>5
<1>2. CASE CancelProjectsTask \/ CancelHandlerStops
  <2>1. /\ UNCHANGED <<run, cancelAsked, plan, confirmedBy, workspaceMoved, item, tries, slot, dispatch,
                       submitted, dispatcher, aborter>>
        /\ cancelling' = FALSE
    BY <1>2 DEF CancelProjectsTask, CancelHandlerStops, plannerVars, hostVars
  <2>2. productTask' \in {"none", "queued", "running", "failed"}
    BY <1>2 DEF CancelProjectsTask, CancelHandlerStops, RunInv, RunTypeOK
  <2>3. cancelling' \in BOOLEAN
    BY <2>1
  <2>4. RunTypeOK'
    BY <2>1, <2>2, <2>3 DEF RunInv, RunTypeOK
  <2> QED BY <2>1, <2>4 DEF RunInv, NotYetQueued, SubmittedIsOwned, IsCarried, Live
<1> QED BY <1>1, <1>2 DEF CancelStep

-------------------------------------------------------------------------------
(* The dispatcher *)

\* A released slot leaves the Dispatch alone.
LEMMA ReleaseOfSlot ==
  ASSUME ReleaseBeforeAccept
  PROVE  slot' \in {slot, "released"} /\ dispatch' = dispatch /\ submitted' = submitted
BY DEF ReleaseBeforeAccept

\* The dispatcher goes on: neither the Run nor its items move.
LEMMA DispatcherGoesOn ==
  ASSUME RunInv, dispatcher # "idle",
         UNCHANGED <<run, plan, productTask, item, tries, cancelAsked, confirmedBy, workspaceMoved,
                     aborter, cancelling>>,
         slot' \in {"none", "reserved", "accepted", "released"},
         dispatch' \in {dispatch} \cup ActiveDispatch, submitted' \in BOOLEAN,
         dispatcher' \in {"idle", "leased", "admitting", "reserved", "created", "authorized", "sent",
                          "answered", "unanswered", "accepted", "started", "enqueueing"},
         dispatcher' \in {"created"} \cup Sending => dispatch' \in ActiveDispatch,
         dispatcher' \in Sending \/ submitted' => dispatcher \in Sending \/ submitted
  PROVE  RunInv'
<1>1. run \notin {"none", "planning", "awaiting_confirmation"}
  BY DEF RunInv, NotYetQueued
<1> QED BY <1>1 DEF RunInv, RunTypeOK, NotYetQueued, SubmittedIsOwned, IsCarried, Live

\* Every step of the dispatcher keeps the invariant.
LEMMA DispatcherSafe ==
  ASSUME RunInv, DispatcherStep
  PROVE  RunInv'
<1>t. RunTypeOK
  BY DEF RunInv
<1>1. CASE DispatchLease
  <2>1. UNCHANGED <<run, plan, productTask, slot, dispatch, submitted, cancelAsked, confirmedBy,
                    workspaceMoved, aborter, cancelling>>
    BY <1>1 DEF DispatchLease, hostVars, dispatcherFrame
  <2>2. item' \in [ItemKinds -> ItemStatuses] /\ item'["dispatch"] = "held" /\ item'["planning"] = item["planning"]
    BY <1>1, <1>t, ItemSet DEF DispatchLease, ItemKinds, ItemStatuses
  <2>3. tries' \in [{"dispatch", "abort"} -> 0 .. MaxTries]
    BY <1>1, <1>t, OneMoreTry DEF DispatchLease
  <2>4. dispatcher' = "leased" /\ item["dispatch"] = "waiting"
    BY <1>1 DEF DispatchLease
  <2> QED BY <2>1, <2>2, <2>3, <2>4 DEF RunInv, RunTypeOK, NotYetQueued, SubmittedIsOwned, IsCarried, Live,
             Sending
<1>2. CASE LoadRunAndPlan
  <2>1. CASE dispatcher' = "admitting" /\ UNCHANGED <<run, plan, productTask, item, tries, dispatcherFrame>>
    BY <1>2, <1>t, <2>1, DispatcherGoesOn DEF LoadRunAndPlan, hostVars, dispatcherFrame, Sending, RunTypeOK
  <2>2. CASE Fail(FALSE)
    BY <1>2, <1>t, <2>2, FailGivesUp, GivingUpIsSafe DEF LoadRunAndPlan, hostVars
  <2> QED BY <1>2, <2>1, <2>2 DEF LoadRunAndPlan
<1>3. CASE Reserve
  <2>1. CASE slot' = "reserved" /\ dispatcher' = "reserved"
             /\ UNCHANGED <<run, plan, productTask, item, tries, dispatch, submitted, dispatcherFrame>>
    BY <1>3, <1>t, <2>1, DispatcherGoesOn DEF Reserve, dispatcherFrame, Sending, RunTypeOK
  <2>2. CASE Fail(TRUE) /\ UNCHANGED hostVars
    BY <1>3, <1>t, <2>2, FailGivesUp, GivingUpIsSafe DEF Reserve, hostVars
  <2> QED BY <1>3, <2>1, <2>2 DEF Reserve
<1>4. CASE CreateDispatch
  <2>1. CASE dispatch' = "created" /\ dispatcher' = "created"
             /\ UNCHANGED <<run, plan, productTask, item, tries, slot, submitted, dispatcherFrame>>
    BY <1>4, <1>t, <2>1, DispatcherGoesOn DEF CreateDispatch, dispatcherFrame, Sending, RunTypeOK, ActiveDispatch
  <2>2. ASSUME NEW retryable \in BOOLEAN, ReleaseBeforeAccept, Fail(retryable) PROVE RunInv'
    BY <1>4, <1>t, <2>2, FailGivesUp, ReleaseOfSlot, GivingUpIsSafe DEF CreateDispatch
  <2> QED BY <1>4, <2>1, <2>2 DEF CreateDispatch
<1>5. CASE AuthorizeDispatchSubmit
  <2>0. dispatch \in ActiveDispatch /\ dispatcher = "created"
    BY <1>5 DEF AuthorizeDispatchSubmit, RunInv
  <2>1. CASE MayAuthorize /\ run' = "dispatched" /\ dispatcher' = "authorized"
             /\ UNCHANGED <<plan, productTask, item, tries, hostVars, dispatcherFrame>>
    BY <2>0, <2>1 DEF MayAuthorize, hostVars, dispatcherFrame, RunInv, RunTypeOK, NotYetQueued,
       SubmittedIsOwned, IsCarried, Live, Sending, RunStatuses, OwnedStatuses
  <2>2. CASE /\ cancelAsked \/ run \in {"cancelled", "aborting"}
             /\ IF run = "cancelled" THEN ReleaseBeforeAccept ELSE UNCHANGED hostVars
             /\ CompleteThen(IF run = "aborting" THEN "enqueueing" ELSE "idle")
             /\ UNCHANGED <<run, plan, productTask, tries, dispatcherFrame>>
    <3>1. slot' \in {slot, "released"} /\ dispatch' = dispatch /\ submitted' = submitted
      BY <2>2, ReleaseOfSlot DEF hostVars
    <3>2. run # "queued"
      BY <2>2 DEF RunInv, Ended
    <3> QED BY <2>0, <2>2, <3>1, <3>2, CompletionIsSafe DEF dispatcherFrame
  <2>3. CASE ReleaseBeforeAccept /\ Fail(TRUE)
    BY <2>0, <1>t, <2>3, FailGivesUp, ReleaseOfSlot, GivingUpIsSafe
  <2> QED BY <1>5, <2>1, <2>2, <2>3 DEF AuthorizeDispatchSubmit
<1>6. CASE MarkDispatchSent
  <2>1. CASE dispatch' = "sent" /\ dispatcher' = "sent"
             /\ UNCHANGED <<run, plan, productTask, item, tries, slot, submitted, dispatcherFrame>>
    BY <1>6, <1>t, <2>1, DispatcherGoesOn DEF MarkDispatchSent, dispatcherFrame, Sending, RunTypeOK, ActiveDispatch
  <2>2. CASE ReleaseBeforeAccept /\ Fail(TRUE)
    BY <1>6, <1>t, <2>2, FailGivesUp, ReleaseOfSlot, GivingUpIsSafe DEF MarkDispatchSent
  <2> QED BY <1>6, <2>1, <2>2 DEF MarkDispatchSent
<1>7. CASE Submit
  <2>1. /\ submitted' \in BOOLEAN /\ dispatcher' \in {"answered", "unanswered"} /\ dispatcher = "sent"
        /\ dispatch \in ActiveDispatch
        /\ UNCHANGED <<run, plan, productTask, item, tries, slot, dispatch, dispatcherFrame>>
    BY <1>7, <1>t DEF Submit, RunTypeOK, RunInv, Sending
  <2> QED BY <2>1, <1>t, DispatcherGoesOn DEF dispatcherFrame, Sending, RunTypeOK
<1>8. CASE MarkDispatchSubmitUnknown
  <2>1. /\ dispatcher = "unanswered" /\ run \in OwnedStatuses \cup {"failed"} /\ dispatch \in ActiveDispatch
    BY <1>8 DEF MarkDispatchSubmitUnknown, RunInv, SubmittedIsOwned, Sending
  <2>2. dispatch' \in ActiveDispatch
    BY <1>8, <2>1 DEF MarkDispatchSubmitUnknown, ActiveDispatch
  <2> QED BY <1>8, <2>1, <2>2, CompletionIsSafe DEF MarkDispatchSubmitUnknown, dispatcherFrame, OwnedStatuses
<1>9. CASE Accept
  <2>1. dispatcher = "answered" /\ dispatch \in ActiveDispatch
    BY <1>9 DEF Accept, RunInv, Sending
  <2>2. CASE slot' = "accepted" /\ dispatch' = "accepted" /\ dispatcher' = "accepted"
    BY <1>9, <1>t, <2>1, <2>2, DispatcherGoesOn DEF Accept, dispatcherFrame, Sending, RunTypeOK, ActiveDispatch
  <2>3. CASE dispatcher' = "unanswered" /\ UNCHANGED <<slot, dispatch>>
    BY <1>9, <1>t, <2>1, <2>3, DispatcherGoesOn DEF Accept, dispatcherFrame, Sending, RunTypeOK
  <2> QED BY <1>9, <2>2, <2>3 DEF Accept
<1>10. CASE MarkRunAccepted
  <2>1. dispatcher = "accepted" /\ dispatch \in ActiveDispatch /\ UNCHANGED <<slot, dispatch, submitted>>
    BY <1>10 DEF MarkRunAccepted, RunInv, Sending, hostVars
  <2>2. CASE /\ run \in {"dispatched", "accepted"} /\ run' \in {"accepted", "running"}
             /\ dispatcher' \in {dispatcher, "started"}
             /\ UNCHANGED <<plan, productTask, item, tries, dispatcherFrame>>
    BY <2>1, <2>2 DEF dispatcherFrame, RunInv, RunTypeOK, NotYetQueued, SubmittedIsOwned, IsCarried, Live,
       Sending, RunStatuses, OwnedStatuses, Ended
  <2>3. CASE run = "aborting" /\ CompleteThen("enqueueing")
             /\ UNCHANGED <<run, plan, productTask, tries, dispatcherFrame>>
    BY <2>1, <2>3, CompletionIsSafe DEF dispatcherFrame
  <2>4. CASE Fail(FALSE)
    BY <2>1, <1>t, <2>4, FailGivesUp, GivingUpIsSafe
  <2> QED BY <1>10, <2>2, <2>3, <2>4 DEF MarkRunAccepted
<1>11. CASE ProjectRunning
  <2>1. dispatcher = "started" /\ dispatch \in ActiveDispatch /\ UNCHANGED <<slot, dispatch, submitted>>
    BY <1>11 DEF ProjectRunning, RunInv, Sending, hostVars
  <2>2. run \in OwnedStatuses \cup {"failed"}
    BY <2>1 DEF RunInv, SubmittedIsOwned, Sending
  <2>3. CASE /\ productTask' = IF productTask = "queued" THEN "running" ELSE productTask
             /\ plan' = IF plan \in {"validated", "confirmed"} THEN "executing" ELSE plan
             /\ CompleteThen("enqueueing")
             /\ UNCHANGED <<run, tries, dispatcherFrame>>
    BY <2>1, <2>2, <2>3, CompletionIsSafe DEF dispatcherFrame, OwnedStatuses
  <2>4. CASE Fail(TRUE)
    BY <2>1, <1>t, <2>4, FailGivesUp, GivingUpIsSafe
  <2> QED BY <1>11, <2>3, <2>4 DEF ProjectRunning
<1>12. CASE EnqueueRuntimeEventRecovery
  <2>1. item' \in [ItemKinds -> ItemStatuses] /\ \A k \in ItemKinds : k # "events" => item'[k] = item[k]
    BY <1>12, <1>t, ItemEnqueued DEF EnqueueRuntimeEventRecovery, Enqueued, ItemKinds
  <2> QED BY <1>12, <2>1 DEF EnqueueRuntimeEventRecovery, hostVars, dispatcherFrame, RunInv, RunTypeOK,
             NotYetQueued, SubmittedIsOwned, IsCarried, Live, Sending, ItemKinds
<1>13. CASE DispatcherStops
  BY <1>13, <1>t, DispatcherGoesOn DEF DispatcherStops, hostVars, dispatcherFrame, Sending, RunTypeOK
<1>14. CASE DispatchLeaseLapses
  <2>0. item["dispatch"] = "held" /\ UNCHANGED <<plan, tries, slot, dispatch, submitted, cancelAsked,
          confirmedBy, workspaceMoved, aborter, cancelling>>
    BY <1>14 DEF DispatchLeaseLapses, hostVars, dispatcherFrame
  <2>1. CASE /\ item' = [item EXCEPT !["dispatch"] = "waiting"]
             /\ dispatcher' = "idle" /\ UNCHANGED <<run, productTask>>
    BY <1>t, <2>0, <2>1, ItemSet DEF RunInv, RunTypeOK, NotYetQueued, SubmittedIsOwned, IsCarried, Live,
       Sending, ItemKinds, ItemStatuses
  <2>2. CASE CompensateQueueFailure("dispatch") /\ UNCHANGED dispatcher
    <3>1. run' \in Ended /\ (run = "cancelled" <=> run' = "cancelled")
      BY <1>t, <2>2, Compensated
    <3>2. RunTypeOK'
      BY <1>t, <2>0, <2>2, Compensated DEF RunTypeOK, Ended, RunStatuses
    <3> QED BY <2>0, <2>2, <3>1, <3>2 DEF RunInv, NotYetQueued, SubmittedIsOwned, IsCarried, Ended,
               OwnedStatuses
  <2> QED BY <1>14, <2>1, <2>2 DEF DispatchLeaseLapses
<1>15. CASE SlotLapses
  BY <1>15 DEF SlotLapses, dispatcherFrame, RunInv, RunTypeOK, NotYetQueued, SubmittedIsOwned, IsCarried, Live
<1> QED BY <1>1, <1>2, <1>3, <1>4, <1>5, <1>6, <1>7, <1>8, <1>9, <1>10, <1>11, <1>12, <1>13, <1>14, <1>15
        DEF DispatcherStep

-------------------------------------------------------------------------------
(* The abort job *)

\* Every step of the abort worker keeps the invariant.
LEMMA AborterSafe ==
  ASSUME RunInv, AborterStep
  PROVE  RunInv'
<1>t. RunTypeOK
  BY DEF RunInv
<1>f. UNCHANGED <<run, cancelAsked, plan, confirmedBy, workspaceMoved, productTask, slot, dispatch, submitted,
                  dispatcher, cancelling>>
  BY DEF AborterStep, AbortLease, AbortBegins, AbortAsync, AbortEnqueuesEvents, AborterStops, AbortFail,
     aborterFrame, plannerVars, hostVars
<1>1. CASE AbortLease
  BY <1>1, <1>t, <1>f, ItemSet, OneMoreTry, OtherItemMoves DEF AbortLease, ItemKinds, ItemStatuses
<1>2. CASE AbortFail
  <2>1. PICK s \in {"waiting", "failed"} : item' = [item EXCEPT !["abort"] = s]
    BY <1>2 DEF AbortFail
  <2> QED BY <1>2, <1>t, <1>f, <2>1, ItemSet, OtherItemMoves DEF AbortFail, ItemKinds, ItemStatuses, RunTypeOK
<1>3. CASE AbortBegins /\ ~AbortFail
  BY <1>3, <1>t, <1>f, ItemSet, OtherItemMoves DEF AbortBegins, ItemKinds, ItemStatuses, RunTypeOK
<1>4. CASE AbortAsync /\ ~AbortFail
  BY <1>4, <1>t, <1>f, OtherItemMoves DEF AbortAsync, RunTypeOK
<1>5. CASE AbortEnqueuesEvents
  <2>1. PICK s \in ItemStatuses : item' = [item EXCEPT !["abort"] = "done", !["events"] = s]
    BY <1>5, <1>t DEF AbortEnqueuesEvents, RunTypeOK, ItemKinds, ItemStatuses
  <2>2. item' \in [ItemKinds -> ItemStatuses] /\ item'["dispatch"] = item["dispatch"]
        /\ item'["planning"] = item["planning"]
    BY <1>t, <2>1 DEF RunTypeOK, ItemKinds, ItemStatuses
  <2> QED BY <1>5, <1>t, <1>f, <2>2, OtherItemMoves DEF AbortEnqueuesEvents, RunTypeOK
<1> QED BY <1>1, <1>2, <1>3, <1>4, <1>5 DEF AborterStep, AborterStops

-------------------------------------------------------------------------------
(* Confirmation *)

Reservations ==
  [status : QuotaStatuses, check : Checks \cup {"none"}, period : Periods, want : [Meters -> Nat]]

\* A plan that is not confirmed yet has no key, and only its key was allowed.
PaidInv ==
  /\ permission \in [Checks -> {"none", "allowed", "denied"}]
  /\ quota \in [Tasks -> Reservations]
  /\ period \in Periods
  /\ run \in {"none", "planning"} => plan = "none"
  /\ plan \in {"none", "validated", "awaiting_confirmation"} => confirmedBy = "none"
  /\ \A key \in Checks : permission[key] = "allowed" <=> key = confirmedBy
  /\ confirmedBy # "none" => quota[RunTask].status = "reserved" /\ quota[RunTask].check = confirmedBy

\* Nothing is confirmed at first.
LEMMA PaidInitially ==
  ASSUME UsageInit, RunInit
  PROVE  PaidInv
<1>1. 1 \in Periods
  BY UsageAssumption DEF Periods
<1>2. [status |-> "none", check |-> "none", period |-> 1, want |-> [m \in Meters |-> 0]] \in Reservations
  BY <1>1 DEF Reservations, QuotaStatuses
<1> QED BY <1>1, <1>2, UsageAssumption DEF UsageInit, RunInit, PaidInv

\* Steps other than a confirmation publish a plan or begin its execution.
PlanMoves ==
  /\ UNCHANGED <<permission, quota, period, confirmedBy>>
  /\ \/ plan' = plan /\ (run' \in {"none", "planning"} => run \in {"none", "planning"})
     \/ /\ run = "planning" /\ run' \in {"queued", "awaiting_confirmation"}
        /\ plan' \in {"validated", "awaiting_confirmation"}
     \/ /\ plan' = "executing" /\ plan \in {"validated", "confirmed"} /\ run' = run

\* Such a step changes neither key nor quota.
LEMMA PlanMovesIsPaid ==
  ASSUME PaidInv, PlanMoves
  PROVE  PaidInv'
<1>1. run' \in {"none", "planning"} => plan' = "none"
  BY DEF PaidInv, PlanMoves
<1>2. plan' \in {"none", "validated", "awaiting_confirmation"} => confirmedBy' = "none"
  BY DEF PaidInv, PlanMoves
<1> QED BY <1>1, <1>2 DEF PaidInv, PlanMoves

\* The dispatcher never leads back to planning.
LEMMA RunStatusForward ==
  ASSUME RunInv, DispatcherStep
  PROVE  run' \in {"none", "planning"} => run \in {"none", "planning"}
<1>1. ASSUME NEW retryable, Fail(retryable) PROVE run' \in {"none", "planning"} => run' = run
  BY <1>1 DEF Fail, CompensateQueueFailure, Ended
<1> QED BY <1>1 DEF DispatcherStep, DispatchLease, LoadRunAndPlan, Reserve, CreateDispatch,
     AuthorizeDispatchSubmit, MarkDispatchSent, Submit, MarkDispatchSubmitUnknown, Accept, MarkRunAccepted,
     ProjectRunning, EnqueueRuntimeEventRecovery, DispatcherStops, DispatchLeaseLapses, SlotLapses,
     CompensateQueueFailure, Ended

\* Cancellation, dispatch and abort never confirm.
LEMMA OtherStepsMovePlan ==
  ASSUME RunInv, CancelStep \/ DispatcherStep \/ AborterStep \/ (runVars' = runVars /\ usageVars' = usageVars)
                 \/ (ChangeMembership /\ UNCHANGED runVars)
  PROVE  PlanMoves
<1>1. CASE CancelStep
  BY <1>1 DEF CancelStep, RequestCancelAndEnqueue, CancelProjectsTask, CancelHandlerStops, PlanMoves,
     plannerVars, usageVars
<1>2. CASE DispatcherStep
  <2>1. UNCHANGED <<permission, quota, period, confirmedBy>>
    BY <1>2 DEF DispatcherStep, dispatcherFrame, usageVars, DispatchLease, LoadRunAndPlan, Reserve,
       CreateDispatch, AuthorizeDispatchSubmit, MarkDispatchSent, Submit, MarkDispatchSubmitUnknown, Accept,
       MarkRunAccepted, ProjectRunning, EnqueueRuntimeEventRecovery, DispatcherStops, DispatchLeaseLapses,
       SlotLapses, Fail
  <2>2. plan' = plan \/ (plan' = "executing" /\ plan \in {"validated", "confirmed"} /\ run' = run)
    BY <1>2 DEF DispatcherStep, DispatchLease, LoadRunAndPlan, Reserve,
       CreateDispatch, AuthorizeDispatchSubmit, MarkDispatchSent, Submit, MarkDispatchSubmitUnknown, Accept,
       MarkRunAccepted, ProjectRunning, EnqueueRuntimeEventRecovery, DispatcherStops, DispatchLeaseLapses,
       SlotLapses, Fail
  <2> QED BY <1>2, <2>1, <2>2, RunStatusForward DEF PlanMoves
<1>3. CASE AborterStep
  BY <1>3 DEF AborterStep, AbortLease, AbortBegins, AbortAsync, AbortEnqueuesEvents, AborterStops, AbortFail,
     aborterFrame, plannerVars, usageVars, PlanMoves
<1>4. CASE UNCHANGED runVars /\ UNCHANGED <<permission, quota, period>>
  BY <1>4 DEF runVars, PlanMoves
<1> QED BY <1>1, <1>2, <1>3, <1>4 DEF ChangeMembership, usageVars

\* A confirmation reserves with the check of its key, or finds that done.
LEMMA ConfirmationIsPaid ==
  ASSUME PaidInv, NEW key \in Checks, ConfirmPlanAndEnqueue(key)
  PROVE  PaidInv'
<1> DEFINE want == OneGeneration
<1>1. confirmedBy = "none" /\ "none" \notin Checks /\ RunTask \in Tasks
  BY UsageAssumption, RunAssumption DEF ConfirmPlanAndEnqueue, MayConfirm, PaidInv
<1>2. /\ permission' = [permission EXCEPT ![key] = "allowed"] /\ period' = period
      /\ plan' = "confirmed" /\ confirmedBy' = key /\ run' = "queued"
  BY DEF ConfirmPlanAndEnqueue, AdmitAndReserve, SetPermission
<1>3. want \in [Meters -> Nat]
  BY DEF OneGeneration
<1>4. quota' \in [Tasks -> Reservations] /\ quota'[RunTask].status = "reserved" /\ quota'[RunTask].check = key
  <2> HIDE DEF want
  <2>1. CASE UNCHANGED quota /\ quota[RunTask].check = key /\ quota[RunTask].status = "reserved"
    BY <2>1 DEF PaidInv
  <2>2. CASE CreateReservation(key, RunTask, want)
    <3> DEFINE new == [status |-> "reserved", check |-> key, period |-> period, want |-> want]
    <3>1. new \in Reservations /\ new.status = "reserved" /\ new.check = key
      BY <1>3 DEF Reservations, QuotaStatuses, PaidInv
    <3>2. quota' = [quota EXCEPT ![RunTask] = new]
      BY <2>2 DEF CreateReservation
    <3> HIDE DEF new
    <3> QED BY <1>1, <3>1, <3>2 DEF PaidInv
  <2> QED BY <2>1, <2>2 DEF ConfirmPlanAndEnqueue, AdmitAndReserve, want
<1>5. \A k \in Checks : permission'[k] = "allowed" <=> k = key
  BY <1>1, <1>2 DEF PaidInv
<1> QED BY <1>2, <1>4, <1>5 DEF PaidInv

\* A denied key was not the one confirmed.
LEMMA DenialIsPaid ==
  ASSUME PaidInv, NEW key \in Checks, ConfirmationDenied(key)
  PROVE  PaidInv'
<1>1. confirmedBy = "none" /\ "none" \notin Checks
  BY UsageAssumption DEF ConfirmationDenied, MayConfirm, PaidInv
<1>2. /\ permission' = [permission EXCEPT ![key] = "denied"]
      /\ UNCHANGED <<period, quota, run, plan, confirmedBy>>
  BY DEF ConfirmationDenied, DenyAdmission, SetPermission, runVars
<1> QED BY <1>1, <1>2 DEF PaidInv

\* Every step keeps what confirmation promises.
LEMMA PaidPreserved ==
  ASSUME PaidInv, RunInv, [RunNext]_<<runVars, usageVars>>
  PROVE  PaidInv'
<1>1. CASE CreateRunAndEnqueuePlanning \/ WorkspaceMoves \/ PlanningLease \/ PlanningEndsWithoutPlan
           \/ FinalizePlanningSuccess
  <2>1. PlanMoves
    BY <1>1 DEF CreateRunAndEnqueuePlanning, WorkspaceMoves, PlanningLease, PlanningEndsWithoutPlan,
       FinalizePlanningSuccess, plannerVars, usageVars, PlanMoves
  <2> QED BY <2>1, PlanMovesIsPaid
<1>2. CASE \E key \in Checks : ConfirmPlanAndEnqueue(key) \/ ConfirmationDenied(key)
  BY <1>2, ConfirmationIsPaid, DenialIsPaid
<1>3. CASE CancelStep \/ DispatcherStep \/ AborterStep \/ (runVars' = runVars /\ usageVars' = usageVars)
           \/ (ChangeMembership /\ UNCHANGED runVars)
  BY <1>3, OtherStepsMovePlan, PlanMovesIsPaid
<1>4. CASE PlanningStep
  BY <1>4, <1>1, <1>2 DEF PlanningStep
<1>5. CASE RunNext
  BY <1>5, <1>3, <1>4 DEF RunNext
<1>6. CASE UNCHANGED <<runVars, usageVars>>
  BY <1>6, <1>3
<1> QED BY <1>5, <1>6

-------------------------------------------------------------------------------
(* Balances *)

Units(x, k) == {<<x, n>> : n \in 1 .. k}
Balances == [Meters -> [used : Int, reserved : Int, adjusted : Int]]

\* Reservations without a check hold nothing, and the balances count the units of
\* the rows, of which there are finitely many.
BalanceInv ==
  /\ period \in Periods /\ gate \in BOOLEAN /\ permission \in [Checks -> {"none", "allowed", "denied"}]
  /\ quota \in [Tasks -> Reservations] /\ \A t \in Tasks : quota[t].check = "none" => quota[t].status = "none"
  /\ usage \subseteq [task : Tasks, period : Periods, amount : Amounts]
  /\ balance \in [Periods -> Balances]
  /\ \A p \in Periods, m \in Meters : IsFiniteSet(ReservedUnits(p, m)) /\ IsFiniteSet(UsedUnits(p, m))
  /\ BalancesMatch

\* A row of an amount has as many units.
LEMMA RowCounts ==
  ASSUME NEW x, NEW k \in Nat
  PROVE  IsFiniteSet(Units(x, k)) /\ Cardinality(Units(x, k)) = k
<1> DEFINE f == [n \in 1 .. k |-> <<x, n>>]
<1>1. f \in [1 .. k -> Units(x, k)] /\ \A n \in 1 .. k : f[n] = <<x, n>>
  BY DEF Units
<1>2. f \in Injection(1 .. k, Units(x, k))
  <2>1. \A m, n \in 1 .. k : f[m] = f[n] => m = n
    BY <1>1
  <2> HIDE DEF f
  <2> QED BY <1>1, <2>1 DEF Injection, IsInjective
<1>3. f \in Surjection(1 .. k, Units(x, k))
  <2>1. \A e \in Units(x, k) : \E n \in 1 .. k : f[n] = e
    BY <1>1 DEF Units
  <2> HIDE DEF f
  <2> QED BY <1>1, <2>1 DEF Surjection
<1>4. ExistsBijection(1 .. k, Units(x, k))
  BY <1>2, <1>3 DEF ExistsBijection, Bijection
<1>5. IsFiniteSet(1 .. k) /\ Cardinality(1 .. k) = k
  BY FS_Interval
<1> QED BY <1>4, <1>5, FS_Bijection

\* The units of a row come and go together.
LEMMA RowComes ==
  ASSUME NEW units, IsFiniteSet(units), NEW x, NEW k \in Nat, \A n \in 1 .. k : <<x, n>> \notin units
  PROVE  /\ IsFiniteSet(units \cup Units(x, k))
         /\ Cardinality(units \cup Units(x, k)) = Cardinality(units) + k
<1>1. IsFiniteSet(Units(x, k)) /\ Cardinality(Units(x, k)) = k
  BY RowCounts
<1>2. units \cap Units(x, k) = {}
  BY DEF Units
<1>3. Cardinality(units \cap Units(x, k)) = 0
  BY <1>2, FS_EmptySet
<1>4. Cardinality(units) \in Nat
  BY FS_CardinalityType
<1> DEFINE more == Units(x, k)
<1>5. IsFiniteSet(more) /\ Cardinality(more) = k /\ Cardinality(units \cap more) = 0
  BY <1>1, <1>3
<1> HIDE DEF more
<1>6. /\ IsFiniteSet(units \cup more)
      /\ Cardinality(units \cup more) = Cardinality(units) + Cardinality(more) - Cardinality(units \cap more)
  BY <1>5, FS_Union
<1>7. Cardinality(units \cup more) = Cardinality(units) + k
  BY <1>4, <1>5, <1>6
<1> QED BY <1>6, <1>7 DEF more

LEMMA RowGoes ==
  ASSUME NEW units, IsFiniteSet(units), NEW x, NEW k \in Nat, Units(x, k) \subseteq units
  PROVE  /\ IsFiniteSet(units \ Units(x, k))
         /\ Cardinality(units \ Units(x, k)) = Cardinality(units) - k
<1>1. Cardinality(Units(x, k)) = k
  BY RowCounts
<1>2. Cardinality(units \cap Units(x, k)) = k
  <2>1. units \cap Units(x, k) = Units(x, k)
    OBVIOUS
  <2> QED BY <1>1, <2>1
<1> DEFINE less == Units(x, k)
<1>3. Cardinality(units \cap less) = k
  BY <1>2
<1> HIDE DEF less
<1>4. IsFiniteSet(units \ less) /\ Cardinality(units \ less) = Cardinality(units) - Cardinality(units \cap less)
  BY FS_Difference
<1> QED BY <1>3, <1>4 DEF less

\* Which units the rows hold.
LEMMA ReservedIs ==
  \A p, m, e : e \in ReservedUnits(p, m) <=>
    \E t \in Tasks : quota[t].status = "reserved" /\ quota[t].period = p /\ e \in Units(t, quota[t].want[m])
BY DEF ReservedUnits, Units

LEMMA UsedIs ==
  \A p, m, e : e \in UsedUnits(p, m) <=>
    m = "generation" /\ \E u \in usage : u.period = p /\ e \in Units(u, u.amount)
BY DEF UsedUnits, Units

\* What moves in a line of the balances.
LEMMA LineMoved ==
  ASSUME NEW meters \in Balances, NEW want \in [Meters -> Nat]
  PROVE  /\ Reserving(meters, want) \in Balances /\ Returning(meters, want) \in Balances
         /\ \A m \in Meters :
              /\ Reserving(meters, want)[m].reserved = meters[m].reserved + want[m]
              /\ Returning(meters, want)[m].reserved = meters[m].reserved - want[m]
              /\ Reserving(meters, want)[m].used = meters[m].used
              /\ Returning(meters, want)[m].used = meters[m].used
<1> DEFINE Cell == [used : Int, reserved : Int, adjusted : Int]
           more(m) == [meters[m] EXCEPT !.reserved = @ + want[m]]
           less(m) == [meters[m] EXCEPT !.reserved = @ - want[m]]
<1>1. ASSUME NEW m \in Meters
      PROVE  /\ more(m) \in Cell /\ less(m) \in Cell
             /\ more(m).reserved = meters[m].reserved + want[m] /\ more(m).used = meters[m].used
             /\ less(m).reserved = meters[m].reserved - want[m] /\ less(m).used = meters[m].used
  <2>1. meters[m] \in Cell /\ want[m] \in Int
    BY DEF Balances
  <2> QED BY <2>1
<1>2. Reserving(meters, want) = [m \in Meters |-> more(m)] /\ Returning(meters, want) = [m \in Meters |-> less(m)]
  BY Zenon DEF Reserving, Returning
<1> HIDE DEF more, less
<1> QED BY <1>1, <1>2 DEF Balances

\* A new reservation is counted in its period.
LEMMA ReservationCounted ==
  ASSUME BalanceInv, NEW k \in Checks, NEW t \in Tasks, NEW want \in [Meters -> Nat],
         quota[t].status # "reserved", CreateReservation(k, t, want), UNCHANGED <<period, gate, usage>>,
         permission' \in [Checks -> {"none", "allowed", "denied"}]
  PROVE  BalanceInv'
<1> DEFINE new == [status |-> "reserved", check |-> k, period |-> period, want |-> want]
           line == Reserving(balance[period], want)
<1>1. new \in Reservations /\ new.status = "reserved" /\ new.check = k /\ new.period = period /\ new.want = want
  BY DEF Reservations, QuotaStatuses, BalanceInv
<1>2. quota' = [quota EXCEPT ![t] = new] /\ balance' = [balance EXCEPT ![period] = line]
  <2>1. quota' = [quota EXCEPT ![t] = new]
    BY DEF CreateReservation
  <2>2. balance' = [balance EXCEPT ![period] = line]
    BY DEF CreateReservation
  <2> QED BY <2>1, <2>2
<1>3. /\ balance[period] \in Balances /\ line \in Balances
      /\ \A m \in Meters : /\ line[m].reserved = balance[period][m].reserved + want[m]
                           /\ line[m].used = balance[period][m].used
  BY LineMoved DEF BalanceInv
<1> HIDE DEF new, line
<1>4. /\ quota' \in [Tasks -> Reservations] /\ quota'[t] = new
      /\ \A s \in Tasks : s # t => quota'[s] = quota[s]
      /\ balance' \in [Periods -> Balances] /\ balance'[period] = line
      /\ \A p \in Periods : p # period => balance'[p] = balance[p]
  BY <1>1, <1>2, <1>3 DEF BalanceInv
<1>5. \A s \in Tasks : quota'[s].check = "none" => quota'[s].status = "none"
  BY <1>1, <1>4, UsageAssumption DEF BalanceInv
<1>6. ASSUME NEW p \in Periods, NEW m \in Meters
      PROVE  /\ IsFiniteSet(ReservedUnits(p, m)')
             /\ balance'[p][m].reserved = Cardinality(ReservedUnits(p, m)')
  <2>1. IsFiniteSet(ReservedUnits(p, m)) /\ balance[p][m].reserved = Cardinality(ReservedUnits(p, m))
    BY DEF BalanceInv, BalancesMatch
  <2>2. \A e : e \in ReservedUnits(p, m)' <=>
          \E s \in Tasks : quota'[s].status = "reserved" /\ quota'[s].period = p /\ e \in Units(s, quota'[s].want[m])
    BY DEF ReservedUnits, Units
  <2>3. CASE p = period
    <3>1. ReservedUnits(p, m)' = ReservedUnits(p, m) \cup Units(t, want[m])
      <4>1. ASSUME NEW e, e \in ReservedUnits(p, m)' PROVE e \in ReservedUnits(p, m) \cup Units(t, want[m])
        BY <1>1, <1>4, <2>2, <4>1, ReservedIs
      <4>2. ASSUME NEW e, e \in ReservedUnits(p, m) PROVE e \in ReservedUnits(p, m)'
        BY <1>4, <2>2, <4>2, ReservedIs
      <4>3. ASSUME NEW e, e \in Units(t, want[m]) PROVE e \in ReservedUnits(p, m)'
        BY <1>1, <1>4, <2>2, <2>3, <4>3
      <4> QED BY <4>1, <4>2, <4>3
    <3>2. \A n \in 1 .. want[m] : <<t, n>> \notin ReservedUnits(p, m)
      BY ReservedIs DEF Units
    <3>3. want[m] \in Nat
      OBVIOUS
    <3>4. /\ IsFiniteSet(ReservedUnits(p, m) \cup Units(t, want[m]))
          /\ Cardinality(ReservedUnits(p, m) \cup Units(t, want[m])) = Cardinality(ReservedUnits(p, m)) + want[m]
      BY <2>1, <3>2, <3>3, RowComes
    <3> QED BY <1>3, <1>4, <2>1, <2>3, <3>1, <3>4
  <2>4. CASE p # period
    <3>1. ReservedUnits(p, m)' = ReservedUnits(p, m)
      <4>1. \A s \in Tasks : quota'[s].status = "reserved" /\ quota'[s].period = p <=>
                             quota[s].status = "reserved" /\ quota[s].period = p
        BY <1>1, <1>4, <2>4
      <4>2. \A s \in Tasks : quota'[s].status = "reserved" /\ quota'[s].period = p => quota'[s] = quota[s]
        BY <1>1, <1>4, <2>4
      <4>3. \A e : e \in ReservedUnits(p, m)' <=> e \in ReservedUnits(p, m)
        BY <2>2, <4>1, <4>2, ReservedIs
      <4> QED BY <4>3
    <3> QED BY <1>4, <2>1, <2>4, <3>1
  <2> QED BY <2>3, <2>4
<1>7. \A p \in Periods, m \in Meters :
        /\ UsedUnits(p, m)' = UsedUnits(p, m) /\ balance'[p][m].used = balance[p][m].used
  BY <1>3, <1>4 DEF UsedUnits
<1> QED BY <1>4, <1>5, <1>6, <1>7 DEF BalanceInv, BalancesMatch

WithStatus(t, status) == [quota EXCEPT ![t].status = status]

\* A reservation that ends gives back what it held, and only once.
LEMMA ReservationReturned ==
  ASSUME BalanceInv, NEW t \in Tasks, NEW status \in {"settled", "released", "expired"},
         quota' = WithStatus(t, status), quota[t].status # "none"
  PROVE  /\ quota' \in [Tasks -> Reservations]
         /\ \A s \in Tasks : quota'[s].check = "none" => quota'[s].status = "none"
         /\ SettledBalance(t) \in [Periods -> Balances]
         /\ \A p \in Periods, m \in Meters :
              /\ SettledBalance(t)[p][m].used = balance[p][m].used
              /\ IsFiniteSet(ReservedUnits(p, m)') /\ SettledBalance(t)[p][m].reserved = Cardinality(ReservedUnits(p, m)')
<1> DEFINE next == SettledBalance(t)
           old == quota[t]
           new == [old EXCEPT !.status = status]
<1>s. status \in QuotaStatuses /\ status # "none" /\ status # "reserved"
  BY DEF QuotaStatuses
<1>1. /\ old \in Reservations /\ new \in Reservations /\ new.status = status /\ new.check = old.check
      /\ new.period = old.period /\ new.want = old.want /\ old.period \in Periods /\ old.want \in [Meters -> Nat]
  BY <1>s DEF Reservations, BalanceInv
<1>2. quota' = [quota EXCEPT ![t] = new] /\ old = quota[t]
  BY DEF WithStatus
<1>n. next = (IF old.status = "reserved" THEN Returned(t) ELSE balance)
  BY DEF SettledBalance
<1> HIDE DEF new, old, next
<1>3. quota' \in [Tasks -> Reservations] /\ quota'[t] = new /\ \A s \in Tasks : s # t => quota'[s] = quota[s]
  BY <1>1, <1>2 DEF BalanceInv
<1>4. \A s \in Tasks : quota'[s].check = "none" => quota'[s].status = "none"
  BY <1>1, <1>2, <1>3 DEF BalanceInv
<1>c. \A p \in Periods, m \in Meters :
        IsFiniteSet(ReservedUnits(p, m)) /\ balance[p][m].reserved = Cardinality(ReservedUnits(p, m))
  BY DEF BalanceInv, BalancesMatch
<1>d. \A p, m, e : e \in ReservedUnits(p, m)' <=>
        \E s \in Tasks : quota'[s].status = "reserved" /\ quota'[s].period = p /\ e \in Units(s, quota'[s].want[m])
  BY DEF ReservedUnits, Units
<1>e. balance \in [Periods -> Balances]
  BY DEF BalanceInv
<1>5. CASE old.status # "reserved"
  <2>1. next = balance
    BY <1>n, <1>5
  <2>2. ASSUME NEW p \in Periods, NEW m \in Meters PROVE ReservedUnits(p, m)' = ReservedUnits(p, m)
    <3>1. \A s \in Tasks : quota'[s].status = "reserved" <=> quota[s].status = "reserved"
      BY <1>1, <1>2, <1>3, <1>5
    <3>2. \A s \in Tasks : quota'[s].status = "reserved" => quota'[s] = quota[s]
      BY <1>1, <1>3
    <3>3. \A e : e \in ReservedUnits(p, m)' <=> e \in ReservedUnits(p, m)
      BY <1>d, <3>1, <3>2, ReservedIs
    <3> QED BY <3>3
  <2>3. \A p \in Periods, m \in Meters :
          /\ next[p][m].used = balance[p][m].used
          /\ IsFiniteSet(ReservedUnits(p, m)') /\ next[p][m].reserved = Cardinality(ReservedUnits(p, m)')
    BY <1>c, <2>1, <2>2
  <2> QED BY <1>3, <1>4, <1>e, <2>1, <2>3 DEF next
<1>6. CASE old.status = "reserved"
  <2> DEFINE line == Returning(balance[old.period], old.want)
  <2>1. next = [balance EXCEPT ![old.period] = line]
    BY <1>2, <1>n, <1>6 DEF Returned
  <2>2. /\ line \in Balances
        /\ \A m \in Meters : /\ line[m].reserved = balance[old.period][m].reserved - old.want[m]
                             /\ line[m].used = balance[old.period][m].used
    BY <1>1, <1>e, LineMoved
  <2> HIDE DEF line
  <2>3. /\ next \in [Periods -> Balances] /\ next[old.period] = line
        /\ \A p \in Periods : p # old.period => next[p] = balance[p]
    BY <1>1, <1>e, <2>1, <2>2
  <2>4. ASSUME NEW p \in Periods, NEW m \in Meters
        PROVE  IsFiniteSet(ReservedUnits(p, m)') /\ next[p][m].reserved = Cardinality(ReservedUnits(p, m)')
    <3>1. CASE p = old.period
      <4>1. ReservedUnits(p, m)' = ReservedUnits(p, m) \ Units(t, old.want[m])
        <5>1. ASSUME NEW e, e \in ReservedUnits(p, m)' PROVE e \in ReservedUnits(p, m) \ Units(t, old.want[m])
          <6>1. PICK s \in Tasks : /\ quota'[s].status = "reserved" /\ quota'[s].period = p
                                   /\ e \in Units(s, quota'[s].want[m])
            BY <1>d, <5>1
          <6>2. s # t /\ quota'[s] = quota[s]
            BY <1>1, <1>3, <6>1
          <6>3. e \notin Units(t, old.want[m])
            BY <6>1, <6>2 DEF Units
          <6> QED BY <6>1, <6>2, <6>3, ReservedIs
        <5>2. ASSUME NEW e \in ReservedUnits(p, m), e \notin Units(t, old.want[m]) PROVE e \in ReservedUnits(p, m)'
          <6>1. PICK s \in Tasks : quota[s].status = "reserved" /\ quota[s].period = p /\ e \in Units(s, quota[s].want[m])
            BY ReservedIs
          <6>2. s # t
            BY <1>2, <5>2, <6>1
          <6> QED BY <1>3, <1>d, <6>1, <6>2
        <5> QED BY <5>1, <5>2
      <4>2. Units(t, old.want[m]) \subseteq ReservedUnits(p, m)
        BY <1>2, <1>6, <3>1, ReservedIs
      <4>3. old.want[m] \in Nat
        BY <1>1
      <4>4. /\ IsFiniteSet(ReservedUnits(p, m) \ Units(t, old.want[m]))
            /\ Cardinality(ReservedUnits(p, m) \ Units(t, old.want[m])) = Cardinality(ReservedUnits(p, m)) - old.want[m]
        BY <1>c, <4>2, <4>3, RowGoes
      <4> QED BY <1>c, <2>2, <2>3, <3>1, <4>1, <4>4
    <3>2. CASE p # old.period
      <4>1. \A s \in Tasks : quota'[s].status = "reserved" /\ quota'[s].period = p <=>
                             quota[s].status = "reserved" /\ quota[s].period = p
        BY <1>1, <1>2, <1>3, <3>2
      <4>2. \A s \in Tasks : quota'[s].status = "reserved" => quota'[s] = quota[s]
        BY <1>1, <1>3
      <4>3. \A e : e \in ReservedUnits(p, m)' <=> e \in ReservedUnits(p, m)
        BY <1>d, <4>1, <4>2, ReservedIs
      <4>4. ReservedUnits(p, m)' = ReservedUnits(p, m)
        BY <4>3
      <4> QED BY <1>c, <2>3, <3>2, <4>4
    <3> QED BY <3>1, <3>2
  <2>5. \A p \in Periods, m \in Meters : next[p][m].used = balance[p][m].used
    BY <2>2, <2>3
  <2> QED BY <1>3, <1>4, <2>3, <2>4, <2>5 DEF next
<1> QED BY <1>5, <1>6

\* A record of a task that has none is charged to its period.
LEMMA RecordCharged ==
  ASSUME BalanceInv, NEW t \in Tasks, NEW p \in Periods, NEW a \in Amounts, ~Recorded(t),
         usage' = usage \cup {RecordFor(t, p, a)},
         NEW base \in [Periods -> Balances],
         \A r \in Periods, m \in Meters : base[r][m].used = balance[r][m].used,
         NEW next, next = Charged(base, p, a)
  PROVE  /\ usage' \subseteq [task : Tasks, period : Periods, amount : Amounts]
         /\ next \in [Periods -> Balances]
         /\ \A r \in Periods, m \in Meters :
              /\ next[r][m].reserved = base[r][m].reserved
              /\ IsFiniteSet(UsedUnits(r, m)') /\ next[r][m].used = Cardinality(UsedUnits(r, m)')
<1> DEFINE u == RecordFor(t, p, a)
<1>1. /\ u \in [task : Tasks, period : Periods, amount : Amounts] /\ u.task = t /\ u.period = p /\ u.amount = a
      /\ u \notin usage /\ a \in Nat /\ usage' = usage \cup {u}
  <2>1. u = [task |-> t, period |-> p, amount |-> a] /\ a \in Nat
    BY UsageAssumption DEF RecordFor
  <2>2. u \notin usage
    BY <2>1 DEF Recorded
  <2> QED BY <2>1, <2>2
<1> HIDE DEF u
<1> DEFINE cell == [base[p]["generation"] EXCEPT !.used = @ + a]
           line == [base[p] EXCEPT !["generation"] = cell]
<1>2. next = [base EXCEPT ![p] = line]
  BY DEF Charged
<1>3. /\ line \in Balances
      /\ \A m \in Meters : /\ line[m].reserved = base[p][m].reserved
                           /\ line[m].used = base[p][m].used + (IF m = "generation" THEN a ELSE 0)
  <2>1. base[p] \in Balances /\ "generation" \in Meters
    BY DEF Meters
  <2>2. base[p]["generation"] \in [used : Int, reserved : Int, adjusted : Int]
    BY <2>1 DEF Balances
  <2>3. cell \in [used : Int, reserved : Int, adjusted : Int] /\ cell.used = base[p]["generation"].used + a
        /\ cell.reserved = base[p]["generation"].reserved
    BY <1>1, <2>2
  <2> HIDE DEF cell
  <2>4. line \in Balances /\ line["generation"] = cell /\ \A m \in Meters : m # "generation" => line[m] = base[p][m]
    BY <2>1, <2>3 DEF Balances
  <2>5. \A m \in Meters : base[p][m].used \in Int
    BY <2>1 DEF Balances
  <2> HIDE DEF line
  <2> QED BY <2>3, <2>4, <2>5
<1> HIDE DEF line
<1>4. next \in [Periods -> Balances] /\ next[p] = line /\ \A r \in Periods : r # p => next[r] = base[r]
  BY <1>2, <1>3
<1>5. \A r, m, e : e \in UsedUnits(r, m)' <=>
        m = "generation" /\ \E v \in usage' : v.period = r /\ e \in Units(v, v.amount)
  BY DEF UsedUnits, Units
<1>6. ASSUME NEW r \in Periods, NEW m \in Meters
      PROVE  IsFiniteSet(UsedUnits(r, m)') /\ next[r][m].used = Cardinality(UsedUnits(r, m)')
  <2>1. IsFiniteSet(UsedUnits(r, m)) /\ base[r][m].used = Cardinality(UsedUnits(r, m))
    BY DEF BalanceInv, BalancesMatch
  <2>2. CASE r = p /\ m = "generation"
    <3>1. UsedUnits(r, m)' = UsedUnits(r, m) \cup Units(u, a)
      <4>1. ASSUME NEW e, e \in UsedUnits(r, m)' PROVE e \in UsedUnits(r, m) \cup Units(u, a)
        BY <1>1, <1>5, <4>1, UsedIs
      <4>2. ASSUME NEW e, e \in UsedUnits(r, m) \cup Units(u, a) PROVE e \in UsedUnits(r, m)'
        BY <1>1, <1>5, <2>2, <4>2, UsedIs
      <4> QED BY <4>1, <4>2
    <3>2. \A n \in 1 .. a : <<u, n>> \notin UsedUnits(r, m)
      BY <1>1, UsedIs DEF Units
    <3>3. /\ IsFiniteSet(UsedUnits(r, m) \cup Units(u, a))
          /\ Cardinality(UsedUnits(r, m) \cup Units(u, a)) = Cardinality(UsedUnits(r, m)) + a
      <4>1. a \in Nat
        BY <1>1
      <4>2. IsFiniteSet(UsedUnits(r, m))
        BY <2>1
      <4> HIDE DEF u
      <4> QED BY <3>2, <4>1, <4>2, RowComes
    <3> QED BY <1>3, <1>4, <2>1, <2>2, <3>1, <3>3
  <2>3. CASE ~(r = p /\ m = "generation")
    <3>1. \A e : e \in UsedUnits(r, m)' <=> e \in UsedUnits(r, m)
      BY <1>1, <1>5, <2>3, UsedIs
    <3>2. UsedUnits(r, m)' = UsedUnits(r, m)
      BY <3>1
    <3>3. next[r][m].used = base[r][m].used
      <4>1. base[r][m].used \in Int
        BY DEF Balances
      <4> QED BY <1>3, <1>4, <2>3, <4>1
    <3> QED BY <2>1, <3>2, <3>3
  <2> QED BY <2>2, <2>3
<1>7. \A r \in Periods, m \in Meters : next[r][m].reserved = base[r][m].reserved
  BY <1>3, <1>4
<1> QED BY <1>1, <1>4, <1>6, <1>7 DEF BalanceInv

\* Steps that leave quota, balances and records alone.
LEMMA RowsUntouched ==
  ASSUME BalanceInv, UNCHANGED <<quota, balance, usage>>, period' \in Periods, gate' \in BOOLEAN,
         permission' \in [Checks -> {"none", "allowed", "denied"}]
  PROVE  BalanceInv'
<1>1. \A p, m : ReservedUnits(p, m)' = ReservedUnits(p, m) /\ UsedUnits(p, m)' = UsedUnits(p, m)
  BY DEF ReservedUnits, UsedUnits
<1> QED BY <1>1 DEF BalanceInv, BalancesMatch

\* An admission reserves for a task that never had a reservation.
LEMMA AdmissionBalanced ==
  ASSUME BalanceInv, NEW k \in Checks, NEW t \in Tasks, NEW want \in [Meters -> Nat],
         AdmitAndReserve(k, t, want) \/ DenyAdmission(k, t, want) \/ ReserveForCheck(k, t, want)
  PROVE  BalanceInv'
<1>1. /\ UNCHANGED <<period, gate, usage>> /\ period \in Periods /\ gate \in BOOLEAN
      /\ permission' \in [Checks -> {"none", "allowed", "denied"}]
  BY DEF AdmitAndReserve, DenyAdmission, ReserveForCheck, SetPermission, BalanceInv
<1>2. UNCHANGED <<quota, balance>> \/ (quota[t].check = "none" /\ CreateReservation(k, t, want))
  BY DEF AdmitAndReserve, DenyAdmission, ReserveForCheck
<1>3. CASE UNCHANGED <<quota, balance>>
  BY <1>1, <1>3, RowsUntouched
<1>4. CASE quota[t].check = "none" /\ CreateReservation(k, t, want)
  <2>1. quota[t].status # "reserved"
    BY <1>4 DEF BalanceInv
  <2> QED BY <1>1, <1>4, <2>1, ReservationCounted
<1> QED BY <1>2, <1>3, <1>4

\* A reservation that is released or expired gives back what it held, or has before.
LEMMA UpdateBalanced ==
  ASSUME BalanceInv, NEW t \in Tasks, NEW status \in {"released", "expired"}, UpdateReservationStatus(t, status)
  PROVE  BalanceInv'
<1>1. /\ quota' = WithStatus(t, status) /\ UNCHANGED <<period, gate, permission, usage>>
      /\ quota[t].status # "none"
      /\ balance' = SettledBalance(t)
  BY DEF UpdateReservationStatus, QuotaStatuses, SettledBalance, WithStatus
<1>2. /\ quota' \in [Tasks -> Reservations] /\ \A s \in Tasks : quota'[s].check = "none" => quota'[s].status = "none"
      /\ SettledBalance(t) \in [Periods -> Balances]
      /\ \A p \in Periods, m \in Meters :
           /\ SettledBalance(t)[p][m].used = balance[p][m].used
           /\ IsFiniteSet(ReservedUnits(p, m)') /\ SettledBalance(t)[p][m].reserved = Cardinality(ReservedUnits(p, m)')
  BY <1>1, ReservationReturned
<1>3. \A p, m : UsedUnits(p, m)' = UsedUnits(p, m)
  BY <1>1 DEF UsedUnits
<1> QED BY <1>1, <1>2, <1>3 DEF BalanceInv, BalancesMatch

\* A record without a reservation is charged to the present period.
LEMMA RecordBalanced ==
  ASSUME BalanceInv, NEW t \in Tasks, NEW a \in Amounts, CreateUsageRecordOnce(t, a)
  PROVE  BalanceInv'
<1>1. /\ ~Recorded(t) /\ usage' = usage \cup {RecordFor(t, period, a)} /\ balance' = Charged(balance, period, a)
      /\ UNCHANGED <<period, gate, permission, quota>> /\ period \in Periods /\ balance \in [Periods -> Balances]
  BY DEF CreateUsageRecordOnce, BalanceInv
<1>2. /\ usage' \subseteq [task : Tasks, period : Periods, amount : Amounts] /\ balance' \in [Periods -> Balances]
      /\ \A r \in Periods, m \in Meters :
           /\ balance'[r][m].reserved = balance[r][m].reserved
           /\ IsFiniteSet(UsedUnits(r, m)') /\ balance'[r][m].used = Cardinality(UsedUnits(r, m)')
  BY <1>1, RecordCharged
<1>3. \A p, m : ReservedUnits(p, m)' = ReservedUnits(p, m)
  BY <1>1 DEF ReservedUnits
<1> QED BY <1>1, <1>2, <1>3 DEF BalanceInv, BalancesMatch

\* A settlement charges a record and returns a reservation, each once.
LEMMA SettlementBalanced ==
  ASSUME BalanceInv, NEW t \in Tasks, NEW a \in Amounts, SettleUsageOnce(t, a)
  PROVE  BalanceInv'
<1> DEFINE base == SettledBalance(t)
           p == quota[t].period
<1>1. /\ quota' = WithStatus(t, "settled") /\ quota[t].status # "none"
      /\ UNCHANGED <<period, gate, permission>>
  BY DEF SettleUsageOnce, WithStatus
<1>2. \/ /\ ~Recorded(t) /\ usage' = usage \cup {RecordFor(t, p, a)}
         /\ balance' = Charged(base, p, a)
      \/ balance' = base /\ UNCHANGED usage
  BY DEF SettleUsageOnce
<1>3. /\ quota' \in [Tasks -> Reservations] /\ \A s \in Tasks : quota'[s].check = "none" => quota'[s].status = "none"
      /\ base \in [Periods -> Balances]
      /\ \A r \in Periods, m \in Meters :
           /\ base[r][m].used = balance[r][m].used
           /\ IsFiniteSet(ReservedUnits(r, m)') /\ base[r][m].reserved = Cardinality(ReservedUnits(r, m)')
  BY <1>1, ReservationReturned
<1> HIDE DEF base
<1>4. CASE balance' = base /\ UNCHANGED usage
  <2>1. \A r, m : UsedUnits(r, m)' = UsedUnits(r, m)
    BY <1>4 DEF UsedUnits
  <2> QED BY <1>1, <1>3, <1>4, <2>1 DEF BalanceInv, BalancesMatch
<1>5. CASE ~Recorded(t) /\ usage' = usage \cup {RecordFor(t, p, a)} /\ balance' = Charged(base, p, a)
  <2>1. p \in Periods
    BY DEF BalanceInv, Reservations
  <2> HIDE DEF p
  <2>2. /\ usage' \subseteq [task : Tasks, period : Periods, amount : Amounts] /\ balance' \in [Periods -> Balances]
        /\ \A r \in Periods, m \in Meters :
             /\ balance'[r][m].reserved = base[r][m].reserved
             /\ IsFiniteSet(UsedUnits(r, m)') /\ balance'[r][m].used = Cardinality(UsedUnits(r, m)')
    BY <1>3, <1>5, <2>1, RecordCharged
  <2> QED BY <1>1, <1>3, <2>2 DEF BalanceInv, BalancesMatch
<1> QED BY <1>2, <1>4, <1>5

\* A correction moves neither what is used nor what is reserved.
LEMMA AdjustmentBalanced ==
  ASSUME BalanceInv, NEW d \in Adjustments, CreateQuotaAdjustment(d)
  PROVE  BalanceInv'
<1> DEFINE cell == [balance[period]["generation"] EXCEPT !.adjusted = @ + d]
           line == [balance[period] EXCEPT !["generation"] = cell]
<1>1. /\ balance' = [balance EXCEPT ![period] = line] /\ UNCHANGED <<period, gate, permission, quota, usage>>
      /\ period \in Periods /\ balance \in [Periods -> Balances]
  BY DEF CreateQuotaAdjustment, BalanceInv
<1>2. /\ line \in Balances
      /\ \A m \in Meters : line[m].used = balance[period][m].used /\ line[m].reserved = balance[period][m].reserved
  <2>1. balance[period] \in Balances /\ "generation" \in Meters /\ d \in Int
    BY <1>1, UsageAssumption DEF Meters
  <2>2. balance[period]["generation"] \in [used : Int, reserved : Int, adjusted : Int]
    BY <2>1 DEF Balances
  <2>3. cell \in [used : Int, reserved : Int, adjusted : Int] /\ cell.used = balance[period]["generation"].used
        /\ cell.reserved = balance[period]["generation"].reserved
    BY <2>1, <2>2
  <2> HIDE DEF cell
  <2> QED BY <2>1, <2>3 DEF Balances
<1> HIDE DEF line
<1>3. /\ balance' \in [Periods -> Balances]
      /\ \A p \in Periods, m \in Meters :
           balance'[p][m].used = balance[p][m].used /\ balance'[p][m].reserved = balance[p][m].reserved
  BY <1>1, <1>2
<1>4. \A p, m : ReservedUnits(p, m)' = ReservedUnits(p, m) /\ UsedUnits(p, m)' = UsedUnits(p, m)
  BY <1>1 DEF ReservedUnits, UsedUnits
<1> QED BY <1>1, <1>3, <1>4 DEF BalanceInv, BalancesMatch

\* Nothing is reserved or used at first.
LEMMA BalanceInitially == UsageInit => BalanceInv
<1> SUFFICES ASSUME UsageInit PROVE BalanceInv
  OBVIOUS
<1>1. 1 \in Periods
  BY UsageAssumption DEF Periods
<1>2. quota \in [Tasks -> Reservations] /\ \A t \in Tasks : quota[t].status = "none"
  <2> DEFINE row == [status |-> "none", check |-> "none", period |-> 1, want |-> [m \in Meters |-> 0]]
  <2>1. row \in Reservations /\ row.status = "none"
    BY <1>1 DEF Reservations, QuotaStatuses
  <2>2. quota = [t \in Tasks |-> row]
    BY DEF UsageInit
  <2> HIDE DEF row
  <2> QED BY <2>1, <2>2
<1>3. balance \in [Periods -> Balances] /\ \A p \in Periods, m \in Meters : balance[p][m].used = 0 /\ balance[p][m].reserved = 0
  BY DEF UsageInit, Balances
<1>4. \A p, m : ReservedUnits(p, m) = {} /\ UsedUnits(p, m) = {}
  <2>1. usage = {}
    BY DEF UsageInit
  <2>2. \A p, m, e : e \notin ReservedUnits(p, m) /\ e \notin UsedUnits(p, m)
    BY <1>2, <2>1, ReservedIs, UsedIs
  <2> QED BY <2>2
<1>5. IsFiniteSet({}) /\ Cardinality({}) = 0
  BY FS_EmptySet
<1> QED BY <1>1, <1>2, <1>3, <1>4, <1>5 DEF UsageInit, BalanceInv, BalancesMatch

\* Every operation on the quota keeps the balances.
LEMMA BalancePreserved == BalanceInv /\ [UsageNext]_usageVars => BalanceInv'
<1> SUFFICES ASSUME BalanceInv, [UsageNext]_usageVars PROVE BalanceInv'
  OBVIOUS
<1>t. period \in Periods /\ gate \in BOOLEAN /\ permission \in [Checks -> {"none", "allowed", "denied"}]
  BY DEF BalanceInv
<1>1. CASE NextPeriod \/ ChangeMembership \/ UNCHANGED usageVars
  <2>1. UNCHANGED <<permission, quota, balance, usage>>
    BY <1>1 DEF NextPeriod, ChangeMembership, usageVars
  <2>2. gate' \in BOOLEAN
    BY <1>t, <1>1 DEF NextPeriod, ChangeMembership, usageVars
  <2>3. period' \in Periods
    <3>1. period' = period \/ (period < MaxPeriod /\ period' = period + 1)
      BY <1>1 DEF NextPeriod, ChangeMembership, usageVars
    <3> QED BY <1>t, <3>1, UsageAssumption DEF Periods
  <2>4. permission' \in [Checks -> {"none", "allowed", "denied"}]
    BY <1>t, <2>1
  <2> QED BY <2>1, <2>2, <2>3, <2>4, RowsUntouched
<1>2. CASE \E t \in Tasks : ReleaseReservation(t) \/ ExpireReservation(t)
  BY <1>2, UpdateBalanced DEF ReleaseReservation, ExpireReservation
<1>3. CASE \E t \in Tasks, k \in Checks, w \in Demands :
             AdmitAndReserve(k, t, w) \/ DenyAdmission(k, t, w) \/ ReserveForCheck(k, t, w)
  <2>1. PICK t \in Tasks, k \in Checks, w \in Demands :
          AdmitAndReserve(k, t, w) \/ DenyAdmission(k, t, w) \/ ReserveForCheck(k, t, w)
    BY <1>3
  <2>2. w \in [Meters -> Nat]
    BY UsageAssumption
  <2> QED BY <2>1, <2>2, AdmissionBalanced
<1>4. CASE \E t \in Tasks, a \in Amounts : CreateUsageRecordOnce(t, a) \/ SettleUsageOnce(t, a)
  BY <1>4, RecordBalanced, SettlementBalanced
<1>5. CASE \E d \in Adjustments : CreateQuotaAdjustment(d)
  BY <1>5, AdjustmentBalanced
<1> QED BY <1>1, <1>2, <1>3, <1>4, <1>5 DEF UsageNext

\* The invariant contains the types.
LEMMA BalanceTyped == BalanceInv => UsageTypeOK
<1> SUFFICES ASSUME BalanceInv PROVE UsageTypeOK
  OBVIOUS
<1>1. \A p \in Periods, m \in Meters : balance[p][m].used \in Nat /\ balance[p][m].reserved \in Nat
  BY FS_CardinalityType DEF BalanceInv, BalancesMatch
<1>2. \A t \in Tasks : quota[t].status \in QuotaStatuses /\ quota[t].check \in Checks \cup {"none"} /\ quota[t].period \in Periods
  BY DEF BalanceInv, Reservations
<1>3. \A u \in usage : u.task \in Tasks /\ u.period \in Periods /\ u.amount \in Amounts
  BY DEF BalanceInv
<1> QED BY <1>1, <1>2, <1>3 DEF BalanceInv, UsageTypeOK

\* Of a Run's steps only confirmation and the user's membership touch the quota.
LEMMA RunStepBalanced ==
  ASSUME BalanceInv, [RunNext]_<<runVars, usageVars>>
  PROVE  BalanceInv'
<1>1. ASSUME UNCHANGED usageVars PROVE BalanceInv'
  BY <1>1, RowsUntouched DEF BalanceInv, usageVars
<1>2. CASE PlanningStep
  <2>1. CASE UNCHANGED usageVars
    BY <1>1, <2>1
  <2>2. CASE \E key \in Checks : ConfirmPlanAndEnqueue(key) \/ ConfirmationDenied(key)
    <3>1. OneGeneration \in [Meters -> Nat] /\ RunTask \in Tasks
      BY RunAssumption DEF OneGeneration
    <3>2. PICK key \in Checks : AdmitAndReserve(key, RunTask, OneGeneration) \/ DenyAdmission(key, RunTask, OneGeneration)
      BY <2>2 DEF ConfirmPlanAndEnqueue, ConfirmationDenied
    <3> QED BY <3>1, <3>2, AdmissionBalanced
  <2> QED BY <1>2, <2>1, <2>2 DEF PlanningStep, CreateRunAndEnqueuePlanning, WorkspaceMoves, PlanningLease,
          PlanningEndsWithoutPlan, FinalizePlanningSuccess
<1>3. CASE CancelStep
  BY <1>1, <1>3 DEF CancelStep, RequestCancelAndEnqueue, CancelProjectsTask, CancelHandlerStops
<1>4. CASE DispatcherStep
  <2>1. UNCHANGED usageVars
    BY <1>4 DEF DispatcherStep, dispatcherFrame, DispatchLease, LoadRunAndPlan, Reserve, CreateDispatch,
       AuthorizeDispatchSubmit, MarkDispatchSent, Submit, MarkDispatchSubmitUnknown, Accept, MarkRunAccepted,
       ProjectRunning, EnqueueRuntimeEventRecovery, DispatcherStops, DispatchLeaseLapses, SlotLapses, Fail
  <2> QED BY <1>1, <2>1
<1>5. CASE AborterStep
  BY <1>1, <1>5 DEF AborterStep, AbortLease, AbortBegins, AbortAsync, AbortEnqueuesEvents, AborterStops, AbortFail,
     aborterFrame
<1>6. CASE ChangeMembership
  <2>1. UNCHANGED <<permission, quota, balance, usage, period>> /\ gate' \in BOOLEAN
    BY <1>6 DEF ChangeMembership, BalanceInv
  <2> QED BY <2>1, RowsUntouched DEF BalanceInv
<1> QED BY <1>1, <1>2, <1>3, <1>4, <1>5, <1>6 DEF RunNext

-------------------------------------------------------------------------------
(* Theorems *)

\* A Run that does not exist is carried by nothing.
LEMMA RunInvInitially ==
  ASSUME RunInit
  PROVE  RunInv
<1>1. RunTypeOK
  <2>1. tries \in [{"dispatch", "abort"} -> 0 .. MaxTries]
    BY RunAssumption DEF RunInit
  <2>2. item \in [ItemKinds -> ItemStatuses]
    BY DEF RunInit, ItemStatuses
  <2> QED BY <2>1, <2>2 DEF RunInit, RunTypeOK, RunStatuses
<1> QED BY <1>1 DEF RunInit, RunInv, NotYetQueued, SubmittedIsOwned, IsCarried, OwnedStatuses, Sending, ItemKinds

\* The invariant is inductive.
LEMMA RunInvPreserved ==
  ASSUME RunInv, [RunNext]_<<runVars, usageVars>>
  PROVE  RunInv'
<1>1. CASE UNCHANGED runVars
  BY <1>1 DEF runVars, RunInv, RunTypeOK, NotYetQueued, SubmittedIsOwned, IsCarried, Live
<1> QED BY <1>1, PlanningSafe, CancelSafe, DispatcherSafe, AborterSafe DEF RunNext

\* The values of a Run's rows and of the workers at it are of their types.
THEOREM RunTypeCorrect == RunLifecycleSpec => []RunTypeOK
<1>1. RunInv => RunTypeOK
  BY DEF RunInv
<1> QED BY <1>1, RunInvInitially, RunInvPreserved, PTL DEF RunLifecycleSpec

\* In every state that is not final a durable row brings the Run on, whoever
\* dies and whichever lease runs out.
THEOREM RunIsNeverForgotten == RunLifecycleSpec => []RunIsNotForgotten
<1>1. RunInv => RunIsNotForgotten
  BY DEF RunInv, IsCarried, RunIsNotForgotten
<1> QED BY <1>1, RunInvInitially, RunInvPreserved, PTL DEF RunLifecycleSpec

\* A plan is confirmed by the one key whose check was allowed, and the quota of
\* that check stays reserved.
THEOREM ConfirmationIsPaidOnce == RunLifecycleSpec => []ConfirmedOnceAndPaid
<1>1. PaidInv => ConfirmedOnceAndPaid
  BY DEF PaidInv, ConfirmedOnceAndPaid
<1> QED BY <1>1, RunInvInitially, RunInvPreserved, PaidInitially, PaidPreserved, PTL DEF RunLifecycleSpec

\* No step of anybody reopens a cancelled Run or submits it.
LEMMA CancelledStays ==
  ASSUME RunInv, RunInv', [RunNext]_<<runVars, usageVars>>, run = "cancelled"
  PROVE  run' = "cancelled" /\ ~submitted'
<1>1. run' = "cancelled"
  <2>1. CASE UNCHANGED runVars
    BY <2>1 DEF runVars
  <2>2. CASE PlanningStep
    BY <2>2 DEF PlanningStep, CreateRunAndEnqueuePlanning, WorkspaceMoves, PlanningLease,
       PlanningEndsWithoutPlan, FinalizePlanningSuccess, ConfirmPlanAndEnqueue, ConfirmationDenied, MayConfirm,
       runVars
  <2>3. CASE CancelStep
    BY <2>3 DEF CancelStep, RequestCancelAndEnqueue, CancelProjectsTask, CancelHandlerStops, Ended
  <2>4. CASE DispatcherStep
    <3>1. ASSUME NEW retryable, Fail(retryable) PROVE run' = "cancelled"
      BY <3>1 DEF Fail, CompensateQueueFailure, Ended
    <3>2. CASE DispatchLeaseLapses
      BY <3>2 DEF DispatchLeaseLapses, CompensateQueueFailure, Ended
    <3>3. dispatcher \notin Sending
      BY DEF RunInv, SubmittedIsOwned, OwnedStatuses
    <3>4. CASE LoadRunAndPlan \/ Reserve \/ CreateDispatch \/ AuthorizeDispatchSubmit
      BY <3>1, <3>4 DEF LoadRunAndPlan, Reserve, CreateDispatch, AuthorizeDispatchSubmit, MayAuthorize
    <3>5. CASE DispatchLease \/ EnqueueRuntimeEventRecovery \/ DispatcherStops \/ SlotLapses
      BY <3>5 DEF DispatchLease, EnqueueRuntimeEventRecovery, DispatcherStops, SlotLapses
    <3>6. CASE MarkDispatchSent \/ Submit \/ MarkDispatchSubmitUnknown \/ Accept \/ MarkRunAccepted
               \/ ProjectRunning
      BY <3>3, <3>6 DEF MarkDispatchSent, Submit, MarkDispatchSubmitUnknown, Accept, MarkRunAccepted,
         ProjectRunning, Sending
    <3> QED BY <2>4, <3>2, <3>4, <3>5, <3>6 DEF DispatcherStep
  <2>5. CASE AborterStep
    BY <2>5 DEF AborterStep, AbortLease, AbortBegins, AbortAsync, AbortEnqueuesEvents, AborterStops,
       AbortFail, aborterFrame
  <2> QED BY <2>1, <2>2, <2>3, <2>4, <2>5 DEF RunNext, usageVars
<1>2. ~submitted'
  BY <1>1 DEF RunInv, SubmittedIsOwned, OwnedStatuses
<1> QED BY <1>1, <1>2

\* A Run that is cancelled stays cancelled and reaches no Host.
THEOREM CancelledRunNeverSubmitted == RunLifecycleSpec => CancelledRunIsNeverSubmitted
<1>1. RunInv /\ RunInv' /\ [RunNext]_<<runVars, usageVars>>
      => [run = "cancelled" => run' = "cancelled" /\ ~submitted']_runVars
  BY CancelledStays
<1> QED BY <1>1, RunInvInitially, RunInvPreserved, PTL DEF RunLifecycleSpec, CancelledRunIsNeverSubmitted

\* For every number of tasks, checks, periods, demands and corrections the balances
\* are what the reservations and the usage records say, in whatever order the
\* operations come and however often each is repeated.
THEOREM BalancesAlwaysMatch == UsageSpec => [](BalancesMatch /\ UsageTypeOK)
<1>1. BalanceInv => BalancesMatch
  BY DEF BalanceInv
<1> QED BY <1>1, BalanceInitially, BalancePreserved, BalanceTyped, PTL DEF UsageSpec

\* The life of a Run, whichever of its steps is repeated or never comes, keeps the
\* balances as well.
THEOREM RunKeepsBalances == RunLifecycleSpec => [](BalancesMatch /\ UsageTypeOK)
<1>1. BalanceInv => BalancesMatch
  BY DEF BalanceInv
<1> QED BY <1>1, BalanceInitially, RunStepBalanced, BalanceTyped, PTL DEF RunLifecycleSpec
===============================================================================
