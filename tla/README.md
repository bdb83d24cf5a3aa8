# A TLA+ model of the Yuex agent runtime

This directory holds TLA+ modules translated from the source of the Yuex Agent
Runtime, the TLC configurations that check them on small instances, and TLAPS
proofs of their main properties for every size. The code is the reference: a
definition stands for the lines `PROJECT.json` names under `map`.

Paths are relative to the repository: `R` is
`src/extracted/go-runtime-control-plane/internal/runtime`, `workers` is
`src/cut-boundary-reference/backend-workers`, `persistence` is
`src/cut-boundary-reference/storage/persistence`, `adapter` is
`src/extracted/go-runtime-adapter/cmd/openclaw-runtime-adapter` and `driver` is
`src/extracted/openclaw-driver/overlay/src`. A file without a directory is in
one of these.

Contents: [the system](#the-system), [modules](#modules),
[runs](#what-the-runs-check), [bounds](#bounds), [fairness](#fairness),
[findings](#findings), [proofs](#proofs), [not modelled](#not-modelled),
[observed](#observed).

## The system

A product backend hands an agent *Run* to the runtime. A queue worker plans it
and dispatches it to one of several *Runtime Hosts* (an adapter process and a
harness), which reports events and a terminal result. Several instances of
every worker run at once and share nothing but PostgreSQL. The README of the
repository names the rules that must hold (line 397): a terminal state is
converged to once; the events of a Run are ordered and deduplicated by their
sequence; whoever writes for a Run holds its current fence; capacity
reservations prevent overselling; session admission keeps two Runs out of one
product session.

| Component | State | Operations | What makes it hard | What makes it correct |
|---|---|---|---|---|
| Hosts, Slots, Dispatches (`R/runtime_host_concurrency.go`, `runtime_host_repository.go`, `runtime_host_reconcile.go`, `runtime_run_record_v1.go`) | host rows with counters, slot reservations, dispatch rows, run records | register, heartbeat, drain, reserve, create, send, accept, renew, release, expire, append event, claim, advance, finalize, recount | every worker moves the same rows and counters; reads outside the transaction that uses them; late answers | counters exact, limits kept, a closed Slot stays closed, claims superseded by newer ones only, a Run record ends once |
| Dispatcher (`workers/ai_task_dispatcher.go`) | where one queue item stands | reserve, create, authorise, send, submit, accept, give up | any call may fail after the previous one committed | everything taken is given back or left to recovery |
| Recovery worker (`workers/runtime_recovery_worker.go`) | claims, lists read earlier in the sweep | sweep Hosts, expire, end Dispatches of lost Hosts, probe stale Dispatches, replay convergences | crash, lost lease, decisions on stale reads | one decider per Dispatch, nothing terminal reopened |
| Lease supervisor (`R/runtime_lease_supervisor.go`) | ownerships and their goroutines | track, renew, stop, lose | renewal against termination and replacement | no ownership renewed after its end, every loss handed over |
| Scheduler (`R/runtime_scheduler.go`) | none of its own | reserve, renew, accept, release, drain, recover: lock, capacity, session and Slot together | a failure or crash between two of the four | no part is leaked, none of a replacement is released |
| Capacity admission (`R/runtime_capacity_admission.go`) | reservations per snapshot, profile, tenant, user | reserve, commit, release, recover | expiry against late acceptance | limits never exceeded |
| Session admission and binding (`R/runtime_session_admission.go`, `runtime_session_binding.go`) | admissions, cleanup outboxes, session generations | acquire, bind, renew, release, expire, drain, rotate | expiry against renewal, crash between outbox steps | a Run that executes keeps its session, no lock is forgotten |
| Event ingestion and terminal convergence (`workers/runtime_event_worker.go`, `R/runtime_event_ingestor.go`, `R/runtime_terminal_converger.go`) | cursor, events, progress record, all rows of a Run | page, append, verify, project, finalize | interruption between steps, another worker's queue lease, a user who cancels meanwhile | one outcome; done is done everywhere; what can end does |
| Work queue (`persistence/queue_repository.go`, `workers/queue_heartbeat.go`) | items with lease proofs, audit rows | lease, renew, complete, fail, sweep, replay | expired leases, late workers | one holder, one effective end, a compensation for each failure |
| Usage (`persistence/usage_repository.go`) | checks, quota reservations, balances, usage records | check, reserve, settle, release, expire, adjust | repeated calls across a change of period | balances match the rows |
| Agent run and cancellation (`persistence/agent_run_repository.go`, `workers/runtime_abort_worker.go`) | status and version, plan, items | finalise a plan, confirm, authorise submit, cancel, abort | cancellation against submission, crash between two transactions | one of them wins; no Run is forgotten |
| Public events and notifier (`persistence/agent_run_repository.go`, `public-api`, notifier) | event rows, wake-ups, streams | append, prune, publish, sweep, page | lost wake-ups, full queues, reconnects | no event skipped, the final one delivered |
| Host attestation and adapter (`R/runtime_host_recovery.go`, `adapter`) | attestations, permits, the adapter's loop | register, begin, complete, stage, submit | restarts and lost answers on either side | a Host is open only when both sides know what it runs |
| Run tickets (`R/runtime_run_ticket_jti_store.go`, `R/run_ticket.go`, materialiser) | files of consumed identifiers, a lock file, directories | verify, consume, purge, materialise | concurrent consumers, restarts, stale locks | a ticket is consumed once |
| Planning (`R`: router, planner, validator) | a catalogue, a request, a plan | choose, route, plan, validate | two pieces of code that must agree, a catalogue that changes | what the planner makes the validator accepts |
| Thread binding (`persistence`: threads, run contexts) | threads, history, idempotency records, frozen contexts | switch, page, gather, freeze, publish | reads before the transaction that uses them | one effect per key, Runs follow the thread |
| Retention (`workers/retention_worker.go`) | class leases, artifact rows, objects | lease, claim, delete, complete | lapsed leases, several replicas | a deletion counted once |
| Prompts, parsers, renderers, clients, tooling | none that outlives a call | transformations | none for a model checker | tested by their unit tests |

`PROJECT.json` lists every component with its sources, the hazards of the code
at the line where they bite, and the properties that cover them.

## Modules

Every module states its abstractions in its header, and the table or state of
the code behind each variable at its declaration. Each transaction or statement
is one action; a handler of several transactions is a sequence of actions with a
program counter in between, so that every interleaving with the other actors,
and a crash between any two of them, is explored. The in-memory branch of each
repository is a test backend and is not modelled.

| Module | Variables and what they stand for | Actions |
|---|---|---|
| `RuntimeHostSlots` | `host`, `reserved`, `active`: `runtime_hosts` and its six counters; `slot`: `runtime_slot_reservations`; `dispatch`: `runtime_run_dispatches` with its recovery claim; `record`: `runtime_run_records`; `owner`, `worker`, `leases`, `expiring`, `offline`, `orphaning`: where dispatcher, recovery workers and sweep stand and what they have read | `HostStep`, `DispatcherStep`, `EventStep`, `RecoveryStep`, `SweepStep` |
| `SlotPool` | abstract: `limit`, `place` | take, give back, set a limit |
| `CapacityAdmission` | `row`: `runtime_capacity_reservations`; `attempt`: an execution of a queue task in `ProcessWithProof`; `dispatch`, `run`: the rows recovery reads; `hosted`, `down`, `aged`: the Host; `sweep`, `restarts`: where `Reconcile` stands | `DispatcherStep`, the event worker's `Converge`, `ReconcileStep` |
| `SessionAdmission` | `admission`, `slot`, `dispatch`: the rows of an attempt, named by the fencing token of its lock; `lock`, `fence`: the lock manager; `generic`, `terminal`: the two cleanup outboxes; `binding`, `offline`, `exec`: session generations and the Host; `handles`, `tracked`, `attempt`, `drain`, `round`: what a process has in memory | the dispatcher's attempt, the heartbeat of the supervisor, `RoundStep` of recovery, `CleanupStep`, the end by convergence, and lapses |
| `TerminalConvergence` | `queue`, `cursor`, `conv`, `ledger`: the rows of ingestion and convergence; `run`, `plan`, `dispatch`, `admission`, `product`, `published`: what depends on the end of a Run; `bearer`: the worker whose process has the handle of its session; `host`, `worker`, `sweep`: the Host and the workers | ingestion, snapshot, projection with reclaim, tail-only and blocked recovery, the last transaction, recovery items, the user, the redelivered task, the offline sweep, the loss of the handle and the expiry of the session |
| `TerminalOutcome` | abstract: `decided`, `shown`, `verdict` | decide, show an effect, conclude |
| `WorkQueue` | `row`, `audits`: `task_queue_records` and the audit of dead letters; `task`: the Agent Run, AI task or run record an item works for; `asset`: what its recording shows; `worker`: proof and heartbeat of a worker | enqueue, the three transactions of a lease, renewal, every end, sweeps, ignore, replay |
| `FencedQueue` | abstract: `grants`, `holder`, `belief`, `outcome` | grant, take away, finish, give up, reopen |
| `UsageSettlement` | `permission`, `quota`, `balance`, `usage`: the rows of `usage_repository.go`; `period`, `gate` | checks, reservation, settlement, release, expiry, adjustment |
| `RunLifecycle` (extends `UsageSettlement`) | `run`, `cancelAsked`, `plan`, `confirmedBy`: `agent_runs` and `agent_run_plans`; `item`, `tries`: its work items; `slot`, `dispatch`, `submitted`: the way to the Host; `dispatcher`, `aborter`, `cancelling`: where the processes stand | planning, confirmation, dispatcher, cancellation, abort worker |
| `PublicEventStream` | `retained`, `final`: `runtime_run_events`; `owed`, `publishing`, `inFlight`, `connected`: a wake-up on its way through Redis; `sweep`, `subscribers`, `stream`: an API instance | append, prune, publish, recovery sweep, stream |
| `HostRecovery` | `hostRow`, `attestations`, `slots`, `dispatched`: the Backend's rows; `adapter`, `permits`, `call`: the adapter; `frames`, `replies`, `execution`: Gateway and connection | registration loop, Begin and Complete, submission, status, restarts |
| `RunTickets` | `record`, `lockFile`, `lockStale`, `mutex`: the file store; `workspace`, `cached`: what is materialised; `attempt`, `expired`, `timely`, `serving` | verification, consumption, purge, materialisation, crashes |
| `Planning` | `catalog`, `request`, `step`, `route`, `runPlan` | choice, routing, planning, validation, a new catalogue |
| `ThreadBinding` | `thread`, `history`, `switchRecords`, `contexts`, `workspaces`: the rows; `switches`, `snapshots`, `runStages`, `reader`: calls under way | switch and its replay, pages, creation, freezing and publishing of a Run |
| `Retention` | `rows`, `owners`: `retention_artifacts` and class leases; `stored`, `kept`: what is cleaned; `passes`: the replicas | leases, renewal, claim, deletion, completion, the other classes |

How they fit together. `RuntimeHostSlots` is the relational core: who holds
which Slot and Dispatch of which Host. `CapacityAdmission`, `SessionAdmission`
and `TerminalConvergence` each follow the same Run through dispatcher, event
worker and recovery worker with another of the four resources in detail and the
others reduced to whether they are held; composing all four at full detail is
out of TLC's reach. `TerminalConvergence` and `RunLifecycle` use a queue of which
they assume what `WorkQueue` implements: an item has one holder, and only the
holder finishes it. `FencedQueue` states that promise and the refinement shows
it. `RunLifecycle` ends where a Host executes the Run, `TerminalConvergence`
begins there.

The refinement maps the rows of `WorkQueue` to `FencedQueue`: `Grants` is the
attempt of the row, `Holder` its lease owner, `Belief` the item and attempt in a
worker's proof, `Outcome` what the status means. `ImplementsFencedQueue` is
`Fenced!Spec`.

A second one maps `TerminalConvergence` to `TerminalOutcome`, which knows no
workers, queue, ledger or sweep: `decided` is the result of the snapshot, `shown`
the product, `verdict` what Run, plan and Dispatch say once the convergence is
done (`Told`). `ImplementsOutcome` is `Outcome!Spec`: a result is decided once, its
effects are shown in the order in which they build on each other, and the verdict
comes after all of them and stays.

A third maps `RuntimeHostSlots` to `SlotPool`, which has no counters, leases,
Dispatches, workers or sweeps: `Limit` is what a Host registered, `Place` the Slot
reduced to whether it is unused, out or closed, with its Run, Host and scope.
`ImplementsSlotPool` is `Pool!Spec`: whatever the counters say, a Slot goes out to a
Run that has no other, on a Host with room when the Slots themselves are counted;
it comes back once; and limits are never set below what is out.

Abstractions that recur. *Time*: a lease, claim or reservation may lapse at any
moment, which contains every choice of timeouts and clocks. *Tokens*: a fencing
token or a row version appears as a number where it is compared, and is left out
where a row has only one. *The lock manager* (`queue.DistributedLockManager`) and
Redis are not in `src`; they are modelled by their use. *Payloads* are left out
except for what decides a branch (a result that its plan cannot read, a workspace
that moved). The harness is modelled as far as the adapter depends on it.

MC modules: `MCRuntimeHostSlots`, `MCCapacityAdmission`, `MCSessionAdmission`,
`MCTerminalConvergence` give the constants their values and restrict who takes
part. `MCServices` (with `MCPlanning`, its catalogues and requests) checks the
components that share no state while they are at work in one run: a behaviour is
one *scene*, chosen at the start, in which one component moves and the others
rest.

## What the runs check

| Run | Instance | What it shows |
|---|---|---|
| `HostSlotsAdmission` | 1 Host, 2 Runs, 2 reservations, no worker, two possible limits | `CountersMatch`: the counters are the numbers of reserved and accepted Slots. `HostWithinLimits`: no Host is oversold, in total or per scope. `ClosedSlotIsFinal`: no late step touches a closed Slot. `ImplementsSlotPool`: all of it is a behaviour of `SlotPool` |
| `HostSlotsRecovery` | 1 Host, 1 Run, 2 workers at one reservation, or 1 worker and two reservations | `AcceptedOnce`, `ConvergedRunHoldsNoSlot`, `ConvergedRecordIsFinal`: late answers for a first reservation never disturb the second, and the Run record ends once and without a Slot. `UnclaimedTerminalIsFinal`: a terminal Dispatch changes only under a claim that was live when it ended. `RecoveryFenceIsNewest`: claims are succeeded by newer ones only |
| `HostSlotsTerminal` | 1 reservation, 1 worker | violated: finding 1 |
| `CapacitySafety` | 1 Run with 2 attempts, or 2 Runs with one each, 1 key with limit 1 | `TimelyWithinLimit`: reservations within their time never exceed a limit. `ClosedHoldsNothing`: a converged Dispatch leaves no capacity behind. `ReservationEndsWithItsOwner`: no late step for one attempt ends the reservation of the other |
| `CapacityProgress` | 1 Run, 2 attempts and 1 restart, or 1 attempt, 2 restarts and a Host that is lost and returns | `OrphanedCapacityIsFreed`: capacity of an orphaned Dispatch is released in the end, though the worker may die in between |
| `CapacityOversell` | 2 Runs with an attempt each | violated: finding 2 |
| `CapacityOffline` | 1 Run, 1 attempt, the Host may be lost | violated: finding 3 |
| `Convergence` | 2 workers, 2 events, 3 recovery items, 2 faults | `OneOutcome`: the product shows the effects of one result, that of the snapshot. `DoneIsConsistent`: a convergence that is done is done in Run, plan, Dispatch, product and admissions, and an item is done only with it. `ConvergenceEnds`: one that was begun ends, as long as the handle of its session exists. `ImplementsOutcome`: all of it is a behaviour of `TerminalOutcome` |
| `ConvergenceUnknown` | 1 worker, no fault, after a submit without an answer | violated: finding 4 |
| `SessionOwnership` | 2 Runs of one session, 1 process, 3 locks, 1 fault | `SessionHeldWhileRunning`: a Run that a Host executes under an open Dispatch keeps its admission. `LockOfEndedAdmissionIsRecorded`: the lock of an ended admission is recorded until it is gone |
| `SessionStuck` | 1 Run, 1 process, 1 lock, 1 fault | violated: finding 5 |
| `Services` | 12 scenes, below | the components of `MCServices` |

The scenes of `Services`:

| Scene | Instance | Properties |
|---|---|---|
| `queue` | 2 workers; an item of 2 attempts, and one that replays it | `OneHolder`, `FailureIsCompensated`, `DeadLetterIsAuditedOnce`, `TaskEndsOnce`, `ImplementsFencedQueue`, `ItemEnds` |
| `usage` | 2 tasks, 1 check, 2 periods, an adjustment | `BalancesMatch` |
| `run` | 1 Run, 2 confirmation keys, 2 tries of an item | `RunIsNotForgotten`, `ConfirmedOnceAndPaid`, `CancelledRunIsNeverSubmitted` (and `BalancesMatch`) |
| `follow`, `sweep` | 1 client that reconnects; a client and a bystander; pages and batches of one | `NoEventIsSkipped`, `FinalEventIsStreamed` |
| `host` | 1 Host, 1 Run, 2 faults | `AttestationHolds`, `AttestationIsNotAwaitedForEver` |
| `ticket` | 2 processes, one call each | `ConsumedOnceInItsTime` |
| `plan` | 3 catalogues, 16 requests, 2 capabilities of a Host | `ListedWorkspaceIsPlanned` |
| `switch`, `bind` | 2 keys and a reader; 2 Runs and a switch | `ThreadTellsOneStory` |
| `claims`, `classes` | 2 replicas at one artifact; 1 replica at the other classes | `DeletionIsCountedOnce` |

Type invariants are checked in the first run of a module; those of
`RuntimeHostSlots` and `TerminalConvergence` are proved only (`TypeCorrect`), the ones
of the services are checked together as `ServicesTypeOK`. Each property has a mutant of the code: an
operator beside the
definition it changes, marked `Mutant:`, that drops a guard, swaps an order or
forgets a part the way a plausible bug would. With it in place TLC finds the
property violated under the same configuration.

Deadlock is checked where the system can always move; `CHECK_DEADLOCK FALSE`
stands where it really comes to rest: a Run that ended, counters of faults and
passes that are used up.

## Bounds

*Hosts.* Two Runs on a Host with one place per scope and two in total reach every
limit; two reservations of one Run are the least that make an answer late for a
replacement; two workers with two leases are the least that make a claim
superseded (`MaxFence` bounds the leases of one Dispatch). In
`HostSlotsRecovery` the rivals meet at a Run of one scope that does not fail,
and the successive reservations at a Host that stays ready.

*Capacity.* Two attempts of one Run are the least that make a release, a
convergence or a recovery late for a replacement; `MaxVersion` lets the second
attempt reserve after the first row moved twice; two Runs on a limit of one
compete for every unit. `MaxRestarts` bounds the deaths of the recovery worker,
`Unreliable` names the attempts whose Host may be lost.

*Convergence.* Two events (`LastEvent`) are the least with a gap to find; two
workers the least in which one reclaims the projection of another; three
generations (`MaxGenerations`) let the lineage of recovery items break and
continue; `MaxFaults` counts crashes, lost leases, refused calls and used-up
attempts together, so that two of them may fall on any two steps. One of the two
workers (`Admitter`) is the one whose process admitted the session of the Run.

*Session.* Two Runs are the least that compete, three locks (`MaxFence`) the
least in which both a retry of the one and the other Run follow an attempt that
lost its lock. Dispatcher, event worker and lease supervisor take one scheduler, and
so share the handles of a process; the recovery worker makes a scheduler of its own
(`workers/runtime_recovery_worker.go:53`) and has none.

*Services.* A replayed item beside its source; a period that changes once; two
confirmation keys; pages and sweep batches of one with two events, two
connections of a client; two faults of a Host (a restart during what a first one
made necessary); two processes at one ticket; two replicas. `MaxBeats`,
`MaxPeriod`, `MaxAdjustment`, `MaxTries`, `MaxEvents`, `MaxConnects`,
`MaxSwitches`, `MaxMoves`, `MaxPasses` and `MaxRegistrations` bound what else
could go on for ever; each is a guard of the actions it limits, or of a scene.

## Fairness

Liveness is stated where the code goes on by itself.

- *Recovery* (`CapacityProgress`, `SessionStuck`): `Run` calls `Reconcile` on a
  timer for ever, logs its errors, and is restarted when it dies; an attempt that
  started goes on or dies. In `CapacityProgress` nothing makes a Host return, a
  Run end, a deadline pass or a lost attempt be tried again.
  `OrphanedCapacityIsFreed` excepts the two errors that end every `Reconcile`
  early (`ReconcileBlocked`): without the exception it does not hold, and the
  first of them is finding 3.
- *Convergence*: workers poll and go on, an expired lease is found, and the
  recovery worker puts a new item behind a convergence that stopped. Only the
  worker whose process has the handle of the session can do the last step, and the
  others take the item from it: the lease of each worker is strongly fair, that is,
  an item that comes back again and again is taken by each of them at some time.
  The code does not depend on more than time here: if that worker were always late,
  recovery would orphan the Dispatch ten minutes after its creation, which counts as
  an end. `ConvergenceEnds` excepts what a convergence cannot overcome: one that was
  blocked as contradictory, a Dispatch or Run that somebody else ended first, and a
  handle that was lost while its session is held (`Stranded`, finding 5).
- *Session*: dispatchers, heartbeats, rounds and drains go on, a lease nobody
  renews runs out; the start of a round is strongly fair, because a process that
  is busy with a drain is free again and again. A Host ends what it executes, and a
  Dispatch that a round puts off again and again is orphaned at some time, ten
  minutes after its creation (`runtimeDispatchRecoveryMaxDeferral`).
- *Queue*: workers poll and go on, the heartbeat goroutine runs, leases run out,
  and the job that looks for items without a heartbeat runs
  (`RecoverRunningWithoutHeartbeat` has no caller in `src`; without it an item
  that a dead worker left running stays so).
- *Streams*: the safety tick and the sweep go on, and so does each stream. When
  a wake-up and a heartbeat are both there Go's `select` takes either, hence the
  strong fairness of reading. Other streams come and go finitely often
  (`MaxConnects`): the sweep's cursor is an index into a list that changes.
- *Host*: the registration loop of the adapter goes on.
  `AttestationIsNotAwaitedForEver` is about a Host with nothing left to do.

## Findings

1. `TerminalDispatchIsFinal`. The convergence transaction
   (`R/runtime_terminal_converger.go:911`) ends a Dispatch and leaves the
   recovery claim on it; `AdvanceDispatchRecovery`
   (`R/runtime_host_concurrency.go:866`) checks the claim and not the state. A
   worker that claimed the Dispatch, probed the Host, and was overtaken by the
   event worker sets the terminal Dispatch back to `accepted` or `recovering`.
   The Run record and the Slot stay closed (`ConvergedRecordIsFinal`,
   `ClosedSlotIsFinal`), the Dispatch becomes a candidate for recovery again.
   The README of the repository says that a terminal state is converged to once.
2. `RunningWithinLimit`. `Reserve` counts a reserved row until it expires
   (`R/runtime_capacity_admission.go:101`), two minutes after it was made
   (`workers/ai_task_dispatcher.go:94`). Only the acceptance transaction commits
   it; a Run whose submit answer was lost, or that recovery found on its Host and
   marked accepted (`workers/runtime_recovery_worker.go:574`), runs on with a
   reservation that lapses, and the next Run is admitted above the limit. The
   README of the repository says (line 397) that capacity reservations prevent
   concurrent overselling. `TimelyWithinLimit` is what does hold.
3. `OfflineDispatchIsOrphaned`. For each active Dispatch of an offline Host,
   `Reconcile` moves the Run to orphaned from a list of states that lacks queued
   and the terminal ones (`workers/runtime_recovery_worker.go:216`), and returns
   the error (line 223). One Dispatch left active by a dispatcher that stopped
   before its submit was authorised, or whose Run failed, ends every `Reconcile`
   there: it stays active, and what comes after it (other offline Dispatches,
   stale ones, expired capacity) is not reached. The README of the repository
   says (line 411) that recovery requeues, orphans or fails what an offline Host
   was running.
4. `UnknownSubmitConverges`. A comment in `R/runtime_scheduler.go:225-228` leaves
   a Dispatch whose acceptance failed to the recovery of an unknown submit. That
   recovery ends at a transaction that accepts a plan which is executing or has
   the terminal status (`R/runtime_terminal_converger.go:816`), and only the
   dispatcher makes a plan executing, after the acceptance. The product shows the
   result; Run, Dispatch, Slot, capacity and session are never converged.
   `UnknownSubmitIsSafe` proves that what is shown is nevertheless consistent.
5. `RestartedWorkerConverges`. The handle of a session is in the memory of the
   process that admitted the Run and is "never reconstructed from PostgreSQL after
   restart" (`R/runtime_session_admission.go:1252`). An event worker without it gives
   none to the convergence (`workers/runtime_event_worker.go:192-198`, 286-291), whose
   last transaction then demands that the admission is released or expired
   (`R/runtime_terminal_converger.go:936`); recovery keeps it `recovering` while the
   Dispatch is active (`R/runtime_session_admission.go:1332-1343`), and nothing but
   that transaction ends the Dispatch. After ten minutes it is orphaned: a Run that its
   Host ended well is given up although no Host was offline. The README of the
   repository says (line 411) that a restarted worker goes on from the last cursor,
   and that recovery requeues, orphans or fails when a Host is offline.

## Proofs

All theorems are about any number of Hosts, Runs, workers, attempts and faults;
their only assumptions are the named ones on the constants (sets are finite
where they are counted, limits positive, `None` is not an element of the other
sets). The registration code and the schema enforce the limits; the rest holds of
any instance.

**`RuntimeHostSlotsProofs`.**

- `TypeCorrect`. `TypeOK` is inductive together with `WorkerHasSlot`: a worker
  that is not idle names a Dispatch. Without it the row a worker claims would
  have no type.
- `CountersAlwaysMatch`, `HostAlwaysWithinLimits`. The invariant `CountersInv`
  adds that an active Slot names its Host and scope, and that the counters
  respect the limits. Every step moves the Slots in one of four ways (a new one,
  one accepted, one closed, none); `SlotMoves` names the way and one lemma per
  way moves the cardinalities. `Target` never exceeds a positive limit, which is
  why the limits have to be registered before a Slot is (`LimitsRegistered`).
- `ClosedSlotAlwaysFinal` follows from the guards of `AcceptSlot`, `CloseSlot`,
  `TryReserveSlot` and the expiry of leases.
- `RecoveryFenceAlwaysNewest`. A claim is newer than the row because the worker's
  lease was newer than every lease issued when it read the row and the row has
  not moved since (`FenceInv`): the compare-and-set on the version is what makes
  it true, and without it the mutant breaks it.
- `UnclaimedTerminalAlwaysFinal`. `OwnerInv` relates where a dispatcher stands to
  the state of its Dispatch; every other step checks the state itself or a live
  claim.
- `SlotsImplementPool` is the refinement. `OutIsCounted`, from `CountersInv`, says
  that what the pool has given out on a Host is what both counters say, and
  `TargetWithinLimit` that the target of a limit is no more than the limit; so a
  reservation is a `Take` (`ReserveTakes`) and a registration a `SetLimit`
  (`HostStepSets`). Whoever closes a Slot gives it back the first time
  (`CloseGivesBack`); every other step leaves the pool alone.
- `AcceptedAlwaysOnce`, `ConvergedRecordAlwaysFinal`,
  `ConvergedRunNeverHoldsSlot` need that a Run record is bound to a reservation
  that has a Dispatch, and that accepted Slots have Dispatches beyond acceptance.

**`CapacityAdmissionProofs`.** `CapacityInv` is inductive: `RowsFitKeys` says that
a row moves one version at a time, so that its version tells its state;
`AttemptsOwnRows` that a version an attempt holds is that of a row it inserted and
no other attempt holds; `DispatchesFollow` that a Dispatch belongs to an attempt
with a reservation; `SweepIsSound` what the recovery worker works on.

- All steps but `Reserve` move rows forward (`RowProgress`: lapse, accept under
  the lock, release or expire); `Reserve` inserts a row at a version no row of
  the Run has (`ReserveIsFresh`). Every safety theorem is the two cases.
- `TimelyAlwaysWithinLimit`: the timely rows are among the ones `Reserve` counts,
  and other steps only remove timely rows. A lapsed row may still be accepted by
  a transaction that checked it in time, which is why the limit is stated for
  rows within their time.
- `ClosedAlwaysHoldsNothing`: convergence releases the row at the bound version or
  the next, which `RowsFitKeys` makes the only ones an active row can have.
- `ReservationAlwaysEndsWithItsOwner`: a release by Run goes through
  `MatchesCapacityReservation`, and by `AttemptsOwnRows` the matched row is the
  Dispatch's own.

**`WorkQueueProofs`.** `OneHolderAlways`, `FailureAlwaysCompensated`,
`DeadLetterAlwaysAudited` and `TasksEndOnce` (of Agent Runs, AI tasks and run records;
a failure overwrites what a recording shows) follow from `QueueInv`, which adds to
the types and to the properties themselves that a worker with a proof is at a step
that has one, and that its attempt is not newer than the row's (`WorkersMatch`):
a proof of an older attempt is refused, so late workers change nothing.
`QueueImplementsGrants` is the refinement: the initial states of `WorkQueue` map to an initial state of
`FencedQueue`, and each of its steps to a grant, an end of a grant or a stutter.

**`TerminalConvergenceProofs`.** `ConvInv` joins the types, `HostIsHeard` (what is
stored, snapshotted and shown comes from the Host's one result, and no event is
missing below the cursor) and `WorkerIsSound` (what a worker has read and done so
far, by its program counter, is still so: a projection it finished is in the
ledger, a step of the progress record that it passed stays passed). `Grows` says
that facts are never taken back, which is why a worker's reading does not become
stale. `ProductTellsOneOutcome` and `CompleteIsConsistent` follow;
`UnknownSubmitIsSafe` gives the same for the specification of finding 4.
`ConvergenceImplementsOutcome` and `UnknownSubmitImplementsOutcome` are the
refinement: `OutcomeMoves` sorts the steps into those that decide, show, conclude or
hide, and `ToldIsVerdict`, from the invariant, says that what is told once the
convergence is done depends on the result only.

**`RunLifecycleProofs`.** `RunInv` adds to the types that a Run not yet queued has
no dispatch item and no submission (`NotYetQueued`), that a submitted Run is owned
or has failed (`SubmittedIsOwned`), that a dispatcher past creation has an active
Dispatch, and `IsCarried`: in each state the durable row that brings the Run on.
It is stronger than the property, since a live dispatch item or an active Dispatch
is always enough. It gives
`RunIsNeverForgotten` and `CancelledRunNeverSubmitted`. `PaidInv` relates checks
and reservation to the confirming key and gives `ConfirmationIsPaidOnce`.

`BalancesAlwaysMatch` is about `UsageSettlement` by itself, `RunKeepsBalances` about
the life of a Run, whose confirmation admits and reserves at once. A balance is
compared with a sum over rows. The sums are stated as numbers of elements: a
row of the amount n counts as the n units of `Units(x, n)`, so that the library's
theorems on cardinalities apply. `BalanceInv` adds to the equations the types, that
the units are finitely many, and that a reservation without a check holds nothing.
Each operation touches one row: `RowComes` and `RowGoes` say what that does to the
units, `ReservationCounted`, `ReservationReturned` and `RecordCharged` what it does
to the two sums, and `RowsUntouched` that every other balance keeps its rows.

**`SessionAdmissionProofs`.** What makes sessions hard is that every decision uses
what an earlier transaction read. `SessionInv` says what was read is still true
where it decides: `FreshTokens` (a row belongs to a token that was granted),
`OwnTokens` (what a process has in memory names rows of its own attempts),
`AttemptSound` (by where the dispatcher stands, the rows it may rely on),
`RowsSound` (Slot, Dispatch, admission and execution of one token fit each other)
and `RoundSound` (what the reconciling round found is still lost when it frees
the session). `SessionAlwaysHeld` is part of `RowsSound`. `LockInv` follows a
lock from the end of its admission through the two outboxes and the drain that
gives it back; it gives `LockAlwaysRecorded`.

**`ServicesProofs`.**

- `TicketIsSpentOnce`: by `TicketInv`, until the ticket expires, at most one attempt
  is between the creation of the record and its sync, the record says which step
  that attempt is at, and it is durable once anybody has consumed; the record is
  created exclusively, so that a stale lock file that is removed under its holder
  does no harm.
- `RegistrationIsDeletedOnce`: by `CountInv` the deletions counted of an artifact,
  and the one its row is still open for, are no more than its registrations.
- `AttestationIsKept`. `RecoveryInv` has four parts. `BackendInv`: a Host is ready
  only when reconciled, and reconciled only by a completed attestation of its present
  registration. `LoopInv`: between its snapshot and the opening of the Host the
  adapter admits nothing; from the comparison on that snapshot is empty, and so are
  the permits once they are staged. `CallInv`: what is on its way to the Gateway has a
  permit, or is known to be unanswered, or is over. `KnownInv`: once the Gateway was
  compared, what it executes has a permit or is known to be unanswered. The loop, the
  Backend and a submission have one lemma each.
  `HostTypeCorrect` follows from the same invariant, `TicketTypeCorrect` from
  `TicketInv`.
- `ServicesTypeCorrect` and `ServicesAreSound` are about `ServicesSpec`, the
  specification that the run `Services` checks, for every value of its constants.
  `ServicesFrame` says that in a scene each component takes a step of its own or
  rests, so a behaviour of all is one of each (`ServicesBehave`) and the theorems
  about each carry over. Quota and Run share rows: `QuotaAndRun` joins their
  invariants, and what a confirmation paid for is kept where the quota does not
  move by itself.

**`ProductServicesProofs`.**

- `EventsAreNotSkipped`. `EventInv` says of every stream that it is `Sound`: what is
  kept at or below its cursor, above the gap its client was told of, was delivered,
  and a page in its hands has all that is kept between the cursor and each of its
  events. `PageIsWhole` is where paging could go wrong: a page is the least
  `PageSize` events after the cursor, and the greatest of them exists because the
  log is finite (`GreatestExists`). `Sound` is stated of a log, so that it can be kept
  by a longer one (`AppendSafe`) and a pruned one (`PruneSafe`).
  `EventTypeCorrect`: the types with `OpenIsSubscribed`, that an open stream has its
  subscription, without which there would be no list to take it from.
  `ClientsAssumption` says that clients and bystanders are different.
- `ThreadStoryHolds`. `HistoryInv`: versions count the bindings, and each names the
  one before it. `KeyInv`: a key has at most one row of the history, none without its
  record, and every answer to it is that of the record. `OrderInv`: Runs were created
  and planned in the order of the bindings they carry, each the one the thread had
  at its version. `ReaderInv`: the pages read so far go down from the newest version
  without a hole. `AbsentAssumption` says that the model value for "no record" is
  not a record. `ThreadTypeCorrect` adds `CallsCounted`: the version and the calls
  under way are no more than the switches asked for, which keeps versions within
  their bound.
- `ListedWorkspacesArePlanned`. `PlanInv` relates the route to the catalogue version
  it was taken from (`RouteFits`), and the plan to its route (`PlanFits`); a
  catalogue of a new version may come between any two steps, and then the version
  is what differs. `CatalogAssumption` and `ImagesAssumption` say that versions and
  image counts are natural numbers and that a catalogue has finitely many skills.
  `PlanningTypeCorrect` follows the types through the steps (`PlanTyped`);
  `NamesAssumption` says that Agents are numbers and that who names a skill names a
  skill.

Model-checked only:

- liveness (`OrphanedCapacityIsFreed`, `ConvergenceEnds`, `ItemEnds`,
  `FinalEventIsStreamed`, `AttestationIsNotAwaitedForEver`), which is out of the
  prover's reach;
- the five violated properties, which are counterexamples of TLC.

## Not modelled

- *Row locks within a transaction.* A transaction is one step, so a cycle of
  waiting transactions cannot occur in the modules; PostgreSQL ends one of them
  with an error, which is a refused call. The order of the locks (Slot, Dispatch,
  Host, Agent Run) and the paths that leave it are listed as a hazard.
- *The product of an orphaned Run.* What recovery itself shows of a Run that it
  orphans after ten minutes (`workers/runtime_recovery_worker.go:606-683`) is outside
  `TerminalConvergence`, as is the cleanup a convergence tries at once after its last
  transaction (`R/runtime_terminal_converger.go:488`; `SessionAdmission` has it as a
  step of the drain).
- *What `Convergence` shares.* All its Runs need a session; the proofs and
  `ConvergenceUnknown` start from the same states. A scope without one lacks a guard
  and a resource.
- *Three quarters of a limit.* The instances have limits of 1 and 2, where the
  rounded target is the limit; that it is never more than the limit is proved
  (`TargetWithinLimit`), that it is less from 3 on changes nothing the properties say.
- *Tool audit.* One row per call, moved within the transaction of the event that
  carries it and aborted within the last transaction of the convergence: it has no
  interleaving of its own, and the rest compares payloads.
- *Drain aborts* of the recovery worker, the read-only dispatch fence of session
  admission, the encryption of session keys.
- *Driver.* The event log, the session queue and the policy of a Run in the
  harness; `HostRecovery` has what the adapter depends on.
- *Texts*: prompts, output parsing, rendering, manifests, capability texts,
  workspace search. No state outlives a call and unit tests reach them well.
- *Clients and transport*: the outcomes of a call (an answer, an error, neither)
  are the choices of the modelled callers.
- *Overlay tooling and examples*: scripts that run at build time.
- The planning worker, `TerminalProductProjections`, the embedding store and the
  lock manager are not in `src`; they appear as far as the code uses them.

## Observed

What reading the code for the modules showed beside the findings; no run is about
these, and a line is where to look.

Hosts and recovery:

- `ExpireReservations` (`R/runtime_host_repository.go:601`) protects reservations
  with a submitted Dispatch when it selects, not when it releases: a dispatcher
  that submits in between with an unknown answer loses its Slot while the Host may
  run the Run (`runtime_host_reconcile_test.go:174` says it waits).
- A dispatcher that authorised the submit and died leaves a Run that a redelivered
  item fails (`ai_task_dispatcher.go:512`), though a Host may execute it.
- A Dispatch left `created` is found stale and marks the Run orphaned although a
  later attempt may be at work; `finalizeRecoveredDispatch` goes by the Run.
- A Dispatch is orphaned after ten minutes though its Host may still execute it, or
  have ended it (finding 5), and the session's next Run is admitted beside it.
- An active Dispatch whose Slot was released blocks every attestation of its Host
  (`runtime_host_recovery.go:411`).
- The answer of Complete lost, or a crash before the adapter opens: the Backend has
  the Host ready, the Gateway's snapshot stays `pending`, Begin answers `completed`
  where the adapter demands `prepared`; the adapter is closed until it registers
  again while the Backend keeps placing Runs.
- The Gateway's `orphaned` is not among the adapter's terminal statuses: its permit
  leaks, and staging permits after the next registration fails.
- A Host swept to `unhealthy` or `offline` while it awaits its attestation does not
  return to `registering` by heartbeats.
- A submission that times out after it was written gives its permit back although
  the Gateway may execute it.

Queue, runs and events:

- `dispatcher.fail` on PostgreSQL: the compensation of `Queue.Fail` has already
  failed the Run, so the versioned update affects no row and the projection and the
  public `failed` event do not happen.
- `compensateAIRuntimeQueueFailureTx` may fail a Run that its Host executes.
- `compensateRecordingQueueFailureTx` sets transcript, minutes and summary of a
  recording to failed without looking at what they are (`queue_repository.go:1572-1595`;
  only its deposit and its run record are guarded): an item that fails after its work
  was done overwrites what the recording shows. `TaskEndsOnce` is about the guarded
  rows, `FailureIsCompensated` about both.
- The abort worker's failure path stops its heartbeat, which cancels the context of
  the update that follows: the Run stays `aborting`.
- Cancelling a queued Run leaves its quota reservation (nothing in `src` calls
  `ListExpired` and `Expire`).
- `orphaned` is projected as a terminal public event, so a stream may close before
  a recovered Run succeeds.
- A stream writes its last page again at every heartbeat
  (`agent_run_routes.go:169-218`): its cursor is meant to be exclusive.
- Pruning every public event of a Run restarts the numbering at 1.
- `enqueueRuntimeEventRecovery` does not go past an original item that timed out.

Bindings, planning, storage:

- A switch of a thread's Workspace that waited for another switch's row lock finds
  no joined row under READ COMMITTED: it answers NOT_FOUND instead of a conflict or
  a replay. The history is unique per user and key, the idempotency record per
  thread: one key on two threads fails.
- `ValidateCapabilityPlanningCatalog` compares roots where the planner compares
  references, and does not check skills: a validated catalogue may have requests
  that cannot be planned.
- A record of a ticket torn by a crash refuses every later consumption until it is
  removed; the expiry is checked before the wait for the lock and not after.
- A crash between the consumption of a ticket and the rename leaves it spent
  without a workspace. A torn entry of the object cache is never replaced.
- `DeleteTransient` takes no context: a replica that lost its lease may delete an
  object that was registered again. Registering during `deleting` keeps that
  status, so a row can end `deleted` with its object stored.
- Without a caller in `src`: `recordAuthorizedRecoveryFact`,
  `RegisterProviderRawArtifact`, `PrunePublicEventsBefore`, the planner and router,
  `RecoverRunningWithoutHeartbeat`. What needs them is modelled as external.
