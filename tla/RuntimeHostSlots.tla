--------------------------- MODULE RuntimeHostSlots ---------------------------
(***************************************************************************)
(* The relational core of the Runtime control plane: Runtime Hosts with    *)
(* their admission counters, the Slot reservations that occupy them, the   *)
(* Dispatch each reservation carries, the Run record the Dispatch writes   *)
(* and the recovery workers that claim, probe and finish Dispatches.       *)
(*                                                                         *)
(* It follows the PostgreSQL path of RuntimeHostRepository (the in-memory  *)
(* path is a test backend).  Each statement or transaction of the code is  *)
(* one step here; a sequence of several transactions is several steps, so  *)
(* whatever the other actors may do between two of them can happen.        *)
(*                                                                         *)
(* Abstractions.                                                           *)
(*  - A Slot row carries the fence (owner, lease token, fencing token) of  *)
(*    the dispatcher that inserted it and never another, so an operation   *)
(*    called with that fence is an operation on the Slot it names.         *)
(*  - The dispatcher derives dispatch_id from the Run and the fencing      *)
(*    token of the reservation, so a Slot has at most one Dispatch:        *)
(*    dispatch[s] is the row of Slot s.                                    *)
(*  - Time is the leases: a live Slot lease or recovery claim may lapse at *)
(*    any moment, a Host may be found late at any moment.                  *)
(*  - A row version only serves the compare-and-set of a recovery claim.   *)
(*    A worker's "fresh" flag says that the version it read is still the   *)
(*    version of the row.                                                  *)
(*  - Hosts belong to an environment whose restarts need no attestation.   *)
(***************************************************************************)
EXTENDS Integers, FiniteSets

CONSTANTS
  Hosts,            \* runtime_host_id
  Runs,             \* run_id
  Slots,            \* reservation_id, each used by one reservation
  Workers,          \* recovery workers, each an owner_instance_id
  Limits,           \* the limits a Host may register: total and per scope
  Reported,         \* the terminal statuses a Host reports
  MaxFence,         \* bound: recovery leases granted for one Dispatch
  None              \* no value

Scopes == {"product_thread", "detached_task"}
Dims == Scopes \cup {"total"}

Outcomes == {"succeeded", "failed", "timeout", "aborted", "rejected", "orphaned"}

ASSUME ConstantsAssumption ==
  /\ None \notin Hosts \cup Runs \cup Slots \cup Scopes
  /\ Limits \subseteq [Dims -> Nat \ {0}]
  /\ \A max \in Limits : \A d \in Dims : max[d] <= max["total"]
  /\ Reported \subseteq Outcomes
  /\ MaxFence \in Nat
  /\ IsFiniteSet(Slots)

HostStates == {"absent", "registering", "ready", "unhealthy", "draining", "offline"}
SlotStates == {"none", "reserved", "accepted", "released", "expired"}
ActiveSlot == {"reserved", "accepted"}
ClosedSlot == {"released", "expired"}
PreAccept == {"created", "sent", "submit_unknown"}
ActiveDispatch == PreAccept \cup {"accepted", "recovering"}
DispatchStates == {"none"} \cup ActiveDispatch \cup Outcomes

VARIABLES
  host,             \* runtime_hosts: status, recovery_state and limits
  reserved,         \* runtime_hosts: reserved_runs, in total and per scope
  active,           \* runtime_hosts: active_runs, in total and per scope
  slot,             \* runtime_slot_reservations
  dispatch,         \* runtime_run_dispatches
  record,           \* runtime_run_records
  owner,            \* where the dispatcher holding the reservation stands
  worker,           \* the recovery workers' local state
  leases,           \* fencing tokens issued by the recovery lock of a Dispatch
  expiring,         \* the sweep: Slots read as expired and not yet released
  offline,          \* the sweep: Hosts read as offline
  orphaning         \* the sweep: Dispatches read as running on one of them

vars == <<host, reserved, active, slot, dispatch, record, owner, worker, leases,
          expiring, offline, orphaning>>

hostVars == <<host, reserved, active>>
sweepVars == <<expiring, offline, orphaning>>

UnusedSlot == [state |-> "none", run |-> None, host |-> None, scope |-> None, live |-> FALSE]
NoDispatch == [state |-> "none", by |-> None, fence |-> 0, claim |-> "none"]
Idle == [pc |-> "idle", slot |-> None, seen |-> "none", fence |-> 0, fresh |-> FALSE]

HostRow == [status : HostStates, recovery : {"pending", "reconciled"}, max : [Dims -> Nat]]
SlotRow == [state : SlotStates, run : Runs \cup {None}, host : Hosts \cup {None},
            scope : Scopes \cup {None}, live : BOOLEAN]
DispatchRow == [state : DispatchStates, by : Workers \cup {None}, fence : Nat,
                claim : {"none", "live", "lapsed"}]
RecordRow == [status : {"none", "created", "running"} \cup Outcomes, slot : Slots \cup {None}]
WorkerState == [pc : {"idle", "listed", "leased", "claimed"}, slot : Slots \cup {None},
                seen : DispatchStates, fence : Nat, fresh : BOOLEAN]
OwnerStates == {"none", "reserved", "created", "sent", "captured", "settled", "closed"}

TypeOK ==
  /\ host \in [Hosts -> HostRow]
  /\ reserved \in [Hosts -> [Dims -> Nat]]
  /\ active \in [Hosts -> [Dims -> Nat]]
  /\ slot \in [Slots -> SlotRow]
  /\ dispatch \in [Slots -> DispatchRow]
  /\ record \in [Runs -> RecordRow]
  /\ owner \in [Slots -> OwnerStates]
  /\ worker \in [Workers -> WorkerState]
  /\ leases \in [Slots -> Nat]
  /\ expiring \in SUBSET Slots
  /\ offline \in SUBSET Hosts
  /\ orphaning \in SUBSET Slots

Init ==
  /\ host = [h \in Hosts |-> [status |-> "absent", recovery |-> "pending", max |-> [d \in Dims |-> 0]]]
  /\ reserved = [h \in Hosts |-> [d \in Dims |-> 0]]
  /\ active = [h \in Hosts |-> [d \in Dims |-> 0]]
  /\ slot = [s \in Slots |-> UnusedSlot]
  /\ dispatch = [s \in Slots |-> NoDispatch]
  /\ record = [r \in Runs |-> [status |-> "none", slot |-> None]]
  /\ owner = [s \in Slots |-> "none"]
  /\ worker = [w \in Workers |-> Idle]
  /\ leases = [s \in Slots |-> 0]
  /\ expiring = {}
  /\ offline = {}
  /\ orphaning = {}

-------------------------------------------------------------------------------
(* Rows and counters *)

\* The counters one Run of a scope moves: the total and its own.
Touched(scope) == {"total", scope}

Incremented(counter, h, scope) ==
  [counter EXCEPT ![h] = [d \in Dims |-> IF d \in Touched(scope) THEN @[d] + 1 ELSE @[d]]]

Decremented(counter, h, scope) ==
  [counter EXCEPT ![h] = [d \in Dims |-> IF d \in Touched(scope) THEN @[d] - 1 ELSE @[d]]]

\* The counter updates are conditional: no counter goes below zero.
Countable(counter, h, scope) == \A d \in Touched(scope) : counter[h][d] > 0

\* Dispatches stop filling a Host at three quarters of its limit, rounded to
\* the nearest Run and never below one.
Target(max) == IF (max * 3 + 3) \div 4 < 1 THEN 1 ELSE (max * 3 + 3) \div 4

\* Mutant: the limit of the scope is forgotten.
HasRoomInTotal(h, scope) ==
  active[h]["total"] + reserved[h]["total"] < Target(host[h].max["total"])

HasRoom(h, scope) ==
  \A d \in Touched(scope) : active[h][d] + reserved[h][d] < Target(host[h].max[d])

\* Mutant: the index leaves out the accepted Slots.
RunHasReservedSlot(r) == \E s \in Slots : slot[s].run = r /\ slot[s].state = "reserved"

\* The partial unique index over the active Slots of a Run.
RunHasSlot(r) == \E s \in Slots : slot[s].run = r /\ slot[s].state \in ActiveSlot

\* The partial unique index over the active Dispatches of a Run.
RunHasOtherDispatch(s) ==
  \E t \in Slots \ {s} : slot[t].run = slot[s].run /\ dispatch[t].state \in ActiveDispatch

\* Slot s leaves the reserved state for the accepted one and takes its Run's
\* place in the counters with it.
AcceptSlot(s) ==
  LET h == slot[s].host IN
  /\ slot[s].state = "reserved"
  /\ Countable(reserved, h, slot[s].scope)
  /\ reserved' = Decremented(reserved, h, slot[s].scope)
  /\ active' = Incremented(active, h, slot[s].scope)
  /\ slot' = [slot EXCEPT ![s].state = "accepted"]

\* Mutant: a release that does not notice that the Slot is already closed.
CloseSlotAgain(s, state) ==
  LET h == slot[s].host IN
  /\ slot' = [slot EXCEPT ![s].state = state]
  /\ \/ slot[s].state = "reserved" /\ reserved' = Decremented(reserved, h, slot[s].scope) /\ UNCHANGED active
     \/ slot[s].state # "reserved" /\ active' = Decremented(active, h, slot[s].scope) /\ UNCHANGED reserved

\* Slot s is closed and its Run leaves the counter its state counts in; a
\* closed Slot is left as it is.
CloseSlot(s, state) ==
  LET h == slot[s].host IN
  \/ /\ slot[s].state = "reserved"
     /\ Countable(reserved, h, slot[s].scope)
     /\ reserved' = Decremented(reserved, h, slot[s].scope)
     /\ slot' = [slot EXCEPT ![s].state = state]
     /\ UNCHANGED active
  \/ /\ slot[s].state = "accepted"
     /\ Countable(active, h, slot[s].scope)
     /\ active' = Decremented(active, h, slot[s].scope)
     /\ slot' = [slot EXCEPT ![s].state = state]
     /\ UNCHANGED reserved
  \/ /\ slot[s].state \in ClosedSlot
     /\ UNCHANGED <<slot, reserved, active>>

\* The version of Dispatch s moves on: what a worker read of it is outdated.
Outdated(s) ==
  [w \in Workers |-> IF worker[w].slot = s THEN [worker[w] EXCEPT !.fresh = FALSE] ELSE worker[w]]

SetDispatch(s, state) == dispatch' = [dispatch EXCEPT ![s].state = state]

-------------------------------------------------------------------------------
(* Hosts *)

\* A Host process registers, or registers again after a restart.  The check
\* constraints of runtime_hosts refuse limits below what the Host carries.
RegisterHost(h) ==
  \E max \in Limits :
    /\ \A d \in Dims : active[h][d] + reserved[h][d] <= max[d]
    /\ host' = [host EXCEPT ![h] =
         [status |-> "registering", max |-> max,
          recovery |-> IF active[h]["total"] + reserved[h]["total"] = 0 THEN "reconciled" ELSE "pending"]]
    /\ UNCHANGED <<reserved, active, slot, dispatch, record, owner, worker, leases, sweepVars>>

\* A heartbeat with a higher sequence number makes a reconciled Host ready.
HeartbeatHost(h) ==
  /\ host[h].status \in {"registering", "unhealthy"}
  /\ host[h].recovery = "reconciled"
  /\ host' = [host EXCEPT ![h].status = "ready"]
  /\ UNCHANGED <<reserved, active, slot, dispatch, record, owner, worker, leases, sweepVars>>

DrainHost(h) ==
  /\ host[h].status \notin {"absent", "draining"}
  /\ host' = [host EXCEPT ![h].status = "draining"]
  /\ UNCHANGED <<reserved, active, slot, dispatch, record, owner, worker, leases, sweepVars>>

\* The sweep finds the last heartbeat of a Host too old.
HostFoundLate(h) ==
  /\ \/ /\ host[h].status \in {"registering", "ready", "unhealthy"}
        /\ host' = [host EXCEPT ![h].status = "offline"]
     \/ /\ host[h].status \in {"registering", "ready"}
        /\ host' = [host EXCEPT ![h].status = "unhealthy"]
  /\ UNCHANGED <<reserved, active, slot, dispatch, record, owner, worker, leases, sweepVars>>

\* The Slots of Host h in one of the states and counted in dimension d.
Counted(h, states, d) ==
  {s \in Slots : slot[s].host = h /\ slot[s].state \in states /\ d \in Touched(slot[s].scope)}

\* The sweep counts every Host's Slots again and lets a Host that restarted
\* with Runs back in.
RecalculateHostCounters ==
  /\ reserved' = [h \in Hosts |-> [d \in Dims |-> Cardinality(Counted(h, {"reserved"}, d))]]
  /\ active' = [h \in Hosts |-> [d \in Dims |-> Cardinality(Counted(h, {"accepted"}, d))]]
  /\ host' = [h \in Hosts |-> IF host[h].status = "absent" THEN host[h]
                              ELSE [host[h] EXCEPT !.recovery = "reconciled"]]
  /\ UNCHANGED <<slot, dispatch, record, owner, worker, leases, sweepVars>>

-------------------------------------------------------------------------------
(* The dispatcher of one reservation *)

\* A dispatcher reserves Slot s for Run r on a ready Host with room.
TryReserveSlot(s, r, h, scope) ==
  /\ slot[s].state = "none"
  /\ host[h].status = "ready"
  /\ host[h].recovery = "reconciled"
  /\ HasRoom(h, scope)
  /\ ~ RunHasSlot(r)
  /\ reserved' = Incremented(reserved, h, scope)
  /\ slot' = [slot EXCEPT ![s] = [state |-> "reserved", run |-> r, host |-> h, scope |-> scope, live |-> TRUE]]
  /\ owner' = [owner EXCEPT ![s] = "reserved"]
  /\ UNCHANGED <<host, active, dispatch, record, worker, leases, sweepVars>>

\* Mutant: a Run whose record ended is dispatched again.
CreateDispatchOfEndedRun(s) ==
  LET r == slot[s].run IN
  /\ owner[s] = "reserved"
  /\ ~ RunHasOtherDispatch(s)
  /\ SetDispatch(s, "created")
  /\ record' = [record EXCEPT ![r] =
       [status |-> IF @.status = "none" THEN "created" ELSE @.status, slot |-> s]]
  /\ owner' = [owner EXCEPT ![s] = "created"]
  /\ UNCHANGED <<hostVars, slot, worker, leases, sweepVars>>

\* The Dispatch of Slot s is inserted together with the Run record, which is
\* bound to this reservation from now on.  The Slot is locked but its state
\* and its expiry are not looked at.
CreateDispatch(s) ==
  LET r == slot[s].run IN
  /\ owner[s] = "reserved"
  /\ ~ RunHasOtherDispatch(s)
  /\ record[r].status \notin Outcomes
  /\ SetDispatch(s, "created")
  /\ record' = [record EXCEPT ![r] =
       [status |-> IF @.status = "none" THEN "created" ELSE @.status, slot |-> s]]
  /\ owner' = [owner EXCEPT ![s] = "created"]
  /\ UNCHANGED <<hostVars, slot, worker, leases, sweepVars>>

\* Submission to the Host follows: from here on the Host may run the Run.
MarkDispatchSent(s) ==
  /\ owner[s] = "created"
  /\ dispatch[s].state \in {"created", "sent"}
  /\ SetDispatch(s, "sent")
  /\ worker' = Outdated(s)
  /\ owner' = [owner EXCEPT ![s] = "sent"]
  /\ UNCHANGED <<hostVars, slot, record, leases, sweepVars>>

\* The Host took the Run: Host counters, Slot, Dispatch and Run record move
\* together or not at all.
ConfirmDispatchAccepted(s) ==
  LET r == slot[s].run IN
  /\ owner[s] = "sent"
  /\ slot[s].live
  /\ dispatch[s].state \in PreAccept
  /\ AcceptSlot(s)
  /\ SetDispatch(s, "accepted")
  /\ record[r].slot = s
  /\ record[r].status \in {"created", "running"}
  /\ record' = [record EXCEPT ![r].status = "running"]
  /\ worker' = Outdated(s)
  /\ owner' = [owner EXCEPT ![s] = "settled"]
  /\ UNCHANGED <<host, leases, sweepVars>>

\* Mutant: the dispatcher overwrites what recovery made of its Dispatch.
MarkAnySubmitUnknown(s) ==
  /\ owner[s] = "sent"
  /\ SetDispatch(s, "submit_unknown")
  /\ worker' = Outdated(s)
  /\ owner' = [owner EXCEPT ![s] = "settled"]
  /\ UNCHANGED <<hostVars, slot, record, leases, sweepVars>>

\* The submission or its acceptance failed; the dispatcher leaves the
\* Dispatch to recovery and ignores a refusal.
MarkDispatchSubmitUnknown(s) ==
  /\ owner[s] = "sent"
  /\ \/ /\ dispatch[s].state \in PreAccept
        /\ SetDispatch(s, "submit_unknown")
        /\ worker' = Outdated(s)
     \/ /\ dispatch[s].state \notin PreAccept
        /\ UNCHANGED <<dispatch, worker>>
  /\ owner' = [owner EXCEPT ![s] = "settled"]
  /\ UNCHANGED <<hostVars, slot, record, leases, sweepVars>>

\* The capture fixture stops before the Host and rejects its own Dispatch.
MarkDispatchTerminal(s) ==
  /\ owner[s] = "sent"
  /\ \/ /\ dispatch[s].state \in {"created", "sent", "accepted", "rejected"}
        /\ SetDispatch(s, "rejected")
     \/ /\ dispatch[s].state \notin {"created", "sent", "accepted", "rejected"}
        /\ UNCHANGED dispatch
  /\ owner' = [owner EXCEPT ![s] = "captured"]
  /\ UNCHANGED <<hostVars, slot, record, worker, leases, sweepVars>>

\* The dispatcher gives up before the Host was asked to accept.  The
\* Dispatch, if there is one, keeps its state.
ReleaseReservation(s) ==
  /\ owner[s] \in {"reserved", "created", "captured"}
  /\ CloseSlot(s, "released")
  /\ owner' = [owner EXCEPT ![s] = "closed"]
  /\ UNCHANGED <<host, dispatch, record, worker, leases, sweepVars>>

\* The lease supervisor renews a live lease.  From acceptance on the Slot
\* names its Dispatch, which must still be active and gets a new version.
RenewReservation(s) ==
  /\ slot[s].state = "accepted"
  /\ slot[s].live
  /\ dispatch[s].state \in ActiveDispatch
  /\ worker' = Outdated(s)
  /\ UNCHANGED <<hostVars, slot, dispatch, record, owner, leases, sweepVars>>

\* Renewal failed: the supervisor hands an active Dispatch to recovery.
MarkDispatchLeaseLost(s) ==
  /\ owner[s] \in {"created", "sent", "settled"}
  /\ dispatch[s].state \in ActiveDispatch
  /\ SetDispatch(s, "recovering")
  /\ worker' = Outdated(s)
  /\ UNCHANGED <<hostVars, slot, record, owner, leases, sweepVars>>

SlotLeaseExpires(s) ==
  /\ slot[s].state \in ActiveSlot
  /\ slot[s].live
  /\ slot' = [slot EXCEPT ![s].live = FALSE]
  /\ UNCHANGED <<hostVars, dispatch, record, owner, worker, leases, sweepVars>>

-------------------------------------------------------------------------------
(* Events and terminal results of a submitted Run *)

Submitted(s) == owner[s] \in {"sent", "settled"}

\* An event in sequence advances the cursor; one out of sequence sends a
\* Dispatch that is not terminal to recovery without a new version.
AppendRunEventAndAdvanceCursor(s) ==
  /\ Submitted(s)
  /\ \/ /\ worker' = Outdated(s)
        /\ UNCHANGED dispatch
     \/ /\ dispatch[s].state \notin Outcomes
        /\ SetDispatch(s, "recovering")
        /\ UNCHANGED worker
  /\ UNCHANGED <<hostVars, slot, record, owner, leases, sweepVars>>

\* Mutant: convergence gives back the Slot of an accepted Run only.
ConvergeAcceptedSlot(s, outcome) ==
  LET r == slot[s].run IN
  /\ Submitted(s)
  /\ dispatch[s].state \in ActiveDispatch \cup {outcome}
  /\ record[r].slot = s
  /\ record[r].status \in {"created", "running", outcome}
  /\ IF slot[s].state = "accepted" THEN CloseSlot(s, "released") ELSE UNCHANGED <<slot, reserved, active>>
  /\ SetDispatch(s, outcome)
  /\ record' = [record EXCEPT ![r].status = outcome]
  /\ worker' = IF dispatch[s].state = outcome THEN worker ELSE Outdated(s)
  /\ UNCHANGED <<host, owner, leases, sweepVars>>

\* The Host reports a terminal result and the convergence transaction closes
\* the Slot, ends the Dispatch and ends the Run record.  A Dispatch that
\* already ended otherwise, or a Run record bound to another reservation,
\* rolls it back.
ConvergeTerminal(s, outcome) ==
  LET r == slot[s].run IN
  /\ Submitted(s)
  /\ dispatch[s].state \in ActiveDispatch \cup {outcome}
  /\ record[r].slot = s
  /\ record[r].status \in {"created", "running", outcome}
  /\ CloseSlot(s, "released")
  /\ SetDispatch(s, outcome)
  /\ record' = [record EXCEPT ![r].status = outcome]
  /\ worker' = IF dispatch[s].state = outcome THEN worker ELSE Outdated(s)
  /\ UNCHANGED <<host, owner, leases, sweepVars>>

-------------------------------------------------------------------------------
(* Recovery of one Dispatch by a claim *)

\* A worker reads a Dispatch that is due for recovery, with its version.
ListDispatchRecoveryCandidate(w, s) ==
  /\ worker[w].pc = "idle"
  /\ dispatch[s].state \in ActiveDispatch
  /\ worker' = [worker EXCEPT ![w] =
       [pc |-> "listed", slot |-> s, seen |-> dispatch[s].state, fence |-> 0, fresh |-> TRUE]]
  /\ UNCHANGED <<hostVars, slot, dispatch, record, owner, leases, sweepVars>>

\* The lock of the Dispatch grants a lease with the next fencing token.  A
\* lease may have run out, so the lock alone excludes nobody.
AcquireRecoveryLease(w) ==
  LET s == worker[w].slot IN
  /\ worker[w].pc = "listed"
  /\ leases[s] < MaxFence
  /\ leases' = [leases EXCEPT ![s] = @ + 1]
  /\ worker' = [worker EXCEPT ![w].pc = "leased", ![w].fence = leases[s] + 1]
  /\ UNCHANGED <<hostVars, slot, dispatch, record, owner, sweepVars>>

\* Mutant: a claim on the state of the row, without its version.
ClaimWithoutVersion(w) ==
  LET s == worker[w].slot IN
  /\ worker[w].pc = "leased"
  /\ dispatch[s].state = worker[w].seen
  /\ dispatch[s].state \in ActiveDispatch
  /\ dispatch[s].claim # "live" \/ dispatch[s].by = w
  /\ dispatch' = [dispatch EXCEPT ![s] =
       [state |-> "recovering", by |-> w, fence |-> worker[w].fence, claim |-> "live"]]
  /\ worker' = [Outdated(s) EXCEPT ![w].pc = "claimed"]
  /\ UNCHANGED <<hostVars, slot, record, owner, leases, sweepVars>>

\* The compare-and-set that makes the worker the only one to decide.
ClaimDispatchRecovery(w) ==
  LET s == worker[w].slot IN
  /\ worker[w].pc = "leased"
  /\ worker[w].fresh
  /\ dispatch[s].state = worker[w].seen
  /\ dispatch[s].state \in ActiveDispatch
  /\ dispatch[s].claim # "live" \/ dispatch[s].by = w
  /\ dispatch' = [dispatch EXCEPT ![s] =
       [state |-> "recovering", by |-> w, fence |-> worker[w].fence, claim |-> "live"]]
  /\ worker' = [Outdated(s) EXCEPT ![w].pc = "claimed"]
  /\ UNCHANGED <<hostVars, slot, record, owner, leases, sweepVars>>

\* Mutant: a claim that ran out is still good for its owner.
ClaimHeldForever(w) ==
  LET s == worker[w].slot IN
  /\ worker[w].pc = "claimed"
  /\ dispatch[s].by = w
  /\ dispatch[s].fence = worker[w].fence

\* The claim on Dispatch s is the one worker w took and has not run out.
ClaimHeld(w) ==
  LET s == worker[w].slot IN
  /\ worker[w].pc = "claimed"
  /\ dispatch[s].by = w
  /\ dispatch[s].fence = worker[w].fence
  /\ dispatch[s].claim = "live"

\* The worker hands the Dispatch on: to another pass, or to the event worker
\* when its Host knows the Run.  The state of the row is not looked at; the
\* unique index over active Dispatches is.
AdvanceDispatchRecovery(w, state) ==
  LET s == worker[w].slot IN
  /\ ClaimHeld(w)
  /\ ~ RunHasOtherDispatch(s)
  /\ dispatch' = [dispatch EXCEPT ![s].state = state, ![s].claim = "none"]
  /\ worker' = [Outdated(s) EXCEPT ![w] = Idle]
  /\ UNCHANGED <<hostVars, slot, record, owner, leases, sweepVars>>

\* The Scheduler's own recovery accepts the Slot as well.
RecoverDispatchAccepted(w) ==
  LET s == worker[w].slot IN
  /\ ClaimHeld(w)
  /\ dispatch[s].state = "recovering"
  /\ \/ AcceptSlot(s)
     \/ slot[s].state = "accepted" /\ UNCHANGED <<slot, reserved, active>>
  /\ dispatch' = [dispatch EXCEPT ![s].state = "accepted", ![s].claim = "none"]
  /\ worker' = [Outdated(s) EXCEPT ![w] = Idle]
  /\ UNCHANGED <<host, record, owner, leases, sweepVars>>

\* The worker ends a Dispatch its Host lost or that stalled for too long.
FinalizeClaimedDispatch(w, outcome) ==
  LET s == worker[w].slot IN
  /\ ClaimHeld(w)
  /\ dispatch[s].state = "recovering"
  /\ CloseSlot(s, "released")
  /\ dispatch' = [dispatch EXCEPT ![s].state = outcome, ![s].claim = "none"]
  /\ worker' = [Outdated(s) EXCEPT ![w] = Idle]
  /\ UNCHANGED <<host, record, owner, leases, sweepVars>>

\* A refused step, a busy lock or a crash ends the worker's attempt; a claim
\* it took stays on the row until it runs out.
AbandonRecovery(w) ==
  /\ worker[w].pc # "idle"
  /\ worker' = [worker EXCEPT ![w] = Idle]
  /\ UNCHANGED <<hostVars, slot, dispatch, record, owner, leases, sweepVars>>

RecoveryClaimLapses(s) ==
  /\ dispatch[s].claim = "live"
  /\ dispatch' = [dispatch EXCEPT ![s].claim = "lapsed"]
  /\ UNCHANGED <<hostVars, slot, record, owner, worker, leases, sweepVars>>

-------------------------------------------------------------------------------
(* The reconciling sweep *)

\* An unlocked read of the reservations that ran out and have no Dispatch
\* past creation.
SelectExpiredReservations ==
  /\ expiring = {}
  /\ expiring' = {s \in Slots : /\ slot[s].state = "reserved"
                                /\ ~ slot[s].live
                                /\ dispatch[s].state \notin ActiveDispatch \ {"created"}}
  /\ UNCHANGED <<hostVars, slot, dispatch, record, owner, worker, leases, offline, orphaning>>

\* Each of them is released in a transaction of its own, which checks the
\* fence and nothing else.
ExpireReservation(s) ==
  /\ s \in expiring
  /\ CloseSlot(s, "expired")
  /\ expiring' = expiring \ {s}
  /\ UNCHANGED <<host, dispatch, record, owner, worker, leases, offline, orphaning>>

\* The Hosts that are offline now.
ListOfflineHosts ==
  /\ offline = {}
  /\ orphaning = {}
  /\ offline' = {h \in Hosts : host[h].status = "offline"}
  /\ UNCHANGED <<hostVars, slot, dispatch, record, owner, worker, leases, expiring, orphaning>>

\* A later read of the active Dispatches on those Hosts, wherever they stand
\* by then.
ListActiveDispatchesByHost ==
  /\ offline # {}
  /\ orphaning' = {s \in Slots : dispatch[s].state \in ActiveDispatch /\ slot[s].host \in offline}
  /\ offline' = {}
  /\ UNCHANGED <<hostVars, slot, dispatch, record, owner, worker, leases, expiring>>

\* Each of them is ended without a claim; a Dispatch that reached its own
\* outcome meanwhile keeps it.
FinalizeOfflineDispatch(s) ==
  /\ s \in orphaning
  /\ CloseSlot(s, "released")
  /\ \/ /\ dispatch[s].state \notin Outcomes
        /\ dispatch' = [dispatch EXCEPT ![s].state = "orphaned", ![s].claim = "none"]
        /\ worker' = Outdated(s)
     \/ /\ dispatch[s].state \in Outcomes
        /\ UNCHANGED <<dispatch, worker>>
  /\ orphaning' = orphaning \ {s}
  /\ UNCHANGED <<host, record, owner, leases, expiring, offline>>

\* The worker running the sweep stops between two of its transactions.
AbandonSweep ==
  /\ expiring # {} \/ offline # {} \/ orphaning # {}
  /\ expiring' = {}
  /\ offline' = {}
  /\ orphaning' = {}
  /\ UNCHANGED <<hostVars, slot, dispatch, record, owner, worker, leases>>

-------------------------------------------------------------------------------
HostStep ==
  \/ \E h \in Hosts : RegisterHost(h) \/ HeartbeatHost(h) \/ DrainHost(h) \/ HostFoundLate(h)
  \/ RecalculateHostCounters

DispatcherStep ==
  \E s \in Slots :
    \/ \E r \in Runs, h \in Hosts, scope \in Scopes : TryReserveSlot(s, r, h, scope)
    \/ CreateDispatch(s) \/ MarkDispatchSent(s) \/ ConfirmDispatchAccepted(s)
    \/ MarkDispatchSubmitUnknown(s) \/ MarkDispatchTerminal(s) \/ ReleaseReservation(s)
    \/ RenewReservation(s) \/ MarkDispatchLeaseLost(s) \/ SlotLeaseExpires(s)

EventStep ==
  \E s \in Slots :
    \/ AppendRunEventAndAdvanceCursor(s)
    \/ \E outcome \in Reported : ConvergeTerminal(s, outcome)

RecoveryStep ==
  \/ \E w \in Workers :
       \/ \E s \in Slots : ListDispatchRecoveryCandidate(w, s)
       \/ AcquireRecoveryLease(w) \/ ClaimDispatchRecovery(w)
       \/ \E state \in {"recovering", "accepted"} : AdvanceDispatchRecovery(w, state)
       \/ RecoverDispatchAccepted(w)
       \/ \E outcome \in {"orphaned", "rejected"} : FinalizeClaimedDispatch(w, outcome)
       \/ AbandonRecovery(w)
  \/ \E s \in Slots : RecoveryClaimLapses(s)

SweepStep ==
  \/ SelectExpiredReservations
  \/ ListOfflineHosts
  \/ ListActiveDispatchesByHost
  \/ \E s \in Slots : ExpireReservation(s) \/ FinalizeOfflineDispatch(s)
  \/ AbandonSweep

Next == HostStep \/ DispatcherStep \/ EventStep \/ RecoveryStep \/ SweepStep

Spec == Init /\ [][Next]_vars

-------------------------------------------------------------------------------
(* Properties *)

\* A Host's counters, which admission trusts, are the number of its reserved
\* and of its accepted Slots, in total and per scope, whatever order
\* acceptance, release, expiry, recovery and convergence come in.
CountersMatch ==
  \A h \in Hosts, d \in Dims :
    /\ reserved[h][d] = Cardinality(Counted(h, {"reserved"}, d))
    /\ active[h][d] = Cardinality(Counted(h, {"accepted"}, d))

\* A Host is never given more Runs than its limits, in total and per scope.
HostWithinLimits ==
  \A h \in Hosts, d \in Dims :
    Cardinality(Counted(h, ActiveSlot, d)) <= host[h].max[d]

\* The Dispatch of an accepted Slot is never taken back to before acceptance
\* by its dispatcher, so acceptance moves the counters once.
AcceptedOnce ==
  \A s \in Slots : slot[s].state = "accepted" => dispatch[s].state \notin {"none"} \cup PreAccept

\* A Run record ends after its reservation gave up its Slot: the ended Run
\* occupies no Host.
ConvergedRunHoldsNoSlot ==
  \A r \in Runs : record[r].status \in Outcomes =>
    \E s \in Slots : record[r].slot = s /\ slot[s].state \in ClosedSlot

\* A Slot once released or expired is never used again: no late acceptance,
\* renewal, second release or recovery changes its row.
ClosedSlotIsFinal ==
  [][\A s \in Slots : slot[s].state \in ClosedSlot => slot'[s] = slot[s]]_vars

\* A terminal Dispatch no recovery claim is live on never changes state.
UnclaimedTerminalIsFinal ==
  [][\A s \in Slots : dispatch[s].state \in Outcomes /\ dispatch[s].claim # "live" =>
       dispatch'[s].state = dispatch[s].state /\ dispatch'[s].claim # "live"]_vars

\* The outcome of a Run is recorded once: a terminal Run record is never
\* reopened, given another outcome or bound to another reservation.
ConvergedRecordIsFinal ==
  [][\A r \in Runs : record[r].status \in Outcomes => record'[r] = record[r]]_vars

\* A recovery claim is only ever succeeded by one with a newer fencing token.
RecoveryFenceIsNewest ==
  [][\A s \in Slots :
       /\ dispatch'[s].fence >= dispatch[s].fence
       /\ dispatch'[s].by # dispatch[s].by => dispatch'[s].fence > dispatch[s].fence]_vars

\* "A terminal state is converged to only once" (README.md:397): a terminal
\* Dispatch never changes state.
TerminalDispatchIsFinal ==
  [][\A s \in Slots : dispatch[s].state \in Outcomes => dispatch'[s].state = dispatch[s].state]_vars

\* The pool of places that limits and Slots stand for.
Limit == [h \in Hosts |-> host[h].max]

PlaceOf(state) ==
  IF state = "none" THEN "unused" ELSE IF state \in ActiveSlot THEN "held" ELSE "closed"

Place ==
  [s \in Slots |-> [state |-> PlaceOf(slot[s].state), run |-> slot[s].run, host |-> slot[s].host,
                    scope |-> slot[s].scope]]

Pool == INSTANCE SlotPool WITH limit <- Limit, place <- Place

\* Counters that are read, moved and recounted by many transactions, Slots that
\* are accepted, released, expired and converged by rivals, and limits that a
\* restarted Host registers anew, do only what a pool does that counts its Slots:
\* a Run takes one Slot at a time, on a Host with room, and gives it back once.
ImplementsSlotPool == Pool!Spec
===============================================================================
