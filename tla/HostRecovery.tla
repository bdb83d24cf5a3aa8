----------------------------- MODULE HostRecovery -----------------------------
(***************************************************************************)
(* How a Host comes back: the adapter process registers it, reports to the *)
(* Backend, has it attest that Backend and Gateway agree on what the Host  *)
(* still runs, and only then admits submissions.                           *)
(*                                                                         *)
(* One Host.  Its Backend row and the Slots and Dispatches bound to it     *)
(* change in transactions; the adapter's loop makes one call after the     *)
(* other, each of which may stay unanswered; submissions go through the    *)
(* same adapter to the Gateway, over a connection that may break.          *)
(*                                                                         *)
(* Abstractions: signatures, nonces, heartbeat numbers and waiting times   *)
(* are left out; a capability hash is "registered" or not; a fact is the   *)
(* Run it is about.  The Gateway lists an active Run only with a fact that *)
(* recordAuthorizedRecoveryFact has stored, which nothing in the           *)
(* repository calls: its snapshot is empty, or refused.                    *)
(***************************************************************************)
EXTENDS Integers, FiniteSets

CONSTANTS
  Jobs,             \* Runs placed on the Host
  ScopeOf,          \* the execution scope of each of them
  MaxActiveRuns,    \* local permits in all
  ScopeLimit,       \* local permits per execution scope
  MaxFaults         \* bound: restarts, losses, and other changes from outside

ASSUME HostAssumption == MaxActiveRuns \in Nat \ {0} /\ MaxFaults \in Nat

VARIABLES
  hostRow,          \* runtime_hosts
  attestations,     \* runtime_host_recovery_attestations
  slots,             \* runtime_slot_reservations bound to the Host
  dispatched,       \* runtime_run_dispatches of these
  adapter,          \* the adapter process: its loop and its admission
  permits,          \* Runs that hold a local permit
  call,             \* the submission of each Run within the adapter
  frames,           \* submissions written to the Gateway and not yet read
  replies,          \* answers of the Gateway not yet read
  execution,        \* the Gateway's durable record of each Run
  unanswered,       \* Runs whose submission failed after it was written
  faults

backendVars == <<hostRow, attestations, slots, dispatched>>
submitVars == <<permits, call, frames, replies, execution, unanswered>>
hostRecoveryVars == <<backendVars, submitVars, adapter, faults>>

NoSlot == [state |-> "none", instance |-> 0, generation |-> 0]
NoCall == [at |-> "idle", acquired |-> FALSE, replayed |-> FALSE]
NoSnapshot == [generation |-> 0, revision |-> 0, recovery |-> "pending", facts |-> {}]
Fresh(i) == [instance |-> i, step |-> "load", registered |-> FALSE, recovered |-> FALSE,
             pending |-> TRUE, blocked |-> FALSE, snapshot |-> NoSnapshot]

HostTypeOK ==
  /\ hostRow.status \in {"absent", "registering", "ready", "unhealthy", "offline", "draining"}
  /\ hostRow.recovery \in {"pending", "reconciled"}
  /\ hostRow.generation \in Nat /\ hostRow.revision \in Nat
  /\ \A a \in attestations : a.state \in {"prepared", "completed"} /\ a.facts \subseteq Jobs
  /\ \A r \in Jobs :
       /\ slots[r].state \in {"none", "reserved", "ended"}
       /\ dispatched[r] \in {"none", "active", "ended"}
       /\ call[r].at \in {"idle", "held", "written"}
       /\ execution[r] \in {"none", "active", "ended", "orphaned"}
  /\ adapter.step \in {"load", "register", "heartbeat", "snapshot", "compare", "begin", "stage",
                       "complete", "open", "closed"}
  /\ permits \subseteq Jobs /\ frames \subseteq Jobs /\ replies \subseteq Jobs
  /\ unanswered \subseteq Jobs /\ faults \in 0..MaxFaults

HostInit ==
  /\ hostRow = [instance |-> 0, generation |-> 0, revision |-> 0, status |-> "absent", recovery |-> "pending"]
  /\ attestations = {}
  /\ slots = [r \in Jobs |-> NoSlot] /\ dispatched = [r \in Jobs |-> "none"]
  /\ adapter = Fresh(1) /\ permits = {}
  /\ call = [r \in Jobs |-> NoCall] /\ frames = {} /\ replies = {}
  /\ execution = [r \in Jobs |-> "none"] /\ unanswered = {}
  /\ faults = 0

Fault == faults < MaxFaults /\ faults' = faults + 1
Goto(step) == adapter' = [adapter EXCEPT !.step = step]

-------------------------------------------------------------------------------
(* The Backend *)

\* RegisterHost: a new instance is a new generation, every registration a new
\* revision, and in production none of them is reconciled.
RegisteredRow ==
  [instance |-> adapter.instance,
   generation |-> IF hostRow.instance = adapter.instance THEN hostRow.generation ELSE hostRow.generation + 1,
   revision |-> hostRow.revision + 1, status |-> "registering", recovery |-> "pending"]

\* Mutant: any heartbeat makes the Host ready.
HeartbeatUnattested ==
  [hostRow EXCEPT !.status = IF @ \in {"registering", "unhealthy"} THEN "ready" ELSE @]

\* A heartbeat makes the Host ready only when it is reconciled.
AfterHeartbeat ==
  [hostRow EXCEPT !.status = IF @ \in {"registering", "unhealthy"} /\ hostRow.recovery = "reconciled"
                             THEN "ready" ELSE @]

Reserved == {r \in Jobs : slots[r].state = "reserved"}
Dispatched == {r \in Jobs : dispatched[r] = "active"}

\* No snapshot is taken while a Slot belongs to another instance or generation,
\* or a Dispatch has lost its Slot.
FactsAreSound ==
  /\ \A r \in Reserved : slots[r].instance = hostRow.instance /\ slots[r].generation = hostRow.generation
  /\ Dispatched \subseteq Reserved

Snapshot == [generation |-> hostRow.generation, revision |-> hostRow.revision,
             recovery |-> hostRow.recovery, facts |-> Reserved]

AwaitsAttestation == hostRow.status = "registering" /\ hostRow.recovery = "pending"

\* Placement takes only ready, reconciled Hosts.
ReserveSlot(r) ==
  /\ hostRow.status = "ready" /\ hostRow.recovery = "reconciled"
  /\ slots[r].state = "none"
  /\ slots' = [slots EXCEPT ![r] = [state |-> "reserved", instance |-> hostRow.instance,
                                  generation |-> hostRow.generation]]
  /\ UNCHANGED <<hostRow, attestations, dispatched, submitVars, adapter, faults>>

DispatchCreated(r) ==
  /\ slots[r].state = "reserved" /\ dispatched[r] = "none"
  /\ dispatched' = [dispatched EXCEPT ![r] = "active"]
  /\ UNCHANGED <<hostRow, attestations, slots, submitVars, adapter, faults>>

\* A Run converges, is swept, or is cancelled.
RunConverges(r) ==
  /\ slots[r].state = "reserved" \/ dispatched[r] = "active"
  /\ slots' = [slots EXCEPT ![r].state = "ended"]
  /\ dispatched' = [dispatched EXCEPT ![r] = "ended"]
  /\ UNCHANGED <<hostRow, attestations, submitVars, adapter, faults>>

\* A Slot that is not renewed ends before its Dispatch does.
SlotExpires(r) ==
  /\ slots[r].state = "reserved"
  /\ slots' = [slots EXCEPT ![r].state = "ended"]
  /\ UNCHANGED <<hostRow, attestations, dispatched, submitVars, adapter, faults>>

\* Late heartbeats and an operator who drains the Host.
SetHostStatus(status) ==
  /\ Fault
  /\ \/ status = "unhealthy" /\ hostRow.status \in {"registering", "ready"}
     \/ status = "offline" /\ hostRow.status \in {"registering", "ready", "unhealthy"}
     \/ status = "draining" /\ hostRow.status # "absent"
  /\ hostRow' = [hostRow EXCEPT !.status = status]
  /\ UNCHANGED <<attestations, slots, dispatched, submitVars, adapter>>

-------------------------------------------------------------------------------
(* The registration loop of the adapter *)

\* Mutant: a Host that registers anew takes its old recovery for good.
LoadKeepsRecovered(changed) ==
  /\ adapter.step = "load"
  /\ IF changed THEN Fault ELSE UNCHANGED faults
  /\ adapter' = IF changed \/ ~adapter.registered
                THEN [adapter EXCEPT !.step = "register", !.registered = FALSE, !.pending = TRUE]
                ELSE [adapter EXCEPT !.step = "heartbeat"]
  /\ UNCHANGED <<backendVars, submitVars>>

\* Admission closes before the Host is registered anew.
LoadCapabilities(changed) ==
  /\ adapter.step = "load"
  /\ IF changed THEN Fault ELSE UNCHANGED faults
  /\ adapter' = IF changed \/ ~adapter.registered
                THEN [adapter EXCEPT !.step = "register", !.registered = FALSE, !.recovered = FALSE,
                                     !.pending = TRUE]
                ELSE [adapter EXCEPT !.step = "heartbeat"]
  /\ UNCHANGED <<backendVars, submitVars>>

\* A call that is not answered may have done its work or not.
Answered(answered) == IF answered THEN UNCHANGED faults ELSE Fault

Register(answered) ==
  /\ adapter.step = "register" /\ Answered(answered)
  /\ hostRow' = RegisteredRow
  /\ adapter' = IF answered THEN [adapter EXCEPT !.registered = TRUE, !.step = "heartbeat"]
                            ELSE [adapter EXCEPT !.step = "load"]
  /\ UNCHANGED <<attestations, slots, dispatched, submitVars>>

\* A lost answer leaves the registration as it is: the next heartbeat has a
\* higher number.
HeartbeatHost(answered) ==
  /\ adapter.step = "heartbeat" /\ Answered(answered)
  /\ hostRow' = AfterHeartbeat
  /\ Goto(IF answered /\ ~adapter.recovered THEN "snapshot" ELSE "load")
  /\ UNCHANGED <<attestations, slots, dispatched, submitVars>>

ReregistrationRequired ==
  /\ adapter.step = "heartbeat" /\ Fault
  /\ adapter' = [adapter EXCEPT !.registered = FALSE, !.recovered = FALSE, !.step = "load"]
  /\ UNCHANGED <<backendVars, submitVars>>

\* A rejected identity closes admission for good and ends the loop.
IdentityRejected ==
  /\ adapter.step \in {"register", "heartbeat"} /\ Fault
  /\ adapter' = [adapter EXCEPT !.blocked = TRUE, !.pending = TRUE, !.step = "closed"]
  /\ UNCHANGED <<backendVars, submitVars>>

\* The process is gone, with its permits and its calls; what it wrote last, the
\* Gateway has read or never will.
AdapterRestarts(instance) ==
  /\ Fault
  /\ instance \in {adapter.instance, adapter.instance + 1}
  /\ adapter' = Fresh(instance)
  /\ permits' = {} /\ frames' = {} /\ replies' = {}
  /\ call' = [r \in Jobs |-> NoCall]
  /\ unanswered' = {}
  /\ UNCHANGED <<backendVars, execution>>

-------------------------------------------------------------------------------
(* RecoverHostAdmission *)

\* HoldForRecovery, then the Backend's snapshot.
TakeSnapshot ==
  /\ adapter.step = "snapshot"
  /\ adapter' = IF hostRow.instance = adapter.instance /\ FactsAreSound
                THEN [adapter EXCEPT !.pending = TRUE, !.snapshot = Snapshot, !.step = "compare"]
                ELSE [adapter EXCEPT !.pending = TRUE, !.step = "load"]
  /\ UNCHANGED <<backendVars, submitVars, faults>>

\* An active Run without a stored fact is uncertainty, not an empty Host.
GatewayIsEmpty == \A r \in Jobs : execution[r] # "active"

\* Mutant: the answer of the Gateway is not looked at.
CompareBackendOnly ==
  /\ adapter.step = "compare"
  /\ Goto(IF adapter.snapshot.recovery = "pending" /\ adapter.snapshot.facts = {} THEN "begin" ELSE "load")
  /\ UNCHANGED <<backendVars, submitVars, faults>>

\* The Gateway always answers "pending".
CompareWithGateway ==
  /\ adapter.step = "compare"
  /\ Goto(IF GatewayIsEmpty /\ adapter.snapshot.recovery = "pending" /\ adapter.snapshot.facts = {}
          THEN "begin" ELSE "load")
  /\ UNCHANGED <<backendVars, submitVars, faults>>

Asserted(a) ==
  /\ a.generation = adapter.snapshot.generation /\ a.revision = adapter.snapshot.revision
  /\ a.facts = adapter.snapshot.facts

Prepared == [generation |-> adapter.snapshot.generation, revision |-> adapter.snapshot.revision,
             facts |-> adapter.snapshot.facts, state |-> "prepared"]

\* What was asserted must still hold; an attestation of it is made once.
Begin(answered) ==
  LET agreed == hostRow.instance = adapter.instance /\ FactsAreSound /\ Snapshot = adapter.snapshot
      known == {a \in attestations : Asserted(a)}
      made == agreed /\ known = {} /\ AwaitsAttestation
      usable == made \/ (agreed /\ \E a \in known : a.state = "prepared") IN
  /\ adapter.step = "begin" /\ Answered(answered)
  /\ attestations' = IF made THEN attestations \cup {Prepared} ELSE attestations
  /\ Goto(IF answered /\ usable THEN "stage" ELSE "load")
  /\ UNCHANGED <<hostRow, slots, dispatched, submitVars>>

InScope(rs, s) == {r \in rs : ScopeOf[r] = s}
WithinLimits(rs) ==
  /\ Cardinality(rs) <= MaxActiveRuns
  /\ \A r \in rs : Cardinality(InScope(rs, ScopeOf[r])) <= ScopeLimit

\* Only a closed Host without permits takes over those of the attested Runs.
StageRecoveryPermits ==
  LET facts == adapter.snapshot.facts
      fits == ~adapter.blocked /\ adapter.pending /\ permits = {} /\ WithinLimits(facts) IN
  /\ adapter.step = "stage"
  /\ permits' = IF fits THEN facts ELSE permits
  /\ Goto(IF fits THEN "complete" ELSE "load")
  /\ UNCHANGED <<backendVars, call, frames, replies, execution, unanswered, faults>>

\* The facts are compared once more in the transaction that makes the Host
\* ready.  Whatever goes wrong discards the staged permits.
Complete(answered) ==
  LET mine == {a \in attestations : Asserted(a)}
      same == /\ hostRow.instance = adapter.instance /\ FactsAreSound /\ mine # {}
              /\ Snapshot.generation = adapter.snapshot.generation
              /\ Snapshot.revision = adapter.snapshot.revision
              /\ Snapshot.facts = adapter.snapshot.facts
      completed == {[a EXCEPT !.state = "completed"] : a \in mine}
      again == same /\ completed = mine /\ hostRow.status = "ready" /\ hostRow.recovery = "reconciled"
      done == same /\ completed # mine /\ AwaitsAttestation IN
  /\ adapter.step = "complete" /\ Answered(answered)
  /\ IF done
     THEN /\ hostRow' = [hostRow EXCEPT !.status = "ready", !.recovery = "reconciled"]
          /\ attestations' = (attestations \ mine) \cup completed
     ELSE UNCHANGED <<hostRow, attestations>>
  /\ IF answered /\ (done \/ again)
     THEN Goto("open") /\ UNCHANGED permits
     ELSE Goto("load") /\ permits' = {}
  /\ UNCHANGED <<slots, dispatched, call, frames, replies, execution, unanswered>>

MarkReadyAfterRecovery ==
  /\ adapter.step = "open"
  /\ adapter' = [adapter EXCEPT !.pending = FALSE, !.recovered = TRUE, !.step = "load"]
  /\ UNCHANGED <<backendVars, submitVars, faults>>

-------------------------------------------------------------------------------
(* Submissions through the adapter *)

IdleCall(r) == [call EXCEPT ![r] = NoCall]
ReleasedBy(r) == IF call[r].acquired THEN permits \ {r} ELSE permits

\* A Run that has a permit already needs no second one.
Acquire(r) ==
  /\ dispatched[r] = "active" /\ call[r].at = "idle"
  /\ ~adapter.blocked /\ ~adapter.pending
  /\ r \in permits \/ WithinLimits(permits \cup {r})
  /\ permits' = permits \cup {r}
  /\ call' = [call EXCEPT ![r] = [at |-> "held", acquired |-> r \notin permits, replayed |-> FALSE]]
  /\ UNCHANGED <<backendVars, frames, replies, execution, unanswered, adapter, faults>>

MaterializationFails(r) ==
  /\ call[r].at = "held" /\ ~call[r].replayed /\ Fault
  /\ permits' = ReleasedBy(r) /\ call' = IdleCall(r)
  /\ UNCHANGED <<backendVars, frames, replies, execution, unanswered, adapter>>

\* Marked as written before the write: it may have reached the Gateway.
WriteRequest(r) ==
  /\ call[r].at = "held"
  /\ call' = [call EXCEPT ![r].at = "written"]
  /\ frames' = frames \cup {r}
  /\ UNCHANGED <<backendVars, permits, replies, execution, unanswered, adapter, faults>>

\* The Gateway starts a Run once; a replay gets the answer of the first time.
GatewayAccepts(r) ==
  /\ r \in frames
  /\ frames' = frames \ {r} /\ replies' = replies \cup {r}
  /\ execution' = IF execution[r] = "none" THEN [execution EXCEPT ![r] = "active"] ELSE execution
  /\ UNCHANGED <<backendVars, permits, call, unanswered, adapter, faults>>

\* The answer to a Run that the Gateway lost in a restart is not "accepted".
SubmitAnswered(r) ==
  /\ r \in replies /\ call[r].at = "written"
  /\ call' = IdleCall(r) /\ replies' = replies \ {r}
  /\ permits' = IF execution[r] = "orphaned" THEN permits \ {r} ELSE permits
  /\ UNCHANGED <<backendVars, frames, execution, unanswered, adapter, faults>>

\* A written submission is replayed once over a new connection.
Replayed(r) == call[r].at = "written" /\ call[r].replayed

Disconnected ==
  /\ frames' = {} /\ replies' = {}
  /\ call' = [r \in Jobs |-> CASE Replayed(r) -> NoCall
                               [] call[r].at = "written" /\ ~call[r].replayed ->
                                    [call[r] EXCEPT !.at = "held", !.replayed = TRUE]
                               [] OTHER -> call[r]]
  /\ permits' = {r \in permits : ~(Replayed(r) /\ call[r].acquired)}
  /\ unanswered' = unanswered \cup {r \in Jobs : Replayed(r)}

ConnectionLost ==
  /\ Fault /\ Disconnected
  /\ UNCHANGED <<backendVars, execution, adapter>>

\* What runs at a Gateway that restarts is lost, and said to be.
GatewayRestarts ==
  /\ Fault /\ Disconnected
  /\ execution' = [r \in Jobs |-> IF execution[r] = "active" THEN "orphaned" ELSE execution[r]]
  /\ UNCHANGED <<backendVars, adapter>>

\* The permit goes although the Gateway may have the submission, or get it yet.
SubmitTimesOut(r) ==
  /\ call[r].at = "written" /\ Fault
  /\ permits' = ReleasedBy(r) /\ call' = IdleCall(r)
  /\ unanswered' = unanswered \cup {r}
  /\ UNCHANGED <<backendVars, frames, replies, execution, adapter>>

ExecutionEnds(r) ==
  /\ execution[r] = "active"
  /\ execution' = [execution EXCEPT ![r] = "ended"]
  /\ UNCHANGED <<backendVars, permits, call, frames, replies, unanswered, adapter, faults>>

\* A status that passes through the adapter frees the permit; "orphaned" is not
\* among the statuses it takes for final.
StatusPolled(r) ==
  /\ dispatched[r] = "active" /\ execution[r] = "ended" /\ r \in permits
  /\ permits' = permits \ {r}
  /\ UNCHANGED <<backendVars, call, frames, replies, execution, unanswered, adapter, faults>>

-------------------------------------------------------------------------------
LoopStep ==
  \/ LoadCapabilities(FALSE) \/ Register(TRUE) \/ HeartbeatHost(TRUE)
  \/ TakeSnapshot \/ CompareWithGateway \/ Begin(TRUE) \/ StageRecoveryPermits \/ Complete(TRUE)
  \/ MarkReadyAfterRecovery

LoopFault ==
  \/ LoadCapabilities(TRUE) \/ Register(FALSE) \/ HeartbeatHost(FALSE) \/ Begin(FALSE) \/ Complete(FALSE)
  \/ ReregistrationRequired \/ IdentityRejected
  \/ \E i \in {adapter.instance, adapter.instance + 1} : AdapterRestarts(i)

BackendStep ==
  \/ \E r \in Jobs : ReserveSlot(r) \/ DispatchCreated(r) \/ RunConverges(r) \/ SlotExpires(r)
  \/ \E s \in {"unhealthy", "offline", "draining"} : SetHostStatus(s)

SubmitStep ==
  \/ \E r \in Jobs : \/ Acquire(r) \/ MaterializationFails(r) \/ WriteRequest(r) \/ GatewayAccepts(r)
                     \/ SubmitAnswered(r) \/ SubmitTimesOut(r) \/ ExecutionEnds(r) \/ StatusPolled(r)
  \/ ConnectionLost \/ GatewayRestarts

HostRecoveryNext == LoopStep \/ LoopFault \/ BackendStep \/ SubmitStep

-------------------------------------------------------------------------------
(* Properties *)

\* The Backend takes a Host for ready only when the registration it has now was
\* attested, whatever heartbeats, restarts and late calls came in between.
ReadyHostIsAttested ==
  hostRow.status = "ready" =>
    \E a \in attestations : /\ a.state = "completed"
                            /\ a.generation = hostRow.generation /\ a.revision = hostRow.revision

\* A Host that admits Runs counts every Run its Gateway executes, also after a
\* restart of the adapter, but for those whose submission ended unanswered.
OpenHostKnowsItsRuns ==
  ~adapter.pending =>
    \A r \in Jobs : execution[r] = "active" => r \in permits \cup unanswered

\* What a restart must not break, on either side: the Backend's view of the Host and
\* the count the adapter keeps.
AttestationHolds == ReadyHostIsAttested /\ OpenHostKnowsItsRuns

\* A Host with nothing left to do is not left waiting for its attestation for
\* ever: it is attested, or the Backend gives it another status.
NothingLeft == Reserved = {} /\ Dispatched = {} /\ GatewayIsEmpty /\ permits = {}
AttestationIsNotAwaitedForEver ==
  []<>~(AwaitsAttestation /\ NothingLeft /\ ~adapter.blocked)
===============================================================================
