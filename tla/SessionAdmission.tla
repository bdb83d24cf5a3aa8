---------------------------- MODULE SessionAdmission ----------------------------
(***************************************************************************)
(* The admission of Runs to one product session: the distributed lock and  *)
(* the durable admission row an attempt takes before its Slot, the binding *)
(* of Slot, Host and Dispatch to it, the heartbeat that renews all three   *)
(* leases, the outbox through which the lock is given back, and the        *)
(* reconciling rounds that finish what an owner left behind.               *)
(*                                                                         *)
(* It follows the PostgreSQL path of RuntimeSessionAdmissionService, of    *)
(* RuntimeScheduler and RuntimeLeaseSupervisor, and the dispatcher and the *)
(* recovery worker that call them.  Each transaction is one step.          *)
(*                                                                         *)
(* Abstractions.                                                           *)
(*  - One thread, profile and context generation with two session          *)
(*    generations, one Host.  Every generation has a lock of its own.      *)
(*  - An attempt is known by the fencing token of its session lock: row f, *)
(*    Slot f and Dispatch f belong to the attempt with token f.  The run   *)
(*    lock and the Slot it pays for lapse together.                        *)
(*  - Capacity is CapacityAdmission's, a Dispatch's own recovery claim and *)
(*    the Host's counters are RuntimeHostSlots', the product's effects are *)
(*    TerminalConvergence's.                                               *)
(*  - A renewal that succeeds changes nothing: time is the leases, and a   *)
(*    lease somebody renews lapses only by one of MaxFaults faults.        *)
(*  - The lock manager is not in src.  It grants growing tokens, and an    *)
(*    operation of a holder that is no longer the holder is refused.       *)
(***************************************************************************)
EXTENDS Integers, FiniteSets

CONSTANTS
  Runs,             \* run_id, all of one product session
  Procs,            \* worker processes: dispatchers, event and recovery workers
  MaxFence,         \* bound: session locks granted
  MaxFaults,        \* bound: the faults of a behaviour
  None              \* no value

ASSUME SessionAssumption ==
  /\ MaxFence \in Nat \ {0}
  /\ MaxFaults \in Nat
  /\ None \notin Runs \cup Procs

Gens == 1..2
Fences == 1..MaxFence

Held == {"acquired", "reservation_bound", "dispatch_bound", "recovering"}
Bound == Held \ {"recovering"}
Terminal == {"released", "expired"}
PreAccept == {"created", "sent", "submit_unknown"}
ActiveDispatch == PreAccept \cup {"accepted", "recovering"}

VARIABLES
  fence,            \* the last fencing token granted
  lock,             \* the session lock of each generation: its holder's token or 0
  admission,        \* runtime_session_admissions
  slot,             \* runtime_slot_reservations, with the run lock behind each
  dispatch,         \* runtime_run_dispatches
  exec,             \* what the Host does for each attempt
  generic,          \* runtime_session_admission_cleanup_outbox
  terminal,         \* runtime_session_terminal_cleanup_outbox
  binding,          \* the active generation and the Host of each
  offline,          \* whether the Host counts as offline
  handles,          \* the lease handles that their owners have in memory
  tracked,          \* the attempts a heartbeat renews
  attempt,          \* the dispatcher at work on each Run
  drain,            \* the cleanup record each process is working on
  round,            \* the reconciling round
  faults            \* how many faults there were

leaseVars == <<fence, lock, admission, slot>>
outbox == <<generic, terminal, drain>>
hostVars == <<dispatch, exec, binding, offline>>
memory == <<handles, tracked>>
vars == <<leaseVars, outbox, hostVars, memory, attempt, round, faults>>

NoAdmission == [state |-> "none", run |-> None, by |-> None, gen |-> 1, live |-> FALSE]
NoRecord == [status |-> "none", by |-> None]
NoWork == [kind |-> "none", f |-> 0, freed |-> FALSE, due |-> FALSE]
AtRest == [pc |-> "rest", by |-> None, off |-> FALSE, todo |-> {}, busy |-> {}, f |-> 0]

AttemptPCs == {"queued", "lock", "insert", "slot", "assertSlot", "bindSlot", "bindHost", "create",
               "assertDispatch", "bindDispatch", "track", "send", "submit", "accept", "unknown",
               "unslot", "unsession", "over"}
RoundPCs == {"rest", "sweep", "sweepFree", "orphans", "orphansFree", "rotate", "stale", "staleFree",
             "recover", "backfill", "drain"}
Records == [status : {"none", "pending", "running", "lapsed", "succeeded"}, by : Procs \cup {None}]

TypeOK ==
  /\ fence \in 0..MaxFence
  /\ lock \in [Gens -> 0..MaxFence]
  /\ admission \in [Fences -> [state : {"none"} \cup Held \cup Terminal, run : Runs \cup {None},
                               by : Procs \cup {None}, gen : Gens, live : BOOLEAN]]
  /\ slot \in [Fences -> [state : {"none", "reserved", "accepted", "closed"}, live : BOOLEAN]]
  /\ dispatch \in [Fences -> {"none", "orphaned", "ended"} \cup ActiveDispatch]
  /\ exec \in [Fences -> {"none", "running", "ended"}]
  /\ generic \in [Fences -> Records]
  /\ terminal \in [Fences -> Records]
  /\ binding \in [gen : Gens, host : [Gens -> BOOLEAN]]
  /\ offline \in BOOLEAN
  /\ handles \subseteq Fences
  /\ tracked \subseteq Fences
  /\ attempt \in [Runs -> [pc : AttemptPCs, by : Procs \cup {None}, f : 0..MaxFence, gen : Gens,
                          status : {"queued", "dispatched", "orphaned"}]]
  /\ drain \in [Procs -> [kind : {"none", "generic", "terminal"}, f : 0..MaxFence,
                        freed : BOOLEAN, due : BOOLEAN]]
  /\ round \in [pc : RoundPCs, by : Procs \cup {None}, off : BOOLEAN, todo : SUBSET Fences,
                busy : SUBSET Fences, f : 0..MaxFence]
  /\ \A p \in Procs : drain[p].kind = "none" <=> drain[p].f = 0
  /\ round.pc = "rest" <=> round.by = None
  /\ round.pc \in {"sweepFree", "orphansFree", "staleFree"} <=> round.f # 0
  /\ faults \in 0..MaxFaults

\* Runs planned for the first generation.  An admission that an older version
\* released without a cleanup record may still hold the lock.
Init ==
  /\ \E old \in {0, 1}, r \in Runs, p \in Procs :
       /\ fence = old
       /\ lock = [g \in Gens |-> IF g = 1 THEN old ELSE 0]
       /\ admission = [f \in Fences |->
            IF f = old THEN [NoAdmission EXCEPT !.state = "released", !.run = r, !.by = p] ELSE NoAdmission]
  /\ slot = [f \in Fences |-> [state |-> "none", live |-> FALSE]]
  /\ dispatch = [f \in Fences |-> "none"]
  /\ exec = [f \in Fences |-> "none"]
  /\ generic = [f \in Fences |-> NoRecord]
  /\ terminal = [f \in Fences |-> NoRecord]
  /\ binding = [gen |-> 1, host |-> [g \in Gens |-> FALSE]]
  /\ offline = FALSE
  /\ handles = {}
  /\ tracked = {}
  /\ attempt = [r \in Runs |-> [pc |-> "queued", by |-> None, f |-> 0, gen |-> 1, status |-> "queued"]]
  /\ drain = [p \in Procs |-> NoWork]
  /\ round = AtRest
  /\ faults = 0

Fault == faults < MaxFaults /\ faults' = faults + 1

-------------------------------------------------------------------------------
(* Admission *)

\* A handle is good for as long as both the lock and the row say so.
AssertActive(f) ==
  /\ lock[admission[f].gen] = f
  /\ admission[f].state \in Bound
  /\ admission[f].live

HasHandle(p, f) == f \in handles /\ admission[f].by = p

\* One admission of a generation is neither released nor expired.
SessionBusy(g) == \E f \in Fences : admission[f].gen = g /\ admission[f].state \in Held

\* The record that the lock of f is still to be given back.  A record that is
\* there, here or behind a convergence, is left alone.
WithCleanup(f) ==
  IF terminal[f].status = "none" /\ generic[f].status = "none"
  THEN [generic EXCEPT ![f].status = "pending"]
  ELSE generic

\* The row is released together with its cleanup record, if its owner still
\* holds the lock; a row that ended before gets its record only.  A refused
\* release leaves everything to recovery.  The caller then drains one record.
Release(f, p) ==
  LET ended == admission[f].state \in Terminal IN
  \/ /\ ended \/ lock[admission[f].gen] = f
     /\ admission' = IF ended THEN admission ELSE [admission EXCEPT ![f].state = "released"]
     /\ generic' = WithCleanup(f)
     /\ drain' = [drain EXCEPT ![p].due = TRUE]
     /\ UNCHANGED terminal
  \/ /\ ~ ended /\ lock[admission[f].gen] # f
     /\ UNCHANGED <<admission, outbox>>

Goes(r, pc) == attempt' = [attempt EXCEPT ![r].pc = pc]

\* A dispatcher takes a queued Run: its session must still be of the generation
\* the plan was frozen with.
Take(r, p) ==
  /\ attempt[r].pc = "queued"
  /\ attempt' = [attempt EXCEPT ![r].pc = IF attempt[r].status = "queued" /\ binding.gen = attempt[r].gen
                                      THEN "lock" ELSE "over",
                                ![r].by = p, ![r].f = 0]
  /\ UNCHANGED <<leaseVars, outbox, hostVars, memory, round, faults>>

AcquireLock(r) ==
  LET g == attempt[r].gen IN
  /\ attempt[r].pc = "lock"
  /\ \/ /\ lock[g] = 0 /\ fence < MaxFence
        /\ fence' = fence + 1
        /\ lock' = [lock EXCEPT ![g] = fence + 1]
        /\ attempt' = [attempt EXCEPT ![r].pc = "insert", ![r].f = fence + 1]
     \/ /\ lock[g] # 0 \/ fence = MaxFence
        /\ Goes(r, "queued")
        /\ UNCHANGED <<fence, lock>>
  /\ UNCHANGED <<admission, slot, outbox, hostVars, memory, round, faults>>

\* The row, under the lock of the active binding; else the lock is given back.
InsertAdmission(r) ==
  LET f == attempt[r].f  g == attempt[r].gen IN
  /\ attempt[r].pc = "insert"
  /\ \/ /\ binding.gen = g /\ ~ SessionBusy(g)
        /\ admission' = [admission EXCEPT ![f] = [state |-> "acquired", run |-> r, by |-> attempt[r].by,
                                               gen |-> g, live |-> TRUE]]
        /\ handles' = handles \cup {f}
        /\ Goes(r, "slot")
        /\ UNCHANGED lock
     \/ /\ binding.gen # g \/ SessionBusy(g)
        /\ lock' = [lock EXCEPT ![g] = IF @ = f THEN 0 ELSE @]
        /\ Goes(r, "queued")
        /\ UNCHANGED <<admission, handles>>
  /\ UNCHANGED <<fence, slot, outbox, hostVars, tracked, round, faults>>

\* The run lock and a Slot of the Host, or neither.
TryReserveSlot(r) ==
  /\ attempt[r].pc = "slot"
  /\ \/ /\ ~ offline
        /\ slot' = [slot EXCEPT ![attempt[r].f] = [state |-> "reserved", live |-> TRUE]]
        /\ Goes(r, "assertSlot")
        /\ UNCHANGED faults
     \/ /\ Goes(r, "unsession")
        /\ UNCHANGED slot
        /\ IF offline THEN UNCHANGED faults ELSE Fault
  /\ UNCHANGED <<fence, lock, admission, outbox, hostVars, memory, round>>

\* Binding checks the handle and then updates the row, in two steps.
AssertBeforeBind(r) ==
  /\ \/ /\ attempt[r].pc = "assertSlot"
        /\ Goes(r, IF AssertActive(attempt[r].f) THEN "bindSlot" ELSE "unslot")
     \/ /\ attempt[r].pc = "assertDispatch"
        /\ Goes(r, IF AssertActive(attempt[r].f) /\ slot[attempt[r].f].live THEN "bindDispatch" ELSE "unslot")
  /\ UNCHANGED <<leaseVars, outbox, hostVars, memory, round, faults>>

\* The update looks at the state and the identity of the row, not its expiry.
Bind(r, from, to, next) ==
  LET f == attempt[r].f IN
  IF admission[f].state \in from
  THEN admission' = [admission EXCEPT ![f].state = to] /\ Goes(r, next)
  ELSE Goes(r, "unslot") /\ UNCHANGED admission

BindReservation(r) ==
  /\ attempt[r].pc = "bindSlot"
  /\ Bind(r, {"acquired", "reservation_bound"}, "reservation_bound", "bindHost")
  /\ UNCHANGED <<fence, lock, slot, outbox, hostVars, memory, round, faults>>

BindProductSessionHost(r) ==
  LET g == attempt[r].gen IN
  /\ attempt[r].pc = "bindHost"
  /\ IF binding.gen = g
     THEN binding' = [binding EXCEPT !.host[g] = TRUE] /\ Goes(r, "create")
     ELSE Goes(r, "unslot") /\ UNCHANGED binding
  /\ UNCHANGED <<leaseVars, outbox, dispatch, exec, offline, memory, round, faults>>

CreateDispatch(r) ==
  LET f == attempt[r].f IN
  /\ attempt[r].pc = "create"
  /\ IF slot[f] = [state |-> "reserved", live |-> TRUE]
     THEN dispatch' = [dispatch EXCEPT ![f] = "created"] /\ Goes(r, "assertDispatch")
     ELSE Goes(r, "unslot") /\ UNCHANGED dispatch
  /\ UNCHANGED <<leaseVars, outbox, exec, binding, offline, memory, round, faults>>

BindDispatch(r) ==
  /\ attempt[r].pc = "bindDispatch"
  /\ Bind(r, {"reservation_bound", "dispatch_bound"}, "dispatch_bound", "track")
  /\ UNCHANGED <<fence, lock, slot, outbox, hostVars, memory, round, faults>>

Track(r) ==
  /\ attempt[r].pc = "track"
  /\ tracked' = tracked \cup {attempt[r].f}
  /\ Goes(r, "send")
  /\ UNCHANGED <<leaseVars, outbox, hostVars, handles, round, faults>>

\* The Run is authorised for its submission, and the Dispatch marked as sent.
MarkDispatchSent(r) ==
  LET f == attempt[r].f IN
  /\ attempt[r].pc = "send"
  /\ IF attempt[r].status = "queued" /\ slot[f] = [state |-> "reserved", live |-> TRUE] /\ dispatch[f] = "created"
     THEN /\ dispatch' = [dispatch EXCEPT ![f] = "sent"]
          /\ attempt' = [attempt EXCEPT ![r].pc = "submit", ![r].status = "dispatched"]
     ELSE Goes(r, "unslot") /\ UNCHANGED dispatch
  /\ UNCHANGED <<leaseVars, outbox, exec, binding, offline, memory, round, faults>>

\* The submission reaches the Host or not, and its answer arrives or not.
Submit(r) ==
  LET f == attempt[r].f IN
  /\ attempt[r].pc = "submit"
  /\ \/ exec' = [exec EXCEPT ![f] = "running"] /\ Goes(r, "accept") /\ UNCHANGED faults
     \/ Goes(r, "unknown") /\ Fault /\ exec' \in {exec, [exec EXCEPT ![f] = "running"]}
  /\ UNCHANGED <<leaseVars, outbox, dispatch, binding, offline, memory, round>>

\* Slot and Dispatch are accepted together, or the submission counts as unknown.
Accept(r) ==
  LET f == attempt[r].f IN
  /\ attempt[r].pc \in {"accept", "unknown"}
  /\ \/ /\ attempt[r].pc = "accept"
        /\ slot[f] = [state |-> "reserved", live |-> TRUE] /\ dispatch[f] = "sent"
        /\ slot' = [slot EXCEPT ![f].state = "accepted"]
        /\ dispatch' = [dispatch EXCEPT ![f] = "accepted"]
     \/ /\ attempt[r].pc = "accept" => slot[f] # [state |-> "reserved", live |-> TRUE] \/ dispatch[f] # "sent"
        /\ dispatch' = [dispatch EXCEPT ![f] = IF @ = "sent" THEN "submit_unknown" ELSE @]
        /\ UNCHANGED slot
  /\ Goes(r, "over")
  /\ UNCHANGED <<fence, lock, admission, outbox, exec, binding, offline, memory, round, faults>>

\* An attempt that failed before its submission gives back its heartbeat, its
\* Slot and its session; a Dispatch it created stays as it is.  The Run is tried
\* again or has failed, by the reason of the failure.
ReleaseReservation(r) ==
  LET f == attempt[r].f IN
  /\ attempt[r].pc = "unslot"
  /\ tracked' = tracked \ {f}
  /\ slot' = [slot EXCEPT ![f] = [state |-> "closed", live |-> FALSE]]
  /\ Goes(r, "unsession")
  /\ UNCHANGED <<fence, lock, admission, outbox, hostVars, handles, round, faults>>

ReleaseSession(r) ==
  /\ attempt[r].pc = "unsession"
  /\ Release(attempt[r].f, attempt[r].by)
  /\ \E next \in {"queued", "over"} : Goes(r, next)
  /\ UNCHANGED <<fence, lock, slot, hostVars, memory, round, faults>>

-------------------------------------------------------------------------------
(* Leases and their heartbeat *)

\* The next renewal of f would succeed.
Renewable(f) ==
  /\ lock[admission[f].gen] = f
  /\ admission[f].state \in Bound /\ admission[f].live
  /\ slot[f].state \in {"reserved", "accepted"} /\ slot[f].live

\* Somebody is about to use or to renew the leases of f.
Owned(f) ==
  \/ f \in tracked
  \/ \E r \in Runs : attempt[r].f = f /\ attempt[r].pc \notin {"queued", "over"}

CostsFault(owned) == IF owned THEN Fault ELSE UNCHANGED faults

LockLapses(g) ==
  /\ lock[g] # 0
  /\ lock' = [lock EXCEPT ![g] = 0]
  /\ CostsFault(Owned(lock[g]))
  /\ UNCHANGED <<fence, admission, slot, outbox, hostVars, memory, attempt, round>>

AdmissionLapses(f) ==
  /\ admission[f].state \in Held /\ admission[f].live
  /\ admission' = [admission EXCEPT ![f].live = FALSE]
  /\ CostsFault(Owned(f) /\ admission[f].state \in Bound)
  /\ UNCHANGED <<fence, lock, slot, outbox, hostVars, memory, attempt, round>>

SlotLapses(f) ==
  /\ slot[f].live
  /\ slot' = [slot EXCEPT ![f].live = FALSE]
  /\ CostsFault(Owned(f))
  /\ UNCHANGED <<fence, lock, admission, outbox, hostVars, memory, attempt, round>>

\* A renewal that fails ends the ownership.  If the Dispatch ended, the session
\* and the run lock are given back; if not, the Dispatch is left to recovery.
HeartbeatFails(f) ==
  /\ f \in tracked
  /\ ~ Renewable(f)
  /\ tracked' = tracked \ {f}
  /\ IF dispatch[f] \in ActiveDispatch
     THEN /\ dispatch' = [dispatch EXCEPT ![f] = "recovering"]
          /\ UNCHANGED <<admission, outbox>>
     ELSE Release(f, admission[f].by) /\ UNCHANGED dispatch
  /\ UNCHANGED <<fence, lock, slot, exec, binding, offline, handles, attempt, round, faults>>

-------------------------------------------------------------------------------
(* The Host, and the end of a Run it executed *)

HostFinishes(f) ==
  /\ exec[f] = "running"
  /\ exec' = [exec EXCEPT ![f] = "ended"]
  /\ UNCHANGED <<leaseVars, outbox, dispatch, binding, offline, memory, attempt, round, faults>>

\* The Host is not heard of any more: it lost its Runs, or only its network.
HostGoesOffline ==
  /\ ~ offline
  /\ Fault
  /\ offline' = TRUE
  /\ \/ exec' = [f \in Fences |-> IF exec[f] = "running" THEN "none" ELSE exec[f]]
     \/ UNCHANGED exec
  /\ UNCHANGED <<leaseVars, outbox, dispatch, binding, memory, attempt, round>>

HostReturns ==
  /\ offline
  /\ offline' = FALSE
  /\ UNCHANGED <<leaseVars, outbox, dispatch, exec, binding, memory, attempt, round, faults>>

\* The last transaction of a convergence.  It needs the handle of the Run, if
\* this process has it and it is good, or an admission that ended on its own.
ConvergeSession(p, f) ==
  LET r == admission[f].run IN
  /\ exec[f] = "ended"
  /\ dispatch[f] \in ActiveDispatch
  /\ terminal[f].status = "none"
  /\ \/ /\ HasHandle(p, f) /\ AssertActive(f)
        /\ admission' = [admission EXCEPT ![f].state = "released"]
     \/ /\ ~ (HasHandle(p, f) /\ AssertActive(f))
        /\ \A o \in Fences : o > f => admission[o].run # r
        /\ admission[f].state \in Terminal
        /\ UNCHANGED admission
  /\ terminal' = [terminal EXCEPT ![f] = [status |-> "pending", by |-> None]]
  /\ dispatch' = [dispatch EXCEPT ![f] = "ended"]
  /\ slot' = [slot EXCEPT ![f] = [state |-> "closed", live |-> FALSE]]
  /\ UNCHANGED <<fence, lock, generic, drain, exec, binding, offline, memory, attempt, round, faults>>

-------------------------------------------------------------------------------
(* Giving the lock back *)

Claimable(box, f) == box[f].status \in {"pending", "lapsed"} /\ admission[f].state \in Terminal
Draining(p) == drain[p].due \/ (round.pc = "drain" /\ round.by = p)

\* One process claims a record that waits or whose claimant went silent.
ClaimCleanup(p, f) ==
  /\ Draining(p) /\ drain[p].kind = "none"
  /\ \/ /\ Claimable(generic, f)
        /\ generic' = [generic EXCEPT ![f] = [status |-> "running", by |-> p]]
        /\ drain' = [drain EXCEPT ![p] = [kind |-> "generic", f |-> f, freed |-> FALSE, due |-> FALSE]]
        /\ UNCHANGED terminal
     \/ /\ Claimable(terminal, f) /\ ~ drain[p].due
        /\ terminal' = [terminal EXCEPT ![f] = [status |-> "running", by |-> p]]
        /\ drain' = [drain EXCEPT ![p] = [kind |-> "terminal", f |-> f, freed |-> FALSE, due |-> FALSE]]
        /\ UNCHANGED generic
  /\ UNCHANGED <<leaseVars, hostVars, memory, attempt, round, faults>>

NothingToClaim(p) ==
  /\ drain[p].due /\ drain[p].kind = "none"
  /\ \A f \in Fences : ~ Claimable(generic, f)
  /\ drain' = [drain EXCEPT ![p].due = FALSE]
  /\ UNCHANGED <<leaseVars, generic, terminal, hostVars, memory, attempt, round, faults>>

\* The proof names the whole identity of the lease, so the lock of a successor
\* stays; that the lease is gone already is a success as well.
ReleaseLeaseByProof(p) ==
  LET f == drain[p].f IN
  /\ drain[p].kind # "none" /\ ~ drain[p].freed
  /\ lock' = [lock EXCEPT ![admission[f].gen] = IF @ = f THEN 0 ELSE @]
  /\ drain' = [drain EXCEPT ![p].freed = TRUE]
  /\ UNCHANGED <<fence, admission, slot, generic, terminal, hostVars, memory, attempt, round, faults>>

\* The record of the claim is finished if the claim still stands.
Settled(box, p, status) ==
  LET f == drain[p].f IN
  IF box[f] = [status |-> "running", by |-> p]
  THEN [box EXCEPT ![f] = [status |-> status, by |-> None]]
  ELSE box

SettleCleanup(p, status) ==
  /\ generic' = IF drain[p].kind = "generic" THEN Settled(generic, p, status) ELSE generic
  /\ terminal' = IF drain[p].kind = "terminal" THEN Settled(terminal, p, status) ELSE terminal
  /\ drain' = [drain EXCEPT ![p] = [NoWork EXCEPT !.due = drain[p].due]]

\* Mutant: a record is finished before its lock is given back.
CompleteUnreleased(p) ==
  /\ drain[p].kind # "none"
  /\ SettleCleanup(p, "succeeded")
  /\ UNCHANGED <<leaseVars, hostVars, memory, attempt, round, faults>>

\* A claim that was lost ends the round.  The code drops the handle as well: it
\* is of an admission that ended, which no use of a handle accepts, and is left.
CompleteCleanup(p) ==
  LET f == drain[p].f
      box == IF drain[p].kind = "generic" THEN generic ELSE terminal
      stands == box[f] = [status |-> "running", by |-> p] IN
  /\ drain[p].freed
  /\ SettleCleanup(p, "succeeded")
  /\ round' = IF ~ stands /\ round.pc = "drain" /\ round.by = p THEN AtRest ELSE round
  /\ UNCHANGED <<leaseVars, hostVars, memory, attempt, faults>>

\* The lock manager cannot be reached: the record waits for its next attempt.
RetryCleanup(p) ==
  /\ drain[p].kind # "none" /\ ~ drain[p].freed
  /\ Fault
  /\ SettleCleanup(p, "pending")
  /\ UNCHANGED <<leaseVars, hostVars, memory, attempt, round>>

WorksOn(kind, f) == \E p \in Procs : drain[p].kind = kind /\ drain[p].f = f

ClaimLapses(f) ==
  /\ \/ /\ generic[f].status = "running"
        /\ generic' = [generic EXCEPT ![f].status = "lapsed"]
        /\ CostsFault(WorksOn("generic", f))
        /\ UNCHANGED terminal
     \/ /\ terminal[f].status = "running"
        /\ terminal' = [terminal EXCEPT ![f].status = "lapsed"]
        /\ CostsFault(WorksOn("terminal", f))
        /\ UNCHANGED generic
  /\ UNCHANGED <<leaseVars, drain, hostVars, memory, attempt, round>>

-------------------------------------------------------------------------------
(* The reconciling round *)

\* Rounds exclude each other by a lock of their own.  A round begins with the
\* health of the Host, the Slots that ran out before a submission, and the
\* Dispatches of an offline Host.
RoundBegins(p) ==
  /\ round.pc = "rest"
  /\ slot' = [f \in Fences |->
       IF slot[f].state = "reserved" /\ ~ slot[f].live /\ dispatch[f] \notin ActiveDispatch \ {"created"}
       THEN [slot[f] EXCEPT !.state = "closed"] ELSE slot[f]]
  /\ round' = [AtRest EXCEPT !.pc = "sweep", !.by = p, !.off = offline,
                 !.todo = IF offline THEN {f \in Fences : dispatch[f] \in ActiveDispatch} ELSE {}]
  /\ UNCHANGED <<fence, lock, admission, outbox, hostVars, memory, attempt, faults>>

\* The Run is orphaned, and with it the Dispatch, unless it ended before, and
\* its Slot.
Orphan(f) ==
  /\ attempt' = [attempt EXCEPT ![admission[f].run].status = "orphaned"]
  /\ dispatch' = IF dispatch[f] \in ActiveDispatch THEN [dispatch EXCEPT ![f] = "orphaned"] ELSE dispatch
  /\ slot' = [slot EXCEPT ![f] = [state |-> "closed", live |-> FALSE]]

\* The Run of a Dispatch that was not submitted is still queued, which the sweep
\* does not expect: the round ends there.
SweepOrphans(f) ==
  /\ round.pc = "sweep" /\ f \in round.todo
  /\ IF attempt[admission[f].run].status = "queued"
     THEN round' = AtRest /\ UNCHANGED <<dispatch, slot, attempt>>
     ELSE Orphan(f) /\ round' = [round EXCEPT !.pc = "sweepFree", !.f = f]
  /\ UNCHANGED <<fence, lock, admission, outbox, exec, binding, offline, memory, faults>>

\* A Dispatch whose Slot lease lapsed is probed.  The Host does not know it, or
\* it is too old: it is orphaned, whether it runs or not.
OrphanStalled(f) ==
  /\ round.pc = "stale" /\ f \in round.todo
  /\ IF dispatch[f] \in ActiveDispatch
     THEN Orphan(f) /\ round' = [round EXCEPT !.pc = "staleFree", !.f = f]
     ELSE round' = [round EXCEPT !.todo = @ \ {f}] /\ UNCHANGED <<dispatch, slot, attempt>>
  /\ UNCHANGED <<fence, lock, admission, outbox, exec, binding, offline, memory, faults>>

\* Or it is left to its Host for another round.
DeferStalled(f) ==
  /\ round.pc = "stale" /\ f \in round.todo
  /\ exec[f] # "none"
  /\ round' = [round EXCEPT !.todo = @ \ {f}]
  /\ UNCHANGED <<leaseVars, outbox, hostVars, memory, attempt, faults>>

\* A Dispatch that an earlier round orphaned, with its admission still held.
ReconcileOrphan(f) ==
  /\ round.pc = "orphans" /\ f \in round.todo
  /\ round' = [round EXCEPT !.pc = "orphansFree", !.f = f]
  /\ UNCHANGED <<leaseVars, outbox, hostVars, memory, attempt, faults>>

Freeing == {"sweepFree", "orphansFree", "staleFree"}
\* Mutant: a session is freed again and again.
AfterFree(pc) == pc

After(pc) == CASE pc = "sweepFree" -> "sweep" [] pc = "orphansFree" -> "orphans" [] OTHER -> "stale"

\* The round would release the session of an orphaned Dispatch by a handle, but
\* the recovery worker has a scheduler of its own, with no handles at all
\* (runtime_recovery_worker.go:53-55), and an absent handle is passed over: the
\* session is left to its expiry.  The capacity of a later attempt ends the round.
ReleaseOrphanedAdmission ==
  LET run == attempt[admission[round.f].run]
      retried == /\ run.f # round.f
                 /\ run.pc \in {"queued", "over"} => run.f # 0 /\ slot[run.f].state \in {"reserved", "accepted"}
  IN
  /\ round.pc \in Freeing
  /\ round' = IF retried THEN AtRest
              ELSE [round EXCEPT !.pc = After(round.pc), !.todo = @ \ {round.f}, !.f = 0]
  /\ UNCHANGED <<leaseVars, outbox, hostVars, memory, attempt, faults>>

\* The sessions bound to the offline Host go on in a new generation, which has
\* no Host yet.  There are two generations here.
Rotatable == round.off /\ binding.gen + 1 \in Gens /\ binding.host[binding.gen]

RotateProductSessions ==
  /\ round.pc = "rotate" /\ Rotatable
  /\ binding' = [binding EXCEPT !.gen = @ + 1, !.host[binding.gen] = FALSE]
  /\ UNCHANGED <<leaseVars, outbox, dispatch, exec, offline, memory, attempt, round, faults>>

Lapsed(f) == admission[f].state \in Held /\ ~ admission[f].live

\* Mutant: the Slot of an admission is not looked at.
BusyDispatch(f) == dispatch[f] \in {"accepted", "recovering"}

\* An admission that ran out is kept while its Dispatch or its Slot is active.
Busy(f) == dispatch[f] \in ActiveDispatch \/ slot[f].state \in {"reserved", "accepted"}

\* What was read when the stage began decides: the row is kept for another
\* thirty seconds, or ends with its cleanup record.
RecoverAdmission(f) ==
  /\ round.pc = "recover" /\ f \in round.todo
  /\ round' = [round EXCEPT !.todo = @ \ {f}, !.busy = @ \ {f}]
  /\ \/ /\ Lapsed(f) /\ f \in round.busy
        /\ admission' = [admission EXCEPT ![f].state = "recovering", ![f].live = TRUE]
        /\ UNCHANGED generic
     \/ /\ Lapsed(f) /\ f \notin round.busy
        /\ admission' = [admission EXCEPT ![f].state = "expired"]
        /\ generic' = WithCleanup(f)
     \/ /\ ~ Lapsed(f)
        /\ UNCHANGED <<admission, generic>>
  /\ UNCHANGED <<fence, lock, slot, terminal, drain, hostVars, memory, attempt, faults>>

Unrecorded(f) ==
  admission[f].state \in Terminal /\ generic[f].status = "none" /\ terminal[f].status = "none"

\* An admission that ended without a record gets one.
BackfillCleanup(f) ==
  /\ round.pc = "backfill" /\ Unrecorded(f)
  /\ generic' = WithCleanup(f)
  /\ UNCHANGED <<leaseVars, terminal, drain, hostVars, memory, attempt, round, faults>>

\* What the next stage of the round works on, read when the stage begins.
Stage(pc, todo, busy) == round' = [round EXCEPT !.pc = pc, !.todo = todo, !.busy = busy]

NextStage ==
  /\ round.todo = {}
  /\ \/ round.pc = "sweep" /\
          Stage("orphans", {f \in Fences : dispatch[f] = "orphaned" /\ admission[f].state \in Held}, {})
     \/ round.pc = "orphans" /\ Stage("rotate", {}, {})
     \/ round.pc = "rotate" /\ ~ Rotatable /\
          Stage("stale", IF round.off THEN {}
                         ELSE {f \in Fences : dispatch[f] \in ActiveDispatch /\ ~ slot[f].live}, {})
     \/ round.pc = "stale" /\
          Stage("recover", {f \in Fences : Lapsed(f)}, {f \in Fences : Lapsed(f) /\ Busy(f)})
     \/ round.pc = "recover" /\ Stage("backfill", {}, {})
     \/ round.pc = "backfill" /\ (\A f \in Fences : ~ Unrecorded(f)) /\ Stage("drain", {}, {})
  /\ UNCHANGED <<leaseVars, outbox, hostVars, memory, attempt, faults>>

RoundEnds ==
  /\ round.pc = "drain" /\ drain[round.by].kind = "none"
  /\ \A f \in Fences : ~ Claimable(generic, f) /\ ~ Claimable(terminal, f)
  /\ round' = AtRest
  /\ UNCHANGED <<leaseVars, outbox, hostVars, memory, attempt, faults>>

\* A process loses what it has in memory.  Its queue item comes again: before
\* the submission was authorised it is dispatched anew, after that it is not.
ProcessCrashes(p) ==
  /\ Fault
  /\ handles' = {f \in handles : admission[f].by # p}
  /\ tracked' = {f \in tracked : admission[f].by # p}
  /\ attempt' = [r \in Runs |->
       IF attempt[r].by # p \/ attempt[r].pc \in {"queued", "over"} THEN attempt[r]
       ELSE [attempt[r] EXCEPT !.pc = IF @ \in {"submit", "accept", "unknown"} THEN "over" ELSE "queued"]]
  /\ drain' = [drain EXCEPT ![p] = NoWork]
  /\ round' = IF round.by = p THEN AtRest ELSE round
  /\ UNCHANGED <<leaseVars, generic, terminal, hostVars>>

-------------------------------------------------------------------------------
DispatcherStep(r) ==
  \/ AcquireLock(r) \/ InsertAdmission(r) \/ TryReserveSlot(r) \/ AssertBeforeBind(r)
  \/ BindReservation(r) \/ BindProductSessionHost(r) \/ CreateDispatch(r) \/ BindDispatch(r)
  \/ Track(r) \/ MarkDispatchSent(r) \/ Submit(r) \/ Accept(r)
  \/ ReleaseReservation(r) \/ ReleaseSession(r)

LeaseStep ==
  \/ \E g \in Gens : LockLapses(g)
  \/ \E f \in Fences : AdmissionLapses(f) \/ SlotLapses(f) \/ HeartbeatFails(f) \/ ClaimLapses(f)

HostStep ==
  \/ \E f \in Fences : HostFinishes(f)
  \/ HostGoesOffline \/ HostReturns

CleanupStep(p) ==
  \/ \E f \in Fences : ClaimCleanup(p, f)
  \/ NothingToClaim(p) \/ ReleaseLeaseByProof(p) \/ CompleteCleanup(p)

RoundStep ==
  \/ \E f \in Fences :
       \/ SweepOrphans(f) \/ OrphanStalled(f) \/ DeferStalled(f) \/ ReconcileOrphan(f)
       \/ RecoverAdmission(f) \/ BackfillCleanup(f)
  \/ ReleaseOrphanedAdmission \/ RotateProductSessions \/ NextStage \/ RoundEnds

Next ==
  \/ \E r \in Runs : DispatcherStep(r) \/ \E p \in Procs : Take(r, p)
  \/ LeaseStep \/ HostStep \/ RoundStep
  \/ \E p \in Procs :
       \/ CleanupStep(p) \/ RetryCleanup(p) \/ RoundBegins(p) \/ ProcessCrashes(p)
       \/ \E f \in Fences : ConvergeSession(p, f)

Spec == Init /\ [][Next]_vars

-------------------------------------------------------------------------------
(* Properties *)

\* While a Host executes a Run whose Dispatch is open, the Run's admission to
\* the session is held, so that no other Run is admitted: whatever lease lapsed
\* and whoever crashed (runtime_session_admission.go:1299-1350).
SessionHeldWhileRunning ==
  \A f \in Fences : exec[f] = "running" /\ dispatch[f] \in ActiveDispatch => admission[f].state \in Held

\* A session lock whose admission ended is recorded to be given back until it
\* is gone: no crash between the transaction and the lock manager loses it.
LockOfEndedAdmissionIsRecorded ==
  \A f \in Fences : admission[f].state \in Terminal /\ lock[admission[f].gen] = f =>
    Unrecorded(f) \/ \E box \in {generic, terminal} : box[f].status \in {"pending", "running", "lapsed"}

\* What is certain of the parts: dispatchers, heartbeats, rounds and drains go
\* on, a lease nobody renews runs out, and an offline Host returns.
Fairness ==
  /\ \A r \in Runs : WF_vars(DispatcherStep(r))
  /\ \A g \in Gens : WF_vars(LockLapses(g) /\ UNCHANGED faults)
  /\ \A f \in Fences :
       /\ WF_vars(AdmissionLapses(f) /\ UNCHANGED faults)
       /\ WF_vars(SlotLapses(f) /\ UNCHANGED faults)
       /\ WF_vars(HeartbeatFails(f))
       /\ WF_vars(ClaimLapses(f) /\ UNCHANGED faults)
  /\ WF_vars(HostReturns)
  /\ WF_vars(RoundStep)
  /\ \A p \in Procs : SF_vars(RoundBegins(p)) /\ WF_vars(CleanupStep(p))
  \* A Host ends what it executes, and a round puts no Dispatch off for ever: ten
  \* minutes after it was created it is orphaned, also when its Host knows it.
  /\ \A f \in Fences : WF_vars(HostFinishes(f)) /\ SF_vars(OrphanStalled(f))

FairSpec == Spec /\ Fairness

\* "After a Worker restarts it goes on pulling events from the last committed
\* cursor; after a Host went offline [...] recovery decides whether to queue again,
\* mark as orphaned or fail" (README.md:411): as long as no Host is offline, a Run
\* that its Host brought to an end gets to where an event worker may converge it,
\* also when the worker that admitted it restarted.
RestartedWorkerConverges ==
  [] ~ offline =>
    \A f \in Fences :
      exec[f] = "ended" /\ dispatch[f] \in ActiveDispatch /\ f \notin handles ~>
        dispatch[f] = "ended" \/ \E p \in Procs : ENABLED ConvergeSession(p, f)
===============================================================================
