--------------------------- MODULE CapacityAdmission ---------------------------
(***************************************************************************)
(* Capacity reservations, and the actors that keep them: the dispatch      *)
(* attempts that reserve capacity for a Run and turn it into accepted      *)
(* capacity, the Hosts that run what was submitted, the event worker that  *)
(* converges a finished Run, and the recovery worker whose Reconcile loop  *)
(* orphans lost Dispatches and gives their capacity back.                  *)
(*                                                                         *)
(* It follows the PostgreSQL path of RuntimeCapacityAdmissionService.      *)
(* Each statement or transaction is one step; the acceptance transaction   *)
(* is two, since time passes between its expiry check and its commit.      *)
(*                                                                         *)
(* Abstractions.                                                           *)
(*  - A Run requests one unit of every capacity key it uses, as the        *)
(*    dispatcher's provider does, under one capacity snapshot.             *)
(*  - A reservation row is named by its Run and the version it was         *)
(*    inserted with, which is what its id is a hash of.                    *)
(*  - A Dispatch is named by the attempt that created it and is bound to   *)
(*    the reservation of that attempt.  Its Slot, Session and locks, which *)
(*    RuntimeHostSlots and other modules are about, may refuse an attempt  *)
(*    at any point before acceptance.                                      *)
(*  - Time: a reservation lapses, a Dispatch outlives the recovery         *)
(*    deferral and a Host goes offline or returns at any moment.           *)
(*  - Session admissions are left out: an orphaned Dispatch is looked at   *)
(*    again for its capacity alone.                                        *)
(*  - The Product projection of a lost Run always succeeds, and the plan   *)
(*    and Workspace context of a dispatched Run stay readable.             *)
(***************************************************************************)
EXTENDS Integers, FiniteSets

CONSTANTS
  Runs,             \* run_id
  Attempts,         \* executions of the dispatcher's queue task
  RunOf,            \* the Run each attempt works for
  CapacityKeys,     \* a dimension and its key: model, auth pool, tool, tenant, user
  KeysOf,           \* the capacity keys a Run uses
  Limit,            \* the limit of each capacity key
  MaxVersion,       \* bound: the versions of one Run's reservations
  MaxRestarts,      \* bound: restarts of the recovery worker
  Unreliable,       \* bound: the attempts whose Hosts may go offline
  None              \* no value

ASSUME CapacityAssumption ==
  /\ RunOf \in [Attempts -> Runs]
  /\ KeysOf \in [Runs -> SUBSET CapacityKeys]
  /\ Limit \in [CapacityKeys -> Nat \ {0}]
  /\ MaxVersion \in Nat
  /\ MaxRestarts \in Nat
  /\ Unreliable \subseteq Attempts
  /\ IsFiniteSet(Runs)
  /\ None \notin Attempts

Versions == 1 .. MaxVersion
Keys == Runs \X Versions

RowStates == {"none", "reserved", "accepted", "released", "expired"}
ActiveRow == {"reserved", "accepted"}
ActiveDispatch == {"open", "recovering", "accepted"}
DispatchStates == {"none"} \cup ActiveDispatch \cup {"orphaned", "closed"}
BeforeSubmit == {"reserved", "scheduled", "created", "authorized"}
AttemptStates == {"none", "started", "submitted", "accepting", "failing", "over"} \cup BeforeSubmit
RunStates == {"queued", "owned", "orphaned", "finished"}

VARIABLES
  row,              \* runtime_capacity_reservations
  attempt,          \* the dispatcher's local state: where it is, the version it holds
  dispatch,         \* runtime_run_dispatches
  run,              \* agent_runs: status
  hosted,           \* what the Host knows of a submitted Run
  down,             \* Dispatches whose Host is offline
  aged,             \* Dispatches older than the recovery deferral
  sweep,            \* the recovery worker's local state
  restarts          \* restarts of the recovery worker

vars == <<row, attempt, dispatch, run, hosted, down, aged, sweep, restarts>>
hostVars == <<hosted, down, aged>>
sweepVars == <<sweep, restarts>>

Resting == [phase |-> "rest", step |-> "next", todo |-> {}, at |-> None, found |-> 0, seen |-> 0]

Row == [state : RowStates, version : Nat, lapsed : BOOLEAN]
SweepState == [phase : {"rest", "offline", "orphans", "stale", "capacity"},
               step : {"next", "finalize", "claimed", "project", "lookup", "release"},
               todo : SUBSET Attempts, at : Attempts \cup {None}, found : Nat, seen : Nat]

TypeOK ==
  /\ row \in [Keys -> Row]
  /\ attempt \in [Attempts -> [pc : AttemptStates, version : Versions \cup {0}]]
  /\ dispatch \in [Attempts -> DispatchStates]
  /\ run \in [Runs -> RunStates]
  /\ hosted \in [Attempts -> {"no", "running", "finished"}]
  /\ down \in SUBSET Attempts
  /\ aged \in SUBSET Attempts
  /\ sweep \in SweepState
  /\ restarts \in Nat

Init ==
  /\ row = [k \in Keys |-> [state |-> "none", version |-> 0, lapsed |-> FALSE]]
  /\ attempt = [a \in Attempts |-> [pc |-> "none", version |-> 0]]
  /\ dispatch = [a \in Attempts |-> "none"]
  /\ run = [r \in Runs |-> "queued"]
  /\ hosted = [a \in Attempts |-> "no"]
  /\ down = {}
  /\ aged = {}
  /\ sweep = Resting
  /\ restarts = 0

-------------------------------------------------------------------------------
(* Reservation rows *)

\* The reservation an attempt made, and its Dispatch is bound to.
KeyOf(a) == <<RunOf[a], attempt[a].version>>

Active(k) == row[k].state \in ActiveRow

HoldsCapacity(a) == attempt[a].version # 0 /\ Active(KeyOf(a))

ActiveKeys(r) == {k \in Keys : k[1] = r /\ Active(k)}

\* The rows that count against a limit: accepted ones whatever the clock says,
\* reserved ones until they expire.
Counted(k) == row[k].state = "accepted" \/ (row[k].state = "reserved" /\ ~row[k].lapsed)

\* Mutant: reserved capacity only counts once it is accepted.
UsedByAccepted(c) == Cardinality({k \in Keys : c \in KeysOf[k[1]] /\ row[k].state = "accepted"})

Used(c) == Cardinality({k \in Keys : c \in KeysOf[k[1]] /\ Counted(k)})

\* Above every version of the Run's rows.
IsNextVersion(r, v) ==
  /\ \A w \in Versions : row[<<r, w>>].version < v
  /\ v = 1 \/ \E w \in Versions : row[<<r, w>>].version = v - 1

\* The acceptance transaction holds the row lock from its check to its end.
Locked(k) == \E a \in Attempts : attempt[a].pc = "accepting" /\ KeyOf(a) = k

\* A row in another state, with the next version.
Moved(k, state) == [state |-> state, version |-> row[k].version + 1, lapsed |-> row[k].lapsed]

\* A release names a version and takes the row at that version or the next,
\* which is the one acceptance moved it to.
ReleaseRow(k, version) ==
  /\ ~Locked(k)
  /\ row' = IF Active(k) /\ row[k].version \in {version, version + 1}
            THEN [row EXCEPT ![k] = Moved(k, "released")]
            ELSE row

\* The reservation a worker finds for a Run: the active one, else the latest.
Found(r, k) ==
  /\ k[1] = r
  /\ row[k].state # "none"
  /\ IF ActiveKeys(r) # {} THEN Active(k)
     ELSE \A w \in Versions : row[<<r, w>>].version <= row[k].version

\* Mutant: any reservation of the Run will do.
MatchesAnyReservation(a, k) == k[1] = RunOf[a]

\* A Dispatch settles the reservation it is bound to and no other, at the bound
\* version, accepted, or ended.
MatchesCapacityReservation(a, k) ==
  /\ k = KeyOf(a)
  /\ \/ row[k].version \in {attempt[a].version, attempt[a].version + 1}
     \/ row[k].state \in {"released", "expired"} /\ row[k].version > attempt[a].version

-------------------------------------------------------------------------------
(* The dispatcher *)

Go(a, pc) == attempt' = [attempt EXCEPT ![a].pc = pc]

\* An attempt reads that its Run is queued and works on from there; a Run that
\* is not, or whose plan no longer holds, is failed.
Start(a) ==
  /\ attempt[a].pc = "none"
  /\ \/ run[RunOf[a]] = "queued" /\ Go(a, "started")
     \/ Go(a, "failing")
  /\ UNCHANGED <<row, dispatch, run, hostVars, sweepVars>>

\* Admission: room under every limit, and no other active row of the Run,
\* expired or not (a unique index).
Reserve(a) ==
  LET r == RunOf[a] IN
  /\ attempt[a].pc = "started"
  /\ \A c \in KeysOf[r] : Used(c) + 1 <= Limit[c]
  /\ ActiveKeys(r) = {}
  /\ \E v \in Versions :
       /\ IsNextVersion(r, v)
       /\ row' = [row EXCEPT ![<<r, v>>] = [state |-> "reserved", version |-> v, lapsed |-> FALSE]]
       /\ attempt' = [attempt EXCEPT ![a] = [pc |-> "reserved", version |-> v]]
  /\ UNCHANGED <<dispatch, run, hostVars, sweepVars>>

\* The scheduler asserts the reservation before it looks for a Host.
Schedule(a) ==
  /\ attempt[a].pc = "reserved"
  /\ Counted(KeyOf(a))
  /\ Go(a, "scheduled")
  /\ UNCHANGED <<row, dispatch, run, hostVars, sweepVars>>

\* A Run has one active Dispatch (a unique index).
CreateDispatch(a) ==
  /\ attempt[a].pc = "scheduled"
  /\ \A b \in Attempts : RunOf[b] = RunOf[a] => dispatch[b] \notin ActiveDispatch
  /\ dispatch' = [dispatch EXCEPT ![a] = "open"]
  /\ Go(a, "created")
  /\ UNCHANGED <<row, run, hostVars, sweepVars>>

AuthorizeDispatchSubmit(a) ==
  /\ attempt[a].pc = "created"
  /\ run[RunOf[a]] = "queued"
  /\ dispatch[a] = "open"
  /\ run' = [run EXCEPT ![RunOf[a]] = "owned"]
  /\ Go(a, "authorized")
  /\ UNCHANGED <<row, dispatch, hostVars, sweepVars>>

\* The Dispatch is marked sent and the request leaves.  It may reach the Host
\* or not, and the answer may be lost: then the Dispatch stays open, with its
\* reservation, for recovery.
Submit(a) ==
  /\ attempt[a].pc = "authorized"
  /\ dispatch[a] = "open"
  /\ \/ /\ hosted' = [hosted EXCEPT ![a] = "running"]
        /\ Go(a, "submitted")
     \/ /\ hosted' \in {hosted, [hosted EXCEPT ![a] = "running"]}
        /\ Go(a, "over")
  /\ UNCHANGED <<row, dispatch, run, down, aged, sweepVars>>

\* The first half of the acceptance transaction: the row is locked and seen to
\* be reserved, at the version held, and unexpired.
CommitAcceptedCheck(a) ==
  /\ attempt[a].pc = "submitted"
  /\ row[KeyOf(a)].state = "reserved"
  /\ row[KeyOf(a)].version = attempt[a].version
  /\ ~row[KeyOf(a)].lapsed
  /\ ~Locked(KeyOf(a))
  /\ Go(a, "accepting")
  /\ UNCHANGED <<row, dispatch, run, hostVars, sweepVars>>

\* The second half: capacity and Dispatch are accepted together.  What the
\* dispatcher does next may still fail the Run.
Accept(a) ==
  /\ attempt[a].pc = "accepting"
  /\ dispatch[a] = "open"
  /\ row' = [row EXCEPT ![KeyOf(a)] = Moved(KeyOf(a), "accepted")]
  /\ dispatch' = [dispatch EXCEPT ![a] = "accepted"]
  /\ Go(a, "over") \/ Go(a, "failing")
  /\ UNCHANGED <<run, hostVars, sweepVars>>

\* Acceptance is refused, or its transaction rolls back: the Dispatch stays
\* with its reservation for recovery.
AcceptFails(a) ==
  /\ attempt[a].pc \in {"submitted", "accepting"}
  /\ Go(a, "over")
  /\ UNCHANGED <<row, dispatch, run, hostVars, sweepVars>>

\* Whatever fails before the request leaves gives the reservation back; the
\* attempt is retried later or the Run fails.
ReleaseBeforeAccept(a) ==
  /\ attempt[a].pc \in BeforeSubmit
  /\ ReleaseRow(KeyOf(a), attempt[a].version)
  /\ Go(a, "over") \/ Go(a, "failing")
  /\ UNCHANGED <<dispatch, run, hostVars, sweepVars>>

\* A Run fails unless it is orphaned, ended, or being aborted or finalized
\* by the Host that owns it.
FailRun(a) ==
  LET r == RunOf[a] IN
  /\ attempt[a].pc = "failing"
  /\ \/ run[r] \in {"queued", "owned"} /\ run' = [run EXCEPT ![r] = "finished"]
     \/ run[r] # "queued" /\ UNCHANGED run
  /\ Go(a, "over")
  /\ UNCHANGED <<row, dispatch, hostVars, sweepVars>>

\* The process dies, or its release does not reach the database.
Crash(a) ==
  /\ attempt[a].pc \notin {"none", "over"}
  /\ Go(a, "over")
  /\ UNCHANGED <<row, dispatch, run, hostVars, sweepVars>>

Proceed(a) ==
  \/ Reserve(a) \/ Schedule(a) \/ CreateDispatch(a)
  \/ AuthorizeDispatchSubmit(a) \/ Submit(a) \/ CommitAcceptedCheck(a)
  \/ Accept(a) \/ AcceptFails(a) \/ ReleaseBeforeAccept(a) \/ FailRun(a) \/ Crash(a)

DispatcherStep == \E a \in Attempts : Start(a) \/ Proceed(a)

-------------------------------------------------------------------------------
(* Time, Hosts and the event worker *)

Lapse(k) ==
  /\ row[k].state = "reserved"
  /\ ~row[k].lapsed
  /\ row' = [row EXCEPT ![k].lapsed = TRUE]
  /\ UNCHANGED <<attempt, dispatch, run, hostVars, sweepVars>>

Age(a) ==
  /\ dispatch[a] \in ActiveDispatch
  /\ a \notin aged
  /\ aged' = aged \cup {a}
  /\ UNCHANGED <<row, attempt, dispatch, run, hosted, down, sweepVars>>

HostGoesOffline(a) ==
  /\ a \in Unreliable
  /\ dispatch[a] \in ActiveDispatch
  /\ a \notin down
  /\ down' = down \cup {a}
  /\ UNCHANGED <<row, attempt, dispatch, run, hosted, aged, sweepVars>>

HostReturns(a) ==
  /\ a \in down
  /\ down' = down \ {a}
  /\ UNCHANGED <<row, attempt, dispatch, run, hosted, aged, sweepVars>>

HostEndsRun(a) ==
  /\ hosted[a] = "running"
  /\ hosted' = [hosted EXCEPT ![a] = "finished"]
  /\ UNCHANGED <<row, attempt, dispatch, run, down, aged, sweepVars>>

\* The lease supervisor gives up a lease, or events arrive with a gap.
LoseDispatchLease(a) ==
  /\ dispatch[a] \in {"open", "accepted"}
  /\ dispatch' = [dispatch EXCEPT ![a] = "recovering"]
  /\ UNCHANGED <<row, attempt, run, hostVars, sweepVars>>

\* Mutant: only accepted capacity is given back.
ConvergeAccepted(a) ==
  LET r == RunOf[a] IN
  /\ hosted[a] = "finished"
  /\ a \notin down
  /\ dispatch[a] \in ActiveDispatch
  /\ run[r] \in {"owned", "orphaned"}
  /\ \E k \in Keys :
       /\ Found(r, k)
       /\ MatchesCapacityReservation(a, k)
       /\ IF row[k].state = "accepted" THEN ReleaseRow(k, attempt[a].version) ELSE UNCHANGED row
  /\ dispatch' = [dispatch EXCEPT ![a] = "closed"]
  /\ run' = [run EXCEPT ![r] = "finished"]
  /\ UNCHANGED <<attempt, hostVars, sweepVars>>

\* The Host reports a terminal status: the event worker finds the Run's
\* reservation, checks that it is the one of this Dispatch, and one
\* transaction ends Run, reservation and Dispatch.
Converge(a) ==
  LET r == RunOf[a] IN
  /\ hosted[a] = "finished"
  /\ a \notin down
  /\ dispatch[a] \in ActiveDispatch
  /\ run[r] \in {"owned", "orphaned"}
  /\ \E k \in Keys :
       /\ Found(r, k)
       /\ MatchesCapacityReservation(a, k)
       /\ ReleaseRow(k, attempt[a].version)
  /\ dispatch' = [dispatch EXCEPT ![a] = "closed"]
  /\ run' = [run EXCEPT ![r] = "finished"]
  /\ UNCHANGED <<attempt, hostVars, sweepVars>>

EnvironmentStep ==
  \/ \E k \in Keys : Lapse(k)
  \/ \E a \in Attempts :
       \/ Age(a) \/ HostGoesOffline(a) \/ HostReturns(a) \/ HostEndsRun(a)
       \/ LoseDispatchLease(a) \/ Converge(a)

-------------------------------------------------------------------------------
(* The recovery worker: one Reconcile after the other.  A Reconcile goes      *)
(* through the Dispatches of offline Hosts, the orphaned Dispatches that left *)
(* capacity behind, the Dispatches due for a check, and expired capacity; an  *)
(* error in one of them ends it there.                                        *)

At(phase, step) == sweep.phase = phase /\ sweep.step = step

Enter(phase, todo) ==
  sweep' = [Resting EXCEPT !.phase = phase, !.todo = todo]

To(a, step) == sweep' = [sweep EXCEPT !.at = a, !.step = step]

\* The work on a Dispatch is over.
Done(a) == sweep' = [sweep EXCEPT !.at = None, !.step = "next", !.found = 0, !.seen = 0, !.todo = @ \ {a}]

\* An error is returned: the rest waits for the next Reconcile.
Abandon == sweep' = Resting

StartReconcile ==
  /\ At("rest", "next")
  /\ Enter("offline", {a \in down : dispatch[a] \in ActiveDispatch})
  /\ UNCHANGED <<row, attempt, dispatch, run, hostVars, restarts>>

\* Each listed Dispatch of an offline Host orphans its Run, unless the Run is
\* neither owned nor orphaned already: that is an error.
OrphanOfflineRun(a) ==
  /\ At("offline", "next")
  /\ a \in sweep.todo
  /\ IF run[RunOf[a]] \in {"owned", "orphaned"}
     THEN /\ run' = [run EXCEPT ![RunOf[a]] = "orphaned"]
          /\ To(a, "finalize")
     ELSE /\ Abandon
          /\ UNCHANGED run
  /\ UNCHANGED <<row, attempt, dispatch, hostVars, restarts>>

FinalizeOfflineDispatch(a) ==
  /\ At("offline", "finalize")
  /\ a = sweep.at
  /\ dispatch' = [dispatch EXCEPT ![a] = IF @ \in ActiveDispatch THEN "orphaned" ELSE @]
  /\ To(a, "lookup")
  /\ UNCHANGED <<row, attempt, run, hostVars, restarts>>

\* Mutant: orphaned Dispatches are not looked at again.
ListNoOrphans ==
  /\ At("offline", "next")
  /\ sweep.todo = {}
  /\ Enter("orphans", {})
  /\ UNCHANGED <<row, attempt, dispatch, run, hostVars, restarts>>

ListOrphans ==
  /\ At("offline", "next")
  /\ sweep.todo = {}
  /\ Enter("orphans", {a \in Attempts : dispatch[a] = "orphaned" /\ ActiveKeys(RunOf[a]) # {}})
  /\ UNCHANGED <<row, attempt, dispatch, run, hostVars, restarts>>

\* An active reservation of the Run that belongs to another Dispatch is an error.
RecheckOrphan(a) ==
  LET r == RunOf[a] IN
  /\ At("orphans", "next")
  /\ a \in sweep.todo
  /\ \/ ActiveKeys(r) = {} /\ Done(a)
     \/ \E k \in ActiveKeys(r) : IF MatchesCapacityReservation(a, k) THEN To(a, "project") ELSE Abandon
  /\ UNCHANGED <<row, attempt, dispatch, run, hostVars, restarts>>

ListDueDispatches ==
  /\ At("orphans", "next")
  /\ sweep.todo = {}
  /\ Enter("stale", {a \in Attempts \ down : dispatch[a] \in ActiveDispatch})
  /\ UNCHANGED <<row, attempt, dispatch, run, hostVars, restarts>>

\* A listed Dispatch is not due yet, its Host is gone or it ended meanwhile.
SkipDispatch(a) ==
  /\ At("stale", "next")
  /\ a \in sweep.todo
  /\ a \notin aged \/ a \in down \/ dispatch[a] \notin ActiveDispatch
  /\ Done(a)
  /\ UNCHANGED <<row, attempt, dispatch, run, hostVars, restarts>>

ClaimDispatch(a) ==
  /\ At("stale", "next")
  /\ a \in sweep.todo
  /\ a \notin down
  /\ dispatch[a] \in ActiveDispatch
  /\ dispatch' = [dispatch EXCEPT ![a] = "recovering"]
  /\ To(a, "claimed")
  /\ UNCHANGED <<row, attempt, run, hostVars, restarts>>

\* The Host knows the Run, or cannot be asked: the Dispatch is accepted, or
\* left to the next check.  Its reservation is left as it is.
AdvanceDispatch(a) ==
  /\ At("stale", "claimed")
  /\ a = sweep.at
  /\ a \notin aged
  /\ dispatch' \in {[dispatch EXCEPT ![a] = state] :
                      state \in {"recovering"} \cup (IF hosted[a] = "no" THEN {} ELSE {"accepted"})}
  /\ Done(a)
  /\ UNCHANGED <<row, attempt, run, hostVars, restarts>>

\* The Host does not know the Run, or the Dispatch is too old.
OrphanDispatch(a) ==
  /\ At("stale", "claimed")
  /\ a = sweep.at
  /\ a \in aged \/ hosted[a] = "no"
  /\ IF dispatch[a] = "recovering"
     THEN /\ dispatch' = [dispatch EXCEPT ![a] = "orphaned"]
          /\ To(a, "project")
     ELSE /\ dispatch' = [dispatch EXCEPT ![a] = "recovering"]
          /\ Done(a)
  /\ UNCHANGED <<row, attempt, run, hostVars, restarts>>

ProjectOrphanedRun(a) ==
  /\ sweep.step = "project"
  /\ a = sweep.at
  /\ run' = [run EXCEPT ![RunOf[a]] = IF @ \in {"queued", "owned"} THEN "orphaned" ELSE @]
  /\ To(a, "lookup")
  /\ UNCHANGED <<row, attempt, dispatch, hostVars, restarts>>

\* The reservation to give back is found by the Run and must match.
FindOrphanedCapacity(a) ==
  LET r == RunOf[a] IN
  /\ sweep.step = "lookup"
  /\ a = sweep.at
  /\ \/ ActiveKeys(r) = {} /\ Done(a)
     \/ \E k \in ActiveKeys(r) :
          IF MatchesCapacityReservation(a, k)
          THEN sweep' = [sweep EXCEPT !.step = "release", !.found = k[2], !.seen = row[k].version]
          ELSE Abandon
  /\ UNCHANGED <<row, attempt, dispatch, run, hostVars, restarts>>

ReleaseOrphanedCapacity(a) ==
  /\ sweep.step = "release"
  /\ a = sweep.at
  /\ ReleaseRow(<<RunOf[a], sweep.found>>, sweep.seen)
  /\ Done(a)
  /\ UNCHANGED <<attempt, dispatch, run, hostVars, restarts>>

EndStaleDispatches ==
  /\ At("stale", "next")
  /\ sweep.todo = {}
  /\ Enter("capacity", {})
  /\ UNCHANGED <<row, attempt, dispatch, run, hostVars, restarts>>

\* Mutant: lapsed reservations are left in a state that ends nothing.
RecoverLater ==
  /\ At("capacity", "next")
  /\ row' = [k \in Keys |->
               IF row[k].state = "reserved" /\ row[k].lapsed /\ ~Locked(k)
               THEN Moved(k, "recovering")
               ELSE row[k]]
  /\ Abandon
  /\ UNCHANGED <<attempt, dispatch, run, hostVars, restarts>>

\* Lapsed reservations expire, all but the locked ones; accepted ones never do.
Recover ==
  /\ At("capacity", "next")
  /\ row' = [k \in Keys |->
               IF row[k].state = "reserved" /\ row[k].lapsed /\ ~Locked(k)
               THEN Moved(k, "expired")
               ELSE row[k]]
  /\ Abandon
  /\ UNCHANGED <<attempt, dispatch, run, hostVars, restarts>>

ReconcileStep ==
  \/ StartReconcile \/ ListOrphans \/ ListDueDispatches \/ EndStaleDispatches \/ Recover
  \/ \E a \in Attempts :
       \/ OrphanOfflineRun(a) \/ FinalizeOfflineDispatch(a) \/ RecheckOrphan(a)
       \/ SkipDispatch(a) \/ ClaimDispatch(a) \/ AdvanceDispatch(a) \/ OrphanDispatch(a)
       \/ ProjectOrphanedRun(a) \/ FindOrphanedCapacity(a) \/ ReleaseOrphanedCapacity(a)

\* The recovery worker dies anywhere; its successor starts over.
RestartWorker ==
  /\ restarts < MaxRestarts
  /\ sweep # Resting
  /\ restarts' = restarts + 1
  /\ Abandon
  /\ UNCHANGED <<row, attempt, dispatch, run, hostVars>>

Next == DispatcherStep \/ EnvironmentStep \/ ReconcileStep \/ RestartWorker

Spec == Init /\ [][Next]_vars

(***************************************************************************)
(* The recovery loop runs again and again, and an attempt that has started *)
(* goes on or dies.  Nothing makes a Host return, a Run end, a deadline    *)
(* pass or a lost attempt be tried again.                                  *)
(***************************************************************************)
Fairness ==
  /\ WF_vars(ReconcileStep)
  /\ \A a \in Attempts : WF_vars(Proceed(a))

FairSpec == Spec /\ Fairness

-------------------------------------------------------------------------------
(* Properties *)

TimelyKeys(c) == {k \in Keys : c \in KeysOf[k[1]] /\ Active(k) /\ ~row[k].lapsed}

\* The reservations that are active and within their time never exceed a
\* limit, whatever the order in which concurrent attempts reserve, accept and
\* release and the recovery worker expires.
TimelyWithinLimit == \A c \in CapacityKeys : Cardinality(TimelyKeys(c)) <= Limit[c]

\* Once a Dispatch has converged, the reservation it is bound to is not active,
\* though acceptance, expiry and the recovery worker race with convergence.
ClosedHoldsNothing ==
  \A a \in Attempts : dispatch[a] = "closed" => ~HoldsCapacity(a)

\* An unexpired reservation ends only by a step of the attempt that made it,
\* or after that attempt's own Dispatch has ended: no retry of the Run and no
\* recovery of another Dispatch takes it away.
ReservationEndsWithItsOwner ==
  [][\A a \in Attempts :
       LET k == KeyOf(a) IN
       HoldsCapacity(a) /\ ~row[k].lapsed /\ row'[k].state \notin ActiveRow
       => attempt'[a].pc # attempt[a].pc \/ dispatch'[a] \in {"orphaned", "closed"}]_vars

\* What ends every Reconcile early: an offline Host's Dispatch whose Run is
\* neither owned nor orphaned, or an orphaned Dispatch whose Run has a
\* reservation of another attempt.
ReconcileBlocked ==
  \E a \in Attempts :
    \/ a \in down /\ dispatch[a] \in ActiveDispatch /\ run[RunOf[a]] \in {"queued", "finished"}
    \/ dispatch[a] = "orphaned" /\ ActiveKeys(RunOf[a]) \ {KeyOf(a)} # {}

\* Capacity of an orphaned Dispatch is given back, even when the worker died
\* between orphaning the Dispatch and releasing its capacity, unless one of
\* the two errors that end a Reconcile early comes first.
OrphanedCapacityIsFreed ==
  \A a \in Attempts :
    dispatch[a] = "orphaned" /\ HoldsCapacity(a) ~> ~HoldsCapacity(a) \/ ReconcileBlocked

\* As the documentation has it: reservations keep concurrent Runs from
\* overselling a capacity key.
RunningWithinLimit ==
  \A c \in CapacityKeys :
    Cardinality({a \in Attempts : hosted[a] = "running" /\ c \in KeysOf[RunOf[a]]}) <= Limit[c]

\* As the documentation has it: what an offline Host was dispatched is
\* requeued, orphaned or failed, unless the Host returns.
OfflineDispatchIsOrphaned ==
  \A a \in Attempts :
    a \in down /\ dispatch[a] \in ActiveDispatch ~> dispatch[a] \notin ActiveDispatch \/ a \notin down

===============================================================================
