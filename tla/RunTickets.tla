------------------------------- MODULE RunTickets -------------------------------
(***************************************************************************)
(* The one-time use of a run ticket on a Runtime Host.  Adapter processes  *)
(* share a state directory: a record file for each ticket identifier that  *)
(* was consumed, and a lock file.  A ticket that is consumed pays for one  *)
(* materialised workspace of its Run.                                      *)
(*                                                                         *)
(* One ticket is followed: its record, the lock, the workspace directory.  *)
(* A call of Materialize is an attempt.  It reads the clock three times,   *)
(* and time, other attempts and crashes come between any two steps.        *)
(*                                                                         *)
(* Abstractions: the claims of a ticket fit the manifest or do not; of the *)
(* files of the manifest one comes from an object store by way of a cache, *)
(* and the others are written or fail; time is whether the ticket has      *)
(* expired and whether the lock file has become stale.                     *)
(***************************************************************************)
EXTENDS FiniteSets, Integers

CONSTANTS
  Attempts,         \* calls of Materialize that carry the ticket
  Adapters,         \* the adapter processes of the Host
  AdapterOf,        \* the process that runs an attempt
  Nobody            \* no holder

ASSUME TicketAssumption ==
  /\ AdapterOf \in [Attempts -> Adapters]
  /\ Nobody \notin Attempts

VARIABLES
  expired,          \* the ticket's time is over
  record,           \* the record of the ticket: not there, torn, written, durable
  lockFile,         \* .consume.lock, by the attempt that created it
  lockStale,        \* it is older than the lock's time to live
  mutex,            \* of each process: the attempt inside Consume
  serving,          \* the processes that run
  cached,           \* the Host's copy of an object the manifest refers to
  workspace,        \* the final directory of the Run: not there, whole, altered
  attempt,          \* program counter, and whether the time read last was late
  timely            \* attempts that had consumed the ticket before it expired

ticketVars == <<expired, record, lockFile, lockStale, mutex, serving, cached, workspace, attempt, timely>>

Steps == {"off", "verified", "consuming", "waiting", "locking", "stale", "locked", "purged", "created", "written",
          "releasing", "refused", "consumed", "fetching", "resolved", "built", "done", "failed"}

TicketTypeOK ==
  /\ expired \in BOOLEAN /\ lockStale \in BOOLEAN
  /\ record \in {"none", "torn", "written", "durable"}
  /\ lockFile \in Attempts \cup {Nobody}
  /\ mutex \in [Adapters -> Attempts \cup {Nobody}]
  /\ serving \subseteq Adapters
  /\ cached \in {"none", "fresh", "valid", "torn"}
  /\ workspace \in {"none", "whole", "altered"}
  /\ attempt \in [Attempts -> [pc : Steps, late : BOOLEAN]]
  /\ timely \subseteq Attempts

TicketInit ==
  /\ expired = FALSE /\ record = "none"
  /\ lockFile = Nobody /\ lockStale = FALSE
  /\ mutex = [p \in Adapters |-> Nobody]
  /\ serving = {} /\ cached = "none" /\ workspace = "none"
  /\ attempt = [a \in Attempts |-> [pc |-> "off", late |-> FALSE]]
  /\ timely = {}

-------------------------------------------------------------------------------
(* Steps of an attempt *)

At(a, pc) == AdapterOf[a] \in serving /\ attempt[a].pc = pc
Goes(a, pc) == attempt' = [attempt EXCEPT ![a].pc = pc]
LeaveStore == UNCHANGED <<record, lockFile, lockStale, mutex, timely>>
LeaveHost == UNCHANGED <<expired, serving, cached, workspace>>

\* The time is read, the claims are compared with the manifest and the Host.
VerifyRunTicket(a) ==
  /\ At(a, "off")
  /\ \E fits \in BOOLEAN :
       attempt' = [attempt EXCEPT ![a] =
         [pc |-> IF fits /\ ~expired THEN "verified" ELSE "failed", late |-> expired]]
  /\ LeaveStore /\ LeaveHost

\* A whole workspace with the marker of this manifest, which expires with the
\* ticket, serves again; anything else at its place is an error.
ExistingMaterializedWorkspace(a) ==
  /\ At(a, "verified")
  /\ Goes(a, CASE workspace = "none" -> "consuming"
               [] workspace = "whole" -> "done"
               [] workspace = "altered" -> "failed")
  /\ LeaveStore /\ LeaveHost

\* Consume looks at the clock, and at the directory, before it waits.
ConsumeBegins(a) ==
  /\ At(a, "consuming")
  /\ (~expired /\ Goes(a, "waiting")) \/ Goes(a, "failed")
  /\ LeaveStore /\ LeaveHost

\* One attempt of a process at a time.
EnterMutex(a) ==
  /\ At(a, "waiting") /\ mutex[AdapterOf[a]] = Nobody
  /\ mutex' = [mutex EXCEPT ![AdapterOf[a]] = a]
  /\ Goes(a, "locking")
  /\ UNCHANGED <<record, lockFile, lockStale, timely>> /\ LeaveHost

LeaveMutex(a) == mutex' = [mutex EXCEPT ![AdapterOf[a]] = Nobody]

\* The lock file is created, unless there is one.
AcquireConsumeLock(a) ==
  /\ At(a, "locking") /\ lockFile = Nobody
  /\ lockFile' = a /\ lockStale' = FALSE
  /\ Goes(a, "locked")
  /\ UNCHANGED <<record, mutex, timely>> /\ LeaveHost

\* A stale one is removed, whoever created it; between the look and the removal it
\* may have become the fresh lock of another attempt.
FindStaleLock(a) ==
  /\ At(a, "locking") /\ lockStale
  /\ Goes(a, "stale")
  /\ LeaveStore /\ LeaveHost

RemoveStaleLock(a) ==
  /\ At(a, "stale")
  /\ lockFile' = Nobody /\ lockStale' = FALSE
  /\ Goes(a, "locking")
  /\ UNCHANGED <<record, mutex, timely>> /\ LeaveHost

\* The wait ends after five seconds, or the directory fails.
LockUnavailable(a) ==
  /\ At(a, "locking") /\ lockFile # Nobody
  /\ LeaveMutex(a) /\ Goes(a, "failed")
  /\ UNCHANGED <<record, lockFile, lockStale, timely>> /\ LeaveHost

\* What was created but could not be synced is removed again.
LockNotSynced(a) ==
  /\ At(a, "locked")
  /\ lockFile' = Nobody /\ lockStale' = FALSE
  /\ LeaveMutex(a) /\ Goes(a, "failed")
  /\ UNCHANGED <<record, timely>> /\ LeaveHost

\* The clock is read again and records that have expired are removed, up to a
\* limit that may not reach the one of this ticket.  One that cannot be read is an
\* error of the store.
PurgeExpired(a) ==
  /\ At(a, "locked")
  /\ \E reached \in BOOLEAN :
       /\ record' = IF reached /\ expired /\ record # "torn" THEN "none" ELSE record
       /\ attempt' = [attempt EXCEPT ![a] =
            [pc |-> IF reached /\ record = "torn" THEN "refused" ELSE "purged", late |-> expired]]
  /\ UNCHANGED <<lockFile, lockStale, mutex, timely>> /\ LeaveHost

\* Mutant: the record of another attempt is opened and overwritten.
CreateOrOpenRecord(a) ==
  /\ At(a, "purged")
  /\ record' = "torn" /\ Goes(a, "created")
  /\ UNCHANGED <<lockFile, lockStale, mutex, timely>> /\ LeaveHost

\* Creation is exclusive.
CreateRecord(a) ==
  /\ At(a, "purged") /\ record = "none"
  /\ record' = "torn" /\ Goes(a, "created")
  /\ UNCHANGED <<lockFile, lockStale, mutex, timely>> /\ LeaveHost

\* A record that is there refuses the ticket, unless it has expired at the time
\* read: then it goes and the creation is tried again.
FindRecord(a) ==
  /\ At(a, "purged") /\ record # "none"
  /\ IF attempt[a].late /\ record # "torn"
     THEN record' = "none" /\ UNCHANGED attempt
     ELSE Goes(a, "refused") /\ UNCHANGED record
  /\ UNCHANGED <<lockFile, lockStale, mutex, timely>> /\ LeaveHost

\* Content and file are synced; a failure removes whatever is at the path.
WriteRecord(a) ==
  /\ At(a, "created")
  /\ \/ record' = (IF record = "torn" THEN "written" ELSE record) /\ Goes(a, "written")
     \/ record' = "none" /\ Goes(a, "refused")
  /\ UNCHANGED <<lockFile, lockStale, mutex, timely>> /\ LeaveHost

SyncDirectory(a) ==
  /\ At(a, "written")
  /\ \/ /\ record' = (IF record = "written" THEN "durable" ELSE record)
        /\ timely' = (IF expired THEN timely ELSE timely \cup {a})
        /\ Goes(a, "releasing")
     \/ record' = "none" /\ Goes(a, "refused") /\ UNCHANGED timely
  /\ UNCHANGED <<lockFile, lockStale, mutex>> /\ LeaveHost

\* The lock file goes, whoever created it.
ReleaseConsumeLock(a) ==
  /\ At(a, "releasing") \/ At(a, "refused")
  /\ lockFile' = Nobody /\ lockStale' = FALSE
  /\ LeaveMutex(a)
  /\ Goes(a, IF attempt[a].pc = "releasing" THEN "consumed" ELSE "failed")
  /\ UNCHANGED <<record, timely>> /\ LeaveHost

\* An object in the cache is used if it has its digest, and is never replaced if it
\* has not.
ReadCachedObject(a) ==
  /\ At(a, "consumed")
  /\ Goes(a, CASE cached \in {"fresh", "valid"} -> "resolved"
               [] cached = "none" -> "fetching"
               [] cached = "torn" -> "failed")
  /\ LeaveStore /\ LeaveHost

\* What was fetched and has the digest is renamed into the cache, over what another
\* attempt put there, and is not synced.
FetchRemoteObject(a) ==
  /\ At(a, "fetching")
  /\ \/ cached' = "fresh" /\ Goes(a, "resolved")
     \/ Goes(a, "failed") /\ UNCHANGED cached
  /\ LeaveStore /\ UNCHANGED <<expired, serving, workspace>>

\* The files are written into a directory of the attempt's own.
BuildWorkspace(a) ==
  /\ At(a, "resolved")
  /\ Goes(a, "built") \/ Goes(a, "failed")
  /\ LeaveStore /\ LeaveHost

\* It is moved to its final name, which must not be taken.
RenameWorkspace(a) ==
  /\ At(a, "built")
  /\ IF workspace = "none" THEN workspace' = "whole" /\ Goes(a, "done")
                           ELSE Goes(a, "failed") /\ UNCHANGED workspace
  /\ LeaveStore /\ UNCHANGED <<expired, serving, cached>>

-------------------------------------------------------------------------------
(* The Host *)

TicketExpires ==
  /\ ~expired /\ expired' = TRUE
  /\ UNCHANGED <<record, lockFile, lockStale, mutex, serving, cached, workspace, attempt, timely>>

LockAges ==
  /\ lockFile # Nobody /\ ~lockStale /\ lockStale' = TRUE
  /\ UNCHANGED <<expired, record, lockFile, mutex, serving, cached, workspace, attempt, timely>>

\* An adapter serves once it created, synced and removed a file in the directory.
AdapterStarts(p) ==
  /\ p \notin serving /\ serving' = serving \cup {p}
  /\ UNCHANGED <<expired, record, lockFile, lockStale, mutex, cached, workspace, attempt, timely>>

\* What was under way in these processes ends.
Died(ps) == [a \in Attempts |-> IF AdapterOf[a] \in ps /\ attempt[a].pc # "off"
                                THEN [attempt[a] EXCEPT !.pc = IF @ = "done" THEN @ ELSE "failed"]
                                ELSE attempt[a]]

\* A process that dies leaves its files as they are.
AdapterDies(p) ==
  /\ p \in serving /\ serving' = serving \ {p}
  /\ attempt' = Died({p})
  /\ mutex' = [mutex EXCEPT ![p] = Nobody]
  /\ UNCHANGED <<expired, record, lockFile, lockStale, cached, workspace, timely>>

\* When the machine stops, a file whose directory was not synced may be gone.
HostStops ==
  /\ serving # {} /\ serving' = {}
  /\ attempt' = Died(Adapters)
  /\ mutex' = [p \in Adapters |-> Nobody]
  /\ record' \in (IF record = "durable" THEN {record} ELSE {record, "none"})
  /\ cached' \in (IF cached = "fresh" THEN {"none", "torn", "valid"} ELSE {cached})
  /\ UNCHANGED <<expired, lockFile, lockStale, workspace, timely>>

\* Retention moves the workspace of a Run away and deletes it.
Cleanup ==
  /\ workspace # "none" /\ workspace' = "none"
  /\ LeaveStore /\ UNCHANGED <<expired, serving, cached, attempt>>

\* The agent changes its inputs: the cached files no longer match their digests.
InputsAltered ==
  /\ workspace = "whole" /\ workspace' = "altered"
  /\ LeaveStore /\ UNCHANGED <<expired, serving, cached, attempt>>

AttemptStep(a) ==
  \/ VerifyRunTicket(a) \/ ExistingMaterializedWorkspace(a)
  \/ ConsumeBegins(a) \/ EnterMutex(a) \/ AcquireConsumeLock(a) \/ FindStaleLock(a)
  \/ RemoveStaleLock(a) \/ LockUnavailable(a) \/ LockNotSynced(a) \/ PurgeExpired(a)
  \/ CreateRecord(a) \/ FindRecord(a) \/ WriteRecord(a) \/ SyncDirectory(a) \/ ReleaseConsumeLock(a) \/ ReadCachedObject(a) \/ FetchRemoteObject(a)
  \/ BuildWorkspace(a) \/ RenameWorkspace(a)

TicketNext ==
  \/ \E a \in Attempts : AttemptStep(a)
  \/ TicketExpires \/ LockAges \/ HostStops \/ Cleanup \/ InputsAltered
  \/ \E p \in Adapters : AdapterStarts(p) \/ AdapterDies(p)

-------------------------------------------------------------------------------
(* Properties *)

\* Until it expires a ticket is consumed once, by whichever adapter, although the
\* lock file of an attempt that is slow is removed under it and adapters and the
\* machine restart (FileRunTicketJTIStore.Consume).
ConsumedOnceInItsTime == Cardinality(timely) <= 1
===============================================================================
