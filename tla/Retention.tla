------------------------------ MODULE Retention ------------------------------
(***************************************************************************)
(* The retention worker: replicas that clean, class by class, what is past *)
(* its time.  A lease keeps the replicas off each other's class; a claim   *)
(* on the row keeps two of them from counting one deletion.                *)
(*                                                                         *)
(* A step is a statement, a call to the object storage, or a step of the   *)
(* renewal goroutine.  A lease may lapse at any time, and a replica learns *)
(* of it at its next renewal only; a replica may stop between two steps.   *)
(*                                                                         *)
(* Abstractions: the ages are "past its time" and "five minutes later";    *)
(* what the classes other than the provider's artifacts remove is one      *)
(* thing each; the embedding store, which is not in the repository, is not *)
(* modelled.                                                               *)
(***************************************************************************)
EXTENDS Integers, FiniteSets, Sequences

CONSTANTS
  Artifacts,        \* artifact ids
  Replicas,         \* retention workers
  MaxPasses,        \* passes of one replica
  MaxRegistrations, \* registrations of one artifact
  NoClaim           \* no claim, no owner

ASSUME RetentionAssumption ==
  MaxPasses \in Nat \ {0} /\ MaxRegistrations \in Nat \ {0} /\ NoClaim \notin Replicas

VARIABLES
  rows,             \* retention_artifacts: status, claim, past its time, five minutes old
  stored,           \* artifacts whose object is in the storage
  kept,             \* classes of which there is something past its time
  owners,           \* the lease of each class
  passes,           \* where each replica is
  registered,       \* registrations of each artifact
  counted           \* deletions of each artifact that some pass counted

retentionVars == <<rows, stored, kept, owners, passes, registered, counted>>

Stages == <<"runtime_workspace", "agent_run_draft_events", "provider_raw", "queue_archive",
            "resource_expiry">>
Classes == {Stages[n] : n \in DOMAIN Stages}
OtherClasses == Classes \ {"provider_raw"}
\* A stage that reads what to remove first and removes it later; the others are one
\* statement each.
TwoSteps == {"runtime_workspace", "resource_expiry"}
Claims == Replicas \X (1 .. MaxPasses)

RetentionTypeOK ==
  /\ rows \in [Artifacts -> [status : {"none", "active", "deleting", "failed", "deleted"},
                             claim : Claims \cup {NoClaim}, due : BOOLEAN, waited : BOOLEAN]]
  /\ stored \subseteq Artifacts /\ kept \subseteq OtherClasses
  /\ owners \in [Classes -> Claims \cup {NoClaim}]
  /\ passes \in [Replicas -> [number : 0 .. MaxPasses, stage : 0 .. Len(Stages) + 1,
                              at : {"rest", "acquire", "read", "remove", "complete"},
                              cut : BOOLEAN, todo : SUBSET (Artifacts \cup OtherClasses),
                              on : Artifacts \cup {NoClaim}, gone : BOOLEAN]]
  /\ registered \in [Artifacts -> 0 .. MaxRegistrations] /\ counted \in [Artifacts -> Nat]

RetentionInit ==
  /\ rows = [a \in Artifacts |-> [status |-> "none", claim |-> NoClaim, due |-> FALSE, waited |-> FALSE]]
  /\ stored = {} /\ kept \in SUBSET OtherClasses
  /\ owners = [class \in Classes |-> NoClaim]
  /\ passes = [w \in Replicas |-> [number |-> 0, stage |-> 0, at |-> "rest", cut |-> FALSE,
                                   todo |-> {}, on |-> NoClaim, gone |-> FALSE]]
  /\ registered = [a \in Artifacts |-> 0] /\ counted = [a \in Artifacts |-> 0]

ClassOf(w) == Stages[passes[w].stage]
Owner(w) == <<w, passes[w].number>>
Moves(w, p) == passes' = [passes EXCEPT ![w] = p]

-------------------------------------------------------------------------------
(* Artifacts and time *)

\* The object is stored and its row written; a row that is not deleted keeps its
\* status, one that is being deleted its claim too.
RegisterProviderRawArtifact(a) ==
  /\ registered[a] < MaxRegistrations
  /\ registered' = [registered EXCEPT ![a] = @ + 1]
  /\ stored' = stored \cup {a}
  /\ rows' = [rows EXCEPT ![a].due = FALSE,
                          ![a].status = IF @ \in {"none", "deleted"} THEN "active" ELSE @]
  /\ UNCHANGED <<kept, owners, passes, counted>>

ArtifactExpires(a) ==
  /\ rows[a].status # "none" /\ ~rows[a].due
  /\ rows' = [rows EXCEPT ![a].due = TRUE]
  /\ UNCHANGED <<stored, kept, owners, passes, registered, counted>>

FiveMinutesPass(a) ==
  /\ rows[a].status \in {"deleting", "failed"} /\ ~rows[a].waited
  /\ rows' = [rows EXCEPT ![a].waited = TRUE]
  /\ UNCHANGED <<stored, kept, owners, passes, registered, counted>>

-------------------------------------------------------------------------------
(* A pass and its leases *)

\* A pass names its leases and claims after itself.
RunOnce(w) ==
  /\ passes[w].at = "rest" /\ passes[w].number < MaxPasses
  /\ Moves(w, [passes[w] EXCEPT !.number = @ + 1, !.stage = 1, !.at = "acquire"])
  /\ UNCHANGED <<rows, stored, kept, owners, registered, counted>>

\* The next stage, or the audit of the pass and its end.
NextStage(p) ==
  [p EXCEPT !.stage = IF @ < Len(Stages) THEN @ + 1 ELSE 0,
            !.at = IF p.stage < Len(Stages) THEN "acquire" ELSE "rest",
            !.cut = FALSE, !.todo = {}, !.on = NoClaim, !.gone = FALSE]

AcquireLease(w) ==
  /\ passes[w].at = "acquire" /\ owners[ClassOf(w)] = NoClaim
  /\ owners' = [owners EXCEPT ![ClassOf(w)] = Owner(w)]
  /\ Moves(w, [passes[w] EXCEPT !.at = "read"])
  /\ UNCHANGED <<rows, stored, kept, registered, counted>>

\* A stage without its lease fails; the pass goes on with the next one.
NoLease(w) ==
  /\ passes[w].at = "acquire" /\ Moves(w, NextStage(passes[w]))
  /\ UNCHANGED <<rows, stored, kept, owners, registered, counted>>

LeaseLapsesOf(class) ==
  /\ owners[class] # NoClaim
  /\ owners' = [owners EXCEPT ![class] = NoClaim]
  /\ UNCHANGED <<rows, stored, kept, passes, registered, counted>>

\* A renewal that fails, because the lease is another's or for any other reason,
\* cancels the context of the stage.
RenewalFails(w) ==
  /\ passes[w].at \in {"read", "remove", "complete"} /\ ~passes[w].cut
  /\ Moves(w, [passes[w] EXCEPT !.cut = TRUE])
  /\ UNCHANGED <<rows, stored, kept, owners, registered, counted>>

EndStage(w) ==
  /\ Moves(w, NextStage(passes[w]))
  /\ owners' = IF owners[ClassOf(w)] = Owner(w) THEN [owners EXCEPT ![ClassOf(w)] = NoClaim] ELSE owners

\* The replica dies; a new one starts in its place.
ReplicaStops(w) ==
  /\ passes[w].at # "rest"
  /\ Moves(w, [passes[w] EXCEPT !.stage = 0, !.at = "rest", !.cut = FALSE, !.todo = {}, !.on = NoClaim, !.gone = FALSE])
  /\ UNCHANGED <<rows, stored, kept, owners, registered, counted>>

-------------------------------------------------------------------------------
(* The provider's artifacts *)

Claimable(row) ==
  /\ row.due
  /\ row.status = "active" \/ (row.status \in {"failed", "deleting"} /\ row.waited)

ClaimExpiredProviderRawArtifacts(w) ==
  /\ passes[w].at = "read" /\ ClassOf(w) = "provider_raw" /\ ~passes[w].cut
  /\ LET claimed == {a \in Artifacts : Claimable(rows[a])}
     IN  /\ claimed # {}
         /\ rows' = [a \in Artifacts |->
              IF a \in claimed
              THEN [rows[a] EXCEPT !.status = "deleting", !.claim = Owner(w), !.waited = FALSE]
              ELSE rows[a]]
         /\ Moves(w, [passes[w] EXCEPT !.at = "remove", !.todo = claimed])
  /\ UNCHANGED <<stored, kept, owners, registered, counted>>

\* The call to the storage does not take the context of the stage: it goes through
\* whoever holds the lease by now.
DeleteTransient(w, a) ==
  /\ passes[w].at = "remove" /\ a \in passes[w].todo \cap Artifacts
  /\ \E gone \in BOOLEAN :
       /\ stored' = IF gone THEN stored \ {a} ELSE stored
       /\ Moves(w, [passes[w] EXCEPT !.at = "complete", !.todo = @ \ {a}, !.on = a, !.gone = gone])
  /\ UNCHANGED <<rows, kept, owners, registered, counted>>

\* Mutant: the row is completed whoever claimed it last.
RowIsClaimedBySomebody(w, a) == rows[a].status = "deleting" \/ rows[a].status = "deleted"

RowIsClaimedBy(w, a) == rows[a].status = "deleting" /\ rows[a].claim = Owner(w)

CompleteProviderRawArtifact(w, a) ==
  /\ passes[w].at = "complete" /\ a = passes[w].on
  /\ IF ~passes[w].cut /\ RowIsClaimedBy(w, a)
     THEN /\ rows' = [rows EXCEPT ![a].status = IF passes[w].gone THEN "deleted" ELSE "failed",
                                  ![a].claim = NoClaim, ![a].waited = FALSE]
          /\ counted' = [counted EXCEPT ![a] = IF passes[w].gone THEN @ + 1 ELSE @]
     ELSE UNCHANGED <<rows, counted>>
  /\ Moves(w, [passes[w] EXCEPT !.at = "remove", !.on = NoClaim, !.gone = FALSE])
  /\ UNCHANGED <<stored, kept, owners, registered>>

-------------------------------------------------------------------------------
(* The other classes *)

\* The Runs whose directory goes, or the resources that expire, are read ...
ListExpired(w) ==
  /\ passes[w].at = "read" /\ ClassOf(w) \in TwoSteps \cap kept /\ ~passes[w].cut
  /\ Moves(w, [passes[w] EXCEPT !.at = "remove", !.todo = {ClassOf(w)}])
  /\ UNCHANGED <<rows, stored, kept, owners, registered, counted>>

\* ... and removed: a directory whatever the context says, a row only while the
\* context lives.  Either may fail.
RemoveCandidates(w) ==
  /\ passes[w].at = "remove" /\ ClassOf(w) \in passes[w].todo
  /\ \/ /\ ClassOf(w) = "runtime_workspace" \/ ~passes[w].cut
        /\ kept' = kept \ {ClassOf(w)}
     \/ UNCHANGED kept
  /\ Moves(w, [passes[w] EXCEPT !.todo = {}])
  /\ UNCHANGED <<rows, stored, owners, registered, counted>>

RemoveInOneStatement(w) ==
  /\ passes[w].at = "read" /\ ClassOf(w) \in kept \ TwoSteps /\ ~passes[w].cut
  /\ kept' = kept \ {ClassOf(w)}
  /\ Moves(w, [passes[w] EXCEPT !.at = "remove"])
  /\ UNCHANGED <<rows, stored, owners, registered, counted>>

\* Nothing to remove, an error, or all done.
StageEnds(w) ==
  /\ \/ passes[w].at = "read"
     \/ passes[w].at = "remove" /\ passes[w].todo = {}
  /\ EndStage(w)
  /\ UNCHANGED <<rows, stored, kept, registered, counted>>

-------------------------------------------------------------------------------
ReplicaStep(w) ==
  \/ RunOnce(w) \/ AcquireLease(w) \/ NoLease(w) \/ RenewalFails(w) \/ ReplicaStops(w)
  \/ ClaimExpiredProviderRawArtifacts(w)
  \/ \E a \in Artifacts : DeleteTransient(w, a) \/ CompleteProviderRawArtifact(w, a)
  \/ ListExpired(w) \/ RemoveCandidates(w) \/ RemoveInOneStatement(w) \/ StageEnds(w)

RetentionNext ==
  \/ \E w \in Replicas : ReplicaStep(w)
  \/ \E a \in Artifacts : RegisterProviderRawArtifact(a) \/ ArtifactExpires(a) \/ FiveMinutesPass(a)
  \/ \E class \in Classes : LeaseLapsesOf(class)

RetentionSpec == RetentionInit /\ [][RetentionNext]_retentionVars

-------------------------------------------------------------------------------
(* Property *)

\* A registration is reported deleted at most once, by one pass, though its lease
\* may have lapsed and another replica have claimed the row meanwhile
\* (ClaimExpiredProviderRawArtifacts, "rather than allowing duplicate success").
DeletionIsCountedOnce == \A a \in Artifacts : counted[a] <= registered[a]
===============================================================================
