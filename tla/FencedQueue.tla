------------------------------ MODULE FencedQueue ------------------------------
(***************************************************************************)
(* What the work queue promises, whatever leases, heartbeats, sweeps and   *)
(* administrators do.  An item is granted to one worker at a time, under   *)
(* numbered grants whose number is limited.  A grant can be taken away at  *)
(* any moment.  Only the worker that holds the latest grant can have the   *)
(* item done; everybody else can at most give it up or open it again.      *)
(***************************************************************************)
EXTENDS Integers

CONSTANTS
  Items,            \* queue_id
  Workers,          \* lease_owner
  MaxAttempts,      \* max_attempts of each item
  None              \* no value

VARIABLES
  grants,           \* how often an item was granted
  holder,           \* the worker the latest grant belongs to, while it lasts
  belief,           \* the grant a worker believes to hold
  outcome           \* what became of an item

vars == <<grants, holder, belief, outcome>>

\* Not yet enqueued, waiting or at work, done, given up for now, or for good.
Outcomes == {"absent", "open", "done", "failed", "dropped"}

Init ==
  /\ grants = [i \in Items |-> 0]
  /\ holder = [i \in Items |-> None]
  /\ belief = [w \in Workers |-> None]
  /\ outcome = [i \in Items |-> "absent"]

\* What an item may become without the worker it is granted to.
MayBecome ==
  [open |-> {"open", "failed", "dropped"}, failed |-> {"failed", "open", "dropped"},
   done |-> {"done", "dropped"}, dropped |-> {"dropped"}]

Open(i) ==
  /\ outcome[i] = "absent"
  /\ outcome' = [outcome EXCEPT ![i] = "open"]
  /\ UNCHANGED <<grants, holder, belief>>

Grant(w, i) ==
  /\ outcome[i] = "open"
  /\ holder[i] = None
  /\ grants[i] < MaxAttempts[i]
  /\ belief[w] = None
  /\ grants' = [grants EXCEPT ![i] = @ + 1]
  /\ holder' = [holder EXCEPT ![i] = w]
  /\ belief' = [belief EXCEPT ![w] = <<i, grants[i] + 1>>]
  /\ UNCHANGED outcome

\* The worker of the latest grant ends it, with any outcome.
Decide(w, i) ==
  /\ belief[w] = <<i, grants[i]>>
  /\ holder[i] = w
  /\ holder' = [holder EXCEPT ![i] = None]
  /\ belief' = [belief EXCEPT ![w] = None]
  /\ \E o \in {"open", "done", "failed", "dropped"} : outcome' = [outcome EXCEPT ![i] = o]
  /\ UNCHANGED grants

Forget(w) ==
  /\ belief' = [belief EXCEPT ![w] = None]
  /\ UNCHANGED <<grants, holder, outcome>>

\* Sweeps and administrators act on any set of items without a grant: they
\* take grants away, give items up or open failed ones again, and never have
\* one done.
Overrule ==
  /\ \E s \in SUBSET {i \in Items : outcome[i] # "absent"} :
       /\ holder' = [i \in Items |-> IF i \in s THEN None ELSE holder[i]]
       /\ \E o \in [s -> Outcomes] :
            /\ \A i \in s : o[i] \in MayBecome[outcome[i]]
            /\ outcome' = [i \in Items |-> IF i \in s THEN o[i] ELSE outcome[i]]
  /\ UNCHANGED <<grants, belief>>

Next ==
  \/ \E i \in Items : Open(i)
  \/ \E w \in Workers, i \in Items : Grant(w, i) \/ Decide(w, i)
  \/ \E w \in Workers : Forget(w)
  \/ Overrule

Spec == Init /\ [][Next]_vars
===============================================================================
