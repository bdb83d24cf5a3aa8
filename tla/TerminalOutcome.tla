---------------------------- MODULE TerminalOutcome ----------------------------
(***************************************************************************)
(* What the end of a Run promises to everyone who looks at its product,    *)
(* whatever workers, users and sweeps do behind it.  One result is decided *)
(* and stays decided.  The product shows effects of that result only, each *)
(* after the ones it builds on, and takes none back.  When all are shown,  *)
(* and not before, the Run, its plan and its Dispatch tell the verdict of  *)
(* that result, and they tell it from then on.                             *)
(***************************************************************************)
CONSTANTS
  Results,          \* how a Run can end
  Effects,          \* the effects its product shows
  Precedes,         \* pairs of effects: the second builds on the first
  Verdict,          \* what Run, plan and Dispatch tell of each result
  None              \* no value

VARIABLES
  decided,          \* the result of the Run
  shown,            \* the effects that are shown, each with its result
  verdict           \* what is told of the end

vars == <<decided, shown, verdict>>

\* An earlier version may have left a Run that is shown and not concluded.
Init ==
  /\ \/ decided = None /\ shown = {}
     \/ \E r \in Results : decided = r /\ shown = Effects \X {r}
  /\ verdict = None

Decide ==
  /\ decided = None
  /\ decided' \in Results
  /\ UNCHANGED <<shown, verdict>>

Show(e) ==
  /\ decided # None
  /\ \A f \in Effects : <<f, e>> \in Precedes => <<f, decided>> \in shown
  /\ shown' = shown \cup {<<e, decided>>}
  /\ UNCHANGED <<decided, verdict>>

Conclude ==
  /\ verdict = None
  /\ decided # None
  /\ shown = Effects \X {decided}
  /\ verdict' = Verdict[decided]
  /\ UNCHANGED <<decided, shown>>

Next == Decide \/ (\E e \in Effects : Show(e)) \/ Conclude

Spec == Init /\ [][Next]_vars
===============================================================================
