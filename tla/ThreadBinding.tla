---------------------------- MODULE ThreadBinding ----------------------------
(***************************************************************************)
(* The Workspace a chat thread is bound to: the switch to another one with *)
(* its idempotency record, the history of switches and its pages, and the  *)
(* snapshot of the binding a Run is created, planned and dispatched with.  *)
(*                                                                         *)
(* Each transaction or query is one step; the row lock of the thread makes *)
(* the switch one.  A caller may stop between any two steps and call again.*)
(*                                                                         *)
(* Abstractions: one thread of one owner; context_generation moves with    *)
(* workspace_binding_version and is that number here; a frozen context is  *)
(* the tuple it is compared by, its manifest and index version left out.   *)
(***************************************************************************)
EXTENDS Integers, FiniteSets, Sequences

CONSTANTS
  Workspaces,       \* the Workspaces of the owner
  FirstWorkspace,   \* the one the thread starts with
  SwitchKeys,       \* idempotency keys of the app
  ThreadRuns,       \* Runs of the thread
  HistoryPage,      \* transitions in a page of the history
  MaxSwitches,      \* calls of the app to switch
  MaxMoves,         \* writes and status changes of Workspaces
  Absent            \* no record, no tuple

ASSUME ThreadAssumption ==
  /\ FirstWorkspace \in Workspaces
  /\ HistoryPage \in Nat \ {0} /\ MaxSwitches \in Nat /\ MaxMoves \in Nat

\* What a key can be recorded with: the command and the binding it led to.
Commands == [target : Workspaces, expected : Nat]
Bindings == [previous : Workspaces \cup {Absent}, workspace : Workspaces, version : Nat]
SwitchRecord == [command : Commands, binding : Bindings]

ASSUME AbsentAssumption == Absent \notin SwitchRecord

VARIABLES
  thread,           \* chat_threads: active workspace and binding version
  history,          \* chat_thread_workspace_history, oldest first
  switchRecords,    \* thread_workspace_switch_idempotency
  switches,         \* the calls that are under way
  switchAnswers,    \* what each key has been answered with
  asked,            \* calls made so far
  workspaces,       \* status and version of each Workspace
  moves,            \* writes and status changes so far
  snapshots,        \* the tuple of each Run, gathered or stored
  runStages,        \* how far each Run is
  retried,          \* the creation of the Run is in its second attempt
  contexts,         \* run_workspace_contexts
  created,          \* Runs in the order they were created
  planned,          \* Runs in the order their plan was published
  reader            \* a client that pages through the history

switchVars == <<thread, history, switchRecords, switches, switchAnswers, asked>>
workspaceVars == <<workspaces, moves>>
threadRunVars == <<snapshots, runStages, retried, contexts, created, planned>>
threadVars == <<switchVars, workspaceVars, threadRunVars, reader>>

WorkspaceStatuses == {"ready", "active", "gone"}
Versions == 1 .. MaxSwitches + 1
SwitchBinding == [previous : Workspaces \cup {Absent}, workspace : Workspaces, version : Versions]
SwitchCommand == [target : Workspaces, expected : Versions]
Transition == [previous : Workspaces, workspace : Workspaces, version : Versions, key : SwitchKeys]
Tuple == [workspace : Workspaces, version : Versions, written : 0 .. MaxMoves]
RunStages == {"new", "resolved", "read", "refused", "planning", "failed", "queued", "dispatched"}

ThreadTypeOK ==
  /\ thread \in [workspace : Workspaces, version : Versions]
  /\ history \in Seq(Transition)
  /\ switchRecords \in [SwitchKeys -> [command : SwitchCommand, binding : SwitchBinding] \cup {Absent}]
  /\ switches \in [SwitchKeys -> [command : SwitchCommand, replayed : BOOLEAN] \cup {Absent}]
  /\ \A key \in SwitchKeys : switchAnswers[key] \subseteq SwitchBinding
  /\ asked \in 0 .. MaxSwitches /\ moves \in 0 .. MaxMoves
  /\ workspaces \in [Workspaces -> [status : WorkspaceStatuses, written : 0 .. MaxMoves]]
  /\ snapshots \in [ThreadRuns -> Tuple \cup {Absent}] /\ contexts \in [ThreadRuns -> Tuple \cup {Absent}]
  /\ runStages \in [ThreadRuns -> RunStages] /\ retried \in [ThreadRuns -> BOOLEAN]
  /\ created \in Seq(ThreadRuns) /\ planned \in Seq(ThreadRuns)
  /\ reader \in [cursor : {0} \cup Versions, done : BOOLEAN, seen : Seq(Versions)]

ThreadInit ==
  /\ thread = [workspace |-> FirstWorkspace, version |-> 1]
  /\ history = << >>
  /\ switchRecords = [key \in SwitchKeys |-> Absent]
  /\ switches = [key \in SwitchKeys |-> Absent]
  /\ switchAnswers = [key \in SwitchKeys |-> {}]
  /\ asked = 0 /\ moves = 0
  /\ workspaces = [w \in Workspaces |-> [status |-> "ready", written |-> 0]]
  /\ snapshots = [r \in ThreadRuns |-> Absent] /\ contexts = [r \in ThreadRuns |-> Absent]
  /\ runStages = [r \in ThreadRuns |-> "new"] /\ retried = [r \in ThreadRuns |-> FALSE]
  /\ created = << >> /\ planned = << >>
  /\ reader = [cursor |-> 0, done |-> FALSE, seen |-> << >>]

-------------------------------------------------------------------------------
(* Workspaces *)

\* A write to a Workspace, or a change of its status.
WorkspaceMoved(w) ==
  /\ moves < MaxMoves /\ moves' = moves + 1
  /\ \/ workspaces' = [workspaces EXCEPT ![w].written = @ + 1]
     \/ \E status \in WorkspaceStatuses \ {workspaces[w].status} :
          workspaces' = [workspaces EXCEPT ![w].status = status]
  /\ UNCHANGED <<switchVars, threadRunVars, reader>>

-------------------------------------------------------------------------------
(* Switching *)

EndCall(key) == switches' = [switches EXCEPT ![key] = Absent]

\* The app switches, or calls again after an answer that did not reach it; it may
\* use its key for another target.
AskSwitch(key, command) ==
  /\ switches[key] = Absent /\ asked < MaxSwitches /\ asked' = asked + 1
  /\ command.expected <= thread.version
  /\ switches' = [switches EXCEPT ![key] = [command |-> command, replayed |-> FALSE]]
  /\ UNCHANGED <<thread, history, switchRecords, switchAnswers, workspaceVars, threadRunVars, reader>>

\* A record answers a call with the same command and refuses any other.
Replay(key) ==
  /\ switchRecords[key] # Absent
  /\ switchAnswers' = [switchAnswers EXCEPT ![key] =
       IF switchRecords[key].command = switches[key].command
       THEN @ \cup {switchRecords[key].binding} ELSE @]
  /\ EndCall(key)
  /\ UNCHANGED <<thread, history, switchRecords, asked>>

\* A look for the record outside any transaction comes first, so that a target
\* that is gone by now does not hide an answer.
FindThreadWorkspaceSwitchReplay(key) ==
  /\ switches[key] # Absent /\ ~switches[key].replayed
  /\ \/ Replay(key)
     \/ /\ switchRecords[key] = Absent
        /\ switches' = [switches EXCEPT ![key].replayed = TRUE]
        /\ UNCHANGED <<thread, history, switchRecords, switchAnswers, asked>>
  /\ UNCHANGED <<workspaceVars, threadRunVars, reader>>

InsertIdempotency(key, binding) ==
  /\ switchRecords' = [switchRecords EXCEPT ![key] = [command |-> switches[key].command, binding |-> binding]]
  /\ switchAnswers' = [switchAnswers EXCEPT ![key] = @ \cup {binding}]

\* To the Workspace that is active already: only the answer is recorded.
NoSwitch(key) ==
  /\ switches[key].command.target = thread.workspace
  /\ InsertIdempotency(key, [previous |-> Absent, workspace |-> thread.workspace, version |-> thread.version])
  /\ UNCHANGED <<thread, history>>

ApplySwitch(key) ==
  LET target == switches[key].command.target
      binding == [previous |-> thread.workspace, workspace |-> target, version |-> thread.version + 1]
  IN  /\ target # thread.workspace /\ workspaces[target].status = "ready"
      /\ thread' = [workspace |-> target, version |-> binding.version]
      /\ history' = Append(history, [previous |-> binding.previous, workspace |-> target,
                                     version |-> binding.version, key |-> key])
      /\ InsertIdempotency(key, binding)

\* The transaction, under the row lock of the thread.
SwitchThreadWorkspace(key) ==
  /\ switches[key] # Absent /\ switches[key].replayed
  /\ \/ Replay(key)
     \/ /\ switchRecords[key] = Absent
        /\ switches[key].command.expected = thread.version
        /\ NoSwitch(key) \/ ApplySwitch(key)
        /\ EndCall(key) /\ UNCHANGED asked
  /\ UNCHANGED <<workspaceVars, threadRunVars, reader>>

\* The version is another, the target is not ready, a Workspace lease was not
\* obtained, another switch held the row, or the process died: nothing changes.
SwitchFails(key) ==
  /\ switches[key] # Absent /\ EndCall(key)
  /\ UNCHANGED <<thread, history, switchRecords, switchAnswers, asked, workspaceVars, threadRunVars, reader>>

SwitchStep ==
  \/ \E key \in SwitchKeys, command \in SwitchCommand : AskSwitch(key, command)
  \/ \E key \in SwitchKeys :
       FindThreadWorkspaceSwitchReplay(key) \/ SwitchThreadWorkspace(key) \/ SwitchFails(key)

-------------------------------------------------------------------------------
(* Runs of the thread *)

RunGoes(r, stage) == runStages' = [runStages EXCEPT ![r] = stage]

\* The binding is read without a lock ...
ResolveThreadBinding(r) ==
  /\ runStages[r] = "new"
  /\ snapshots' = [snapshots EXCEPT ![r] =
       [workspace |-> thread.workspace, version |-> thread.version, written |-> 0]]
  /\ RunGoes(r, "resolved")
  /\ UNCHANGED <<switchVars, workspaceVars, retried, contexts, created, planned, reader>>

\* ... and then the version of its Workspace.
CurrentRunWorkspaceVersion(r) ==
  /\ runStages[r] = "resolved"
  /\ LET w == snapshots[r].workspace
     IN  IF workspaces[w].status = "ready"
         THEN snapshots' = [snapshots EXCEPT ![r].written = workspaces[w].written] /\ RunGoes(r, "read")
         ELSE RunGoes(r, "refused") /\ UNCHANGED snapshots
  /\ UNCHANGED <<switchVars, workspaceVars, retried, contexts, created, planned, reader>>

\* Mutant: the transaction looks at the Workspace and not at the thread.
WorkspaceSnapshotOnly(tuple) ==
  workspaces[tuple.workspace].status = "ready" /\ tuple.written = workspaces[tuple.workspace].written

ValidWorkspaceSnapshot(tuple) ==
  /\ tuple.workspace = thread.workspace /\ tuple.version = thread.version
  /\ workspaces[tuple.workspace].status = "ready" /\ tuple.written = workspaces[tuple.workspace].written

CreateThreadRun(r) ==
  /\ runStages[r] = "read" /\ ValidWorkspaceSnapshot(snapshots[r])
  /\ RunGoes(r, "planning") /\ created' = Append(created, r)
  /\ UNCHANGED <<switchVars, workspaceVars, snapshots, retried, contexts, planned, reader>>

\* What was read is no longer true: the service reads once more.
CreateConflict(r) ==
  /\ runStages[r] = "read" /\ ~ValidWorkspaceSnapshot(snapshots[r])
  /\ IF retried[r] \/ workspaces[snapshots[r].workspace].status # "ready"
     THEN RunGoes(r, "refused") /\ UNCHANGED retried
     ELSE RunGoes(r, "new") /\ retried' = [retried EXCEPT ![r] = TRUE]
  /\ UNCHANGED <<switchVars, workspaceVars, snapshots, contexts, created, planned, reader>>

\* The first freezing needs the Run's tuple and the present Workspace, not the
\* present binding; a second one that differs from the first is refused.
SaveWorkspaceContext(r, tuple) ==
  /\ contexts[r] = Absent
  /\ runStages[r] = "planning" /\ tuple = snapshots[r]
  /\ workspaces[tuple.workspace].status \in {"ready", "active"}
  /\ workspaces[tuple.workspace].written = tuple.written
  /\ contexts' = [contexts EXCEPT ![r] = tuple]
  /\ UNCHANGED <<switchVars, workspaceVars, snapshots, runStages, retried, created, planned, reader>>

ValidFrozenContext(r) == contexts[r] # Absent /\ contexts[r] = snapshots[r]

PublishPlan(r) ==
  /\ runStages[r] = "planning"
  /\ ValidFrozenContext(r) /\ ValidWorkspaceSnapshot(snapshots[r])
  /\ RunGoes(r, "queued") /\ planned' = Append(planned, r)
  /\ UNCHANGED <<switchVars, workspaceVars, snapshots, retried, contexts, created, reader>>

PlanningFails(r) ==
  /\ runStages[r] = "planning" /\ RunGoes(r, "failed")
  /\ UNCHANGED <<switchVars, workspaceVars, snapshots, retried, contexts, created, planned, reader>>

\* The dispatcher compares the plan and the Run with the frozen context, and no
\* longer with the thread.
ValidateFrozenWorkspaceContextForPlan(r) ==
  /\ runStages[r] = "queued"
  /\ RunGoes(r, IF ValidFrozenContext(r) THEN "dispatched" ELSE "failed")
  /\ UNCHANGED <<switchVars, workspaceVars, snapshots, retried, contexts, created, planned, reader>>

ThreadRunStep ==
  \E r \in ThreadRuns :
    \/ ResolveThreadBinding(r) \/ CurrentRunWorkspaceVersion(r)
    \/ CreateThreadRun(r) \/ CreateConflict(r)
    \/ \E tuple \in Tuple : SaveWorkspaceContext(r, tuple)
    \/ PublishPlan(r) \/ PlanningFails(r) \/ ValidateFrozenWorkspaceContextForPlan(r)

-------------------------------------------------------------------------------
(* Reading the history *)

\* A page holds the newest versions, in descending order.
NewestFirst(versions, size) ==
  CHOOSE page \in [1 .. size -> versions] :
    /\ \A m, n \in 1 .. size : m < n => page[m] > page[n]
    /\ \A v \in versions : (\E n \in 1 .. size : page[n] = v) \/ \A n \in 1 .. size : page[n] > v

\* Newest first, below the cursor; the cursor of a page that is followed by others
\* is its last version.
ListThreadWorkspaceHistory ==
  /\ ~reader.done
  /\ LET below == {v \in {history[n].version : n \in DOMAIN history} : reader.cursor = 0 \/ v < reader.cursor}
         more == Cardinality(below) > HistoryPage
         page == NewestFirst(below, IF more THEN HistoryPage ELSE Cardinality(below))
     IN  reader' = [cursor |-> IF more THEN page[HistoryPage] ELSE 0, done |-> ~more, seen |-> reader.seen \o page]
  /\ UNCHANGED <<switchVars, workspaceVars, threadRunVars>>

-------------------------------------------------------------------------------
ThreadNext ==
  \/ SwitchStep \/ ThreadRunStep \/ ListThreadWorkspaceHistory
  \/ \E w \in Workspaces : WorkspaceMoved(w)

ThreadSpec == ThreadInit /\ [][ThreadNext]_threadVars

-------------------------------------------------------------------------------
(* Properties *)

\* A key takes effect at most once and has one answer, whoever replays it
\* (switchThreadWorkspacePostgresTx, FindThreadWorkspaceSwitchReplay).
SwitchedOnce ==
  \A key \in SwitchKeys :
    /\ Cardinality(switchAnswers[key]) <= 1
    /\ Cardinality({n \in DOMAIN history : history[n].key = key}) <= 1

WorkspaceAt(version) == IF version = 1 THEN FirstWorkspace ELSE history[version - 1].workspace

InOrderOfTheThread(list) ==
  \A m, n \in DOMAIN list : m <= n => snapshots[list[m]].version <= snapshots[list[n]].version

\* A Run belongs to a binding the thread really had, and no Run is created or
\* planned for an older binding than a Run before it
\* (validateAgentRunWorkspaceSnapshotInTx).
RunsFollowTheThread ==
  /\ InOrderOfTheThread(created) /\ InOrderOfTheThread(planned)
  /\ \A n \in DOMAIN created :
       snapshots[created[n]].workspace = WorkspaceAt(snapshots[created[n]].version)

\* The pages of the history, one after the other, neither skip nor repeat a switch,
\* whatever is switched between two pages (pageThreadWorkspaceHistory).
PagesAreWhole ==
  /\ \A n \in 1 .. Len(reader.seen) - 1 : reader.seen[n] = reader.seen[n + 1] + 1
  /\ reader.done /\ reader.seen # << >> => reader.seen[Len(reader.seen)] = 2

\* What the app, the Runs and the history say of the thread is one story: one
\* effect and one answer for a key, Runs in the order of the bindings, whole pages.
ThreadTellsOneStory == SwitchedOnce /\ RunsFollowTheThread /\ PagesAreWhole
===============================================================================
