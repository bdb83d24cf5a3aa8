------------------------------ MODULE MCServices ------------------------------
(***************************************************************************)
(* Small instances of the components that share no state with each other   *)
(* while they are at work.  A behaviour is one scene: the steps of one     *)
(* component, or of two that share state, while the others rest.           *)
(***************************************************************************)
EXTENDS WorkQueue, RunLifecycle, PublicEventStream, HostRecovery, RunTickets, MCPlanning, ThreadBinding, Retention

CONSTANTS i1, i2, t1, t2, k1, k2, c1, o1, j1, a1, a2, p1, p2, x1, s1, s2, v1, v2

VARIABLE scene

ReplayOfFirst == [i \in Items |-> IF i = i2 THEN i1 ELSE None]
TwoThenOne == [i \in Items |-> IF i = i1 THEN 2 ELSE 1]
BothMeters == [m \in Meters |-> 1]
MCDemands == {BothMeters, OneGeneration}
OwnAdapter == [a \in Attempts |-> IF a = a1 THEN p1 ELSE p2]
OneScope == [r \in Jobs |-> "product_thread"]
StartsWith == x1

otherThanQueue == <<usageVars, runVars, eventVars, hostRecoveryVars, ticketVars, planningVars, threadVars, retentionVars, scene>>
servicesVars == <<vars, otherThanQueue>>

ServicesInit ==
  /\ scene \in {"queue", "usage", "run", "follow", "sweep", "host", "ticket", "plan", "switch", "bind", "claims",
               "classes"}
  /\ Init /\ UsageInit /\ RunInit /\ EventInit /\ HostInit
  /\ TicketInit /\ PlanningInit /\ ThreadInit /\ RetentionInit
  /\ scene # "plan" => catalog = First /\ request = OneRequest
  /\ kept = IF scene = "classes" THEN OtherClasses ELSE {}

QueueScene == scene = "queue" /\ Next /\ UNCHANGED otherThanQueue

\* One check for two tasks, two periods.
UsageScene ==
  /\ scene = "usage" /\ UsageNext
  /\ permission'[k2] = "none"
  /\ UNCHANGED <<vars, runVars, eventVars, hostRecoveryVars, ticketVars, planningVars, threadVars, retentionVars, scene>>

\* One Run and two confirmation keys.
RunScene == scene = "run" /\ RunNext /\ UNCHANGED <<vars, eventVars, hostRecoveryVars, ticketVars, planningVars, threadVars, retentionVars, scene>>

\* One client that comes back after each lost connection.
FollowScene ==
  /\ scene = "follow" /\ EventNext
  /\ comings'[o1] = 0
  /\ UNCHANGED <<vars, usageVars, runVars, hostRecoveryVars, ticketVars, planningVars, threadVars, retentionVars, scene>>

\* A client and a bystander, one event, one connection each.
SweepScene ==
  /\ scene = "sweep" /\ EventNext
  /\ retained' \subseteq {1} /\ owed' \subseteq {"worker"}
  /\ stream'[c1].connects <= 1 /\ comings'[o1] <= 1
  /\ UNCHANGED <<vars, usageVars, runVars, hostRecoveryVars, ticketVars, planningVars, threadVars, retentionVars, scene>>

HostScene ==
  /\ scene = "host" /\ HostRecoveryNext
  /\ UNCHANGED <<vars, usageVars, runVars, eventVars, ticketVars, planningVars, threadVars, retentionVars, scene>>

\* Two calls for one ticket, by two processes.
TicketScene ==
  /\ scene = "ticket" /\ TicketNext
  /\ UNCHANGED <<vars, usageVars, runVars, eventVars, hostRecoveryVars, planningVars, threadVars, retentionVars, scene>>

PlanScene ==
  /\ scene = "plan" /\ PlanningNext
  /\ UNCHANGED <<vars, usageVars, runVars, eventVars, hostRecoveryVars, ticketVars, threadVars, retentionVars, scene>>

NotTheThread == UNCHANGED <<vars, usageVars, runVars, eventVars, hostRecoveryVars, ticketVars, planningVars, retentionVars, scene>>

\* Two keys of the app and a reader of the history.
SwitchScene ==
  /\ scene = "switch" /\ ThreadNext
  /\ NotTheThread /\ UNCHANGED threadRunVars

\* Two Runs and one switch.
BindScene ==
  /\ scene = "bind" /\ ThreadNext
  /\ asked' <= 1 /\ switches'[s2] = Absent
  /\ NotTheThread /\ UNCHANGED reader

Cleaning == RetentionNext /\ UNCHANGED <<vars, usageVars, runVars, eventVars, hostRecoveryVars, ticketVars,
                                        planningVars, threadVars, scene>>

\* Two replicas and the artifacts; the other classes are empty and not leased.
ClaimsScene ==
  /\ scene = "claims" /\ Cleaning
  /\ \A class \in OtherClasses : owners'[class] = NoClaim

\* One replica and the other classes.
ClassesScene ==
  /\ scene = "classes" /\ Cleaning
  /\ passes'[v2].number = 0 /\ UNCHANGED rows

ServicesNext == QueueScene \/ UsageScene \/ RunScene \/ FollowScene \/ SweepScene \/ HostScene
                \/ TicketScene \/ PlanScene \/ SwitchScene \/ BindScene
                \/ ClaimsScene \/ ClassesScene

\* The workers poll and go on with what they do, time passes, and the job that
\* looks for stalled items runs.
QueueFairness ==
  /\ \A w \in Workers :
       /\ WF_vars(scene = "queue" /\ (LeaseStep(w) \/ MarkRunning(w) \/ HeartbeatStopped(w) \/ EndAttempt(w)))
       /\ WF_vars(scene = "queue" /\ HeartbeatRenews(w))
       /\ WF_vars(scene = "queue" /\ (HeartbeatAnswered(w) \/ HeartbeatFails(w)))
       /\ WF_vars(scene = "queue" /\ StopHeartbeat(w))
  /\ \A i \in Items : WF_vars(scene = "queue" /\ LeaseLapses(i))
  /\ WF_vars(scene = "queue" /\ RecoverRunningWithoutHeartbeat)

Streaming == scene \in {"follow", "sweep"}

\* The sweeps of the API go on, and so does each stream; a wake-up and a heartbeat
\* that are both there are taken in either order.
StreamFairness ==
  /\ WF_eventVars(Streaming /\ RecoveryTriggered)
  /\ WF_eventVars(Streaming /\ SafetyTick)
  /\ WF_eventVars(Streaming /\ RecoverBatch)
  /\ \A c \in Clients :
       WF_eventVars(Streaming /\ WritePage(c)) /\ SF_eventVars(Streaming /\ ListPublicEvents(c))

\* The registration loop of a Host's adapter goes on.
HostFairness == WF_hostRecoveryVars(scene = "host" /\ LoopStep)

ServicesSpec == ServicesInit /\ [][ServicesNext]_servicesVars /\ QueueFairness /\ StreamFairness /\ HostFairness

\* The values of all the services.
ServicesTypeOK == TypeOK /\ UsageTypeOK /\ RunTypeOK /\ EventTypeOK /\ HostTypeOK /\ TicketTypeOK
                  /\ PlanningTypeOK /\ ThreadTypeOK /\ RetentionTypeOK
===============================================================================
