-------------------------------- MODULE Planning --------------------------------
(***************************************************************************)
(* How a Run gets its plan: the user may choose a workspace of the public  *)
(* list, the router selects one Agent of the catalogue, the planner its    *)
(* skills, knowledge, tools and output contract, and the validator checks  *)
(* the frozen plan against the catalogue and the Host that is to run it.   *)
(* The planner and the validator are written apart from each other.        *)
(*                                                                         *)
(* One request is followed, while the server may publish a newer           *)
(* catalogue between any two steps.                                        *)
(*                                                                         *)
(* Abstractions: Agents and skills are numbers, in the order of their      *)
(* names; a path of the knowledge base is a reference below a root; an     *)
(* input policy is empty, accepts text, takes or requires an image, or     *)
(* does not have its hash; identifiers, paths and formats are well formed. *)
(***************************************************************************)
EXTENDS FiniteSets, Integers, Sequences

CONSTANTS
  Catalogs,         \* catalogues that may be published, by their version
  Requests,         \* what users ask: permissions, intent, key, images
  Hosts,            \* capabilities of a Host: ready tools, contract
  Skills,           \* skill profiles, in the order of their names
  RootOf,           \* of a knowledge reference: the root it lies below
  Registered,       \* of a task type: the skills with a registered output protocol
  FixedSkills,      \* of a task type: the skills of a deterministic plan
  NoKey, NoPlan

ASSUME CatalogAssumption == \A c \in Catalogs : c.version \in Nat /\ IsFiniteSet(DOMAIN c.skills)
\* Agents are numbers, and who names a skill names one of Skills.
ASSUME NamesAssumption ==
  /\ \A c \in Catalogs : DOMAIN c.agents \subseteq Nat /\ \A a \in DOMAIN c.agents : c.agents[a].skills \subseteq Skills
  /\ \A r \in Requests : FixedSkills[r.intent.task] \in Seq(Skills)
ASSUME ImagesAssumption == \A r \in Requests : r.images \in Nat

VARIABLES
  catalog,          \* the catalogue in use
  request,          \* what the user asks
  step,             \* how far the request is
  route,            \* the Agent entry that was selected, with the version it is of
  runPlan           \* the plan

planningVars == <<catalog, request, step, route, runPlan>>

Wild == "*"
PlanningSteps == {"asked", "unrouted", "routed", "unplanned", "planned", "frozen", "refused", "accepted"}

-------------------------------------------------------------------------------
(* The catalogue *)

MatchesOne(values, x) == values = {} \/ x \in values \/ Wild \in values
MatchesRequiredOne(values, x) == values # {} /\ MatchesOne(values, x)

PolicyHasItsHash(policy) == policy \in {"text", "image", "image_required"}

ValidPublicEntry(e) == e.active /\ e.selectable /\ e.key # NoKey /\ PolicyHasItsHash(e.policy)

\* What the App may offer: keys that name exactly one entry.
ListPublicMetaWorkspaces(c) ==
  {k \in {c.agents[a].key : a \in DOMAIN c.agents} :
     Cardinality({a \in DOMAIN c.agents : ValidPublicEntry(c.agents[a]) /\ c.agents[a].key = k}) = 1}

\* What the user's membership and features open.
Opens(e, user) == user.level >= e.level /\ e.features \subseteq user.features

\* The entry behind a key, for this user.
ResolvePublicMetaWorkspace(c, user, k) ==
  LET found == {a \in DOMAIN c.agents : ValidPublicEntry(c.agents[a]) /\ c.agents[a].key = k /\ Opens(c.agents[a], user)}
  IN  IF Cardinality(found) = 1 THEN found ELSE {}

\* A manifest that may be planned with: names and public keys are unique, every
\* entry says what it serves, and a policy that is given has its hash.
ValidManifest(c) ==
  \A a \in DOMAIN c.agents : LET e == c.agents[a] IN e.active =>
    /\ e.categories # {} /\ e.tasks # {} /\ e.skills # {} /\ e.scopes # {} /\ e.max \in 1 .. 8
    /\ e.selectable =>
         /\ e.key # NoKey /\ e.default \in e.tasks /\ PolicyHasItsHash(e.policy)
         /\ \A b \in DOMAIN c.agents \ {a} : ~(c.agents[b].active /\ c.agents[b].selectable /\ c.agents[b].key = e.key)
    /\ ~e.selectable => e.policy = "none" \/ PolicyHasItsHash(e.policy)

\* No Agents named, or "*", stands for every Agent.
AgentMayUse(skill, a) == skill.agents = {} \/ a \in skill.agents

CandidateSkillsCoverAgent(c, a) ==
  \E s \in c.agents[a].skills \cap DOMAIN c.skills \cap c.allowed.skills :
    c.skills[s].active /\ c.skills[s].tasks # {} /\ AgentMayUse(c.skills[s], a)

\* The check of a catalogue when the server starts.
ValidateCapabilityPlanningCatalog(c) ==
  /\ ValidManifest(c)
  /\ \E a \in DOMAIN c.agents : c.agents[a].active
  /\ \A a \in DOMAIN c.agents : c.agents[a].active =>
       /\ a \in c.allowed.agents /\ CandidateSkillsCoverAgent(c, a)
       /\ c.agents[a].roots \subseteq c.allowed.knowledge

PlanningInit ==
  /\ catalog \in {c \in Catalogs : ValidateCapabilityPlanningCatalog(c)}
  /\ request \in Requests
  /\ step = "asked" /\ route = NoPlan /\ runPlan = NoPlan

-------------------------------------------------------------------------------
(* Routing *)

Serves(e, intent) ==
  /\ MatchesRequiredOne(e.categories, intent.category)
  /\ MatchesRequiredOne(e.tasks, intent.task)
  /\ MatchesRequiredOne(e.scopes, intent.scope)

ListEligible(c, r) ==
  {a \in DOMAIN c.agents :
     /\ c.agents[a].active /\ Serves(c.agents[a], r.intent) /\ Opens(c.agents[a], r.user)
     /\ r.intent.candidates = {} \/ a \in r.intent.candidates}

\* The Agents a route may select, one or none.  Without a key the only public
\* entry is taken, or else the only entry; priority does not decide.
SelectedAgents(c, r) ==
  LET eligible == ListEligible(c, r)
      public == {a \in eligible : ValidPublicEntry(c.agents[a])}
      chosen == CASE r.key # NoKey -> {a \in public : c.agents[a].key = r.key}
                  [] r.key = NoKey /\ public # {} -> public
                  [] OTHER -> eligible
  IN  IF Cardinality(chosen) = 1 THEN chosen ELSE {}

\* An entry with a key is routed to with the whole identity of its workspace.
ValidRouteIdentity(e) == e.key = NoKey \/ PolicyHasItsHash(e.policy)

L1AgentRouteResult(c, a) ==
  LET e == c.agents[a] IN
  [agent |-> a, version |-> c.version, key |-> e.key, policy |-> IF e.key = NoKey THEN "none" ELSE e.policy,
   skills |-> e.skills, roots |-> e.roots, max |-> e.max, toolPolicy |-> e.toolPolicy]

Route ==
  /\ step = "asked"
  /\ LET found == {a \in SelectedAgents(catalog, request) : ValidRouteIdentity(catalog.agents[a])} IN
       IF found = {} THEN step' = "unrouted" /\ UNCHANGED route
       ELSE step' = "routed" /\ \E a \in found : route' = L1AgentRouteResult(catalog, a)
  /\ UNCHANGED <<catalog, request, runPlan>>

-------------------------------------------------------------------------------
(* Planning *)

\* The skills of the catalogue that this Agent may use for this intent.
EligibleCandidates(c, rt, intent) ==
  {s \in DOMAIN c.skills \cap rt.skills \cap c.allowed.skills :
     LET k == c.skills[s] IN
     /\ k.active /\ MatchesRequiredOne(k.tasks, intent.task)
     /\ MatchesOne(k.categories, intent.category) /\ AgentMayUse(k, rt.agent)
     /\ k.needs \subseteq intent.capabilities}

Precedes(c, s, t) ==
  c.skills[s].priority > c.skills[t].priority \/ (c.skills[s].priority = c.skills[t].priority /\ s < t)

\* The first ones by priority, then by name, as many as the Agent admits.
ListCandidates(c, rt, intent) ==
  LET all == EligibleCandidates(c, rt, intent)
  IN  {s \in all : Cardinality({t \in all : Precedes(c, t, s)}) < rt.max}

\* The registry admits a selection of its own candidates only.
ValidateSelection(c, rt, intent, selected) ==
  /\ rt.agent \in c.allowed.agents /\ selected # {} /\ Cardinality(selected) <= rt.max
  /\ selected \subseteq ListCandidates(c, rt, intent)

\* Knowledge is what the skills name, below a root of the Agent and permitted.
RefsOf(c, skills) == UNION {c.skills[s].refs : s \in skills}
\* Mutant: a permission is enough, whatever the roots of the Agent.
KnowledgePermitted(c, roots, refs) == refs \subseteq c.allowed.knowledge
KnowledgeAllowed(c, roots, refs) == \A f \in refs : f \in c.allowed.knowledge /\ RootOf[f] \in roots

\* A task type with registered protocols has no other output; any other task takes
\* the general protocol of its skill.
HasTerminalTemplate(task, skill) == Registered[task] = {} \/ skill \in Registered[task]

ToolsForIntent(intent) ==
  IF intent.task = "strategy" THEN {"read", "write"}
  ELSE {"write"} \cup (IF "workspace_search" \in intent.capabilities THEN {"workspace_search", "read"} ELSE {})
                 \cup (IF "workspace_read" \in intent.capabilities THEN {"read"} ELSE {})

WriteModeForIntent(intent) ==
  IF intent.task # "strategy" /\ intent.risk = "formal_write" THEN "asset_write_intent" ELSE "runtime_staging"

ToolBudgetForIntent(intent) ==
  IF intent.task = "visual" THEN [calls |-> 8, soft |-> 6, reserve |-> 1, search |-> 6, writes |-> 0]
                            ELSE [calls |-> 200, soft |-> 160, reserve |-> 10, search |-> 60, writes |-> 20]

NewAgentRunPlan(rt, intent, mode, skills, first, refs) ==
  [mode |-> mode, agent |-> rt.agent, version |-> rt.version, key |-> rt.key, policy |-> rt.policy,
   toolPolicy |-> rt.toolPolicy, task |-> intent.task, scope |-> intent.scope, skills |-> skills, refs |-> refs,
   tools |-> ToolsForIntent(intent), writeMode |-> WriteModeForIntent(intent), budget |-> ToolBudgetForIntent(intent),
   terminal |-> first, images |-> 0, host |-> NoPlan]

Planned(skills, first, refs, mode) ==
  IF HasTerminalTemplate(request.intent.task, first)
  THEN step' = "planned" /\ runPlan' = NewAgentRunPlan(route, request.intent, mode, skills, first, refs)
  ELSE step' = "unplanned" /\ UNCHANGED runPlan

\* The skills and permissions are those in use now, the route's Agent may be older.
BuildDynamicPlan ==
  /\ step = "routed"
  /\ LET skills == ListCandidates(catalog, route, request.intent)
         refs == RefsOf(catalog, skills)
     IN  IF ValidateSelection(catalog, route, request.intent, skills) /\ KnowledgeAllowed(catalog, route.roots, refs)
         THEN \E first \in skills :
                /\ \A s \in skills \ {first} : Precedes(catalog, first, s)
                /\ Planned(skills, first, refs, "dynamic")
         ELSE step' = "unplanned" /\ UNCHANGED runPlan
  /\ UNCHANGED <<catalog, request, route>>

\* Callers with a fixed task take its skills without looking at the catalogue.
BuildDeterministicPlan ==
  /\ step = "routed"
  /\ LET fixed == FixedSkills[request.intent.task] IN
       IF fixed = <<>> THEN step' = "unplanned" /\ UNCHANGED runPlan
       ELSE Planned({fixed[i] : i \in 1 .. Len(fixed)}, fixed[1], {}, "deterministic")
  /\ UNCHANGED <<catalog, request, route>>

\* The planning worker records the frozen workspace, the Host's capabilities and
\* the user's images in the plan.
FreezeContext ==
  /\ step = "planned" /\ step' = "frozen"
  /\ \E h \in Hosts : runPlan' = [runPlan EXCEPT !.host = h, !.images = request.images]
  /\ UNCHANGED <<catalog, request, route>>

-------------------------------------------------------------------------------
(* Validation *)

\* The entry the plan was made for: same manifest, same Agent, still active.
ActiveAgentEntry(c, p) ==
  /\ p.version = c.version /\ p.agent \in DOMAIN c.agents
  /\ LET e == c.agents[p.agent] IN e.active /\ MatchesOne(e.tasks, p.task) /\ MatchesOne(e.scopes, p.scope)

ValidInputAttachments(images, policy) ==
  CASE policy \in {"none", "text"} -> images = 0
    [] policy = "image" -> images <= 1
    [] policy = "image_required" -> images = 1
    [] OTHER -> FALSE

ActiveSkillMatches(c, s, p) ==
  s \in DOMAIN c.skills /\ c.skills[s].active /\ MatchesOne(c.skills[s].tasks, p.task) /\ AgentMayUse(c.skills[s], p.agent)

ValidToolBudget(b) ==
  b.soft \in 1 .. b.calls - 1 /\ b.reserve \in 1 .. b.calls - 1 /\ b.calls <= 200 /\ b.search <= b.calls /\ b.writes <= b.calls

\* A plan that may stage files has the tool that writes them, and no other has.
HasWorkspaceMount(p) == p.writeMode \in {"runtime_staging", "asset_write_intent"} /\ "write" \in p.tools

ValidToolPolicy(p) == ValidToolBudget(p.budget) /\ p.tools \subseteq {"read", "write", "workspace_search"} /\ HasWorkspaceMount(p)

\* Only what the Host reported ready, under the contract it must report.
RuntimePlanAvailable(h, tools) == tools \subseteq h.ready /\ h.contract

ValidTerminalOutput(p) == p.terminal \in p.skills /\ HasTerminalTemplate(p.task, p.terminal)

ValidForAgent(c, p) ==
  LET e == c.agents[p.agent] IN
  /\ e.max \in 1 .. 8 /\ p.toolPolicy = e.toolPolicy
  /\ e.key # NoKey \/ p.key # NoKey => p.key = e.key /\ p.policy = e.policy /\ PolicyHasItsHash(e.policy)
  /\ ValidInputAttachments(p.images, e.policy)
  /\ Cardinality(p.skills) <= e.max /\ p.skills \subseteq e.skills
  /\ \A f \in p.refs : RootOf[f] \in e.roots

Validate(c, p) ==
  /\ p.key = NoKey => p.images = 0
  /\ p.agent \in c.allowed.agents /\ ActiveAgentEntry(c, p)
  /\ IF p.mode = "dynamic" THEN ValidForAgent(c, p) ELSE p.images = 0
  /\ p.skills # {} /\ Cardinality(p.skills) <= 8
  /\ p.skills \subseteq c.allowed.skills /\ \A s \in p.skills : ActiveSkillMatches(c, s, p)
  /\ p.refs \subseteq c.allowed.knowledge
  /\ p.writeMode = "asset_write_intent" => c.allowed.formalWrite
  /\ ValidToolPolicy(p) /\ RuntimePlanAvailable(p.host, p.tools) /\ ValidTerminalOutput(p)

ValidatePlan ==
  /\ step = "frozen"
  /\ step' = IF Validate(catalog, runPlan) THEN "accepted" ELSE "refused"
  /\ UNCHANGED <<catalog, request, route, runPlan>>

\* The server is started again with a newer catalogue that passes its check.
PublishCatalog ==
  /\ step \in {"asked", "routed", "planned", "frozen"}
  /\ catalog' \in {c \in Catalogs : c.version > catalog.version /\ ValidateCapabilityPlanningCatalog(c)}
  /\ UNCHANGED <<request, step, route, runPlan>>

PlanningNext ==
  \/ Route \/ BuildDynamicPlan \/ BuildDeterministicPlan \/ FreezeContext \/ ValidatePlan \/ PublishCatalog

PlanningTypeOK ==
  /\ catalog \in Catalogs /\ request \in Requests /\ step \in PlanningSteps
  /\ route # NoPlan => route.agent \in Nat /\ route.skills \subseteq Skills
  /\ runPlan # NoPlan => runPlan.skills \subseteq Skills /\ runPlan.mode \in {"dynamic", "deterministic"}

-------------------------------------------------------------------------------
(* Properties *)

\* The chosen workspace is on the list the App shows, the user's membership opens it
\* and the intent is one its Agent serves.
MayChoose ==
  \E a \in ResolvePublicMetaWorkspace(catalog, request.user, request.key) :
    /\ request.key \in ListPublicMetaWorkspaces(catalog)
    /\ Serves(catalog.agents[a], request.intent)
    /\ request.intent.candidates = {} \/ a \in request.intent.candidates

\* What a plan may be refused for although the catalogue it was made from is still in
\* use: a formal write nobody permitted, images the workspace does not take, a Host
\* that does not offer its tools.
RightlyRefused(p) ==
  \/ p.version # catalog.version
  \/ p.writeMode = "asset_write_intent" /\ ~catalog.allowed.formalWrite
  \/ ~ValidInputAttachments(p.images, catalog.agents[p.agent].policy) \/ (p.key = NoKey /\ p.images > 0)
  \/ ~RuntimePlanAvailable(p.host, p.tools)

\* With a catalogue that passed its check, a workspace on the public list can be
\* chosen whenever the user may, and a plan the planner makes is one the validator
\* accepts, unless the catalogue changed or what the user sent, may do or the Host
\* offers does not fit (L1AgentRouter.Route, CapabilityPlanner.Plan and Validate).
ListedWorkspaceIsPlanned ==
  /\ step = "unrouted" => ~MayChoose
  /\ step = "refused" /\ runPlan.mode = "dynamic" => RightlyRefused(runPlan)
===============================================================================
