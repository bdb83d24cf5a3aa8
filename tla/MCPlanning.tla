------------------------------ MODULE MCPlanning ------------------------------
(***************************************************************************)
(* Three catalogues, two memberships and four intents for Planning.        *)
(***************************************************************************)
EXTENDS Planning

\* An Agent of the server's own, and two that users may choose.
General == [active |-> TRUE, selectable |-> FALSE, key |-> NoKey, policy |-> "none", default |-> "chat",
            categories |-> {"talk"}, tasks |-> {"chat"}, scopes |-> {"*"}, skills |-> {1, 2}, roots |-> {"method"},
            max |-> 1, toolPolicy |-> "standard", level |-> 0, features |-> {}]
Strategy == [General EXCEPT !.selectable = TRUE, !.key = "strategy_ws", !.policy = "text", !.default = "strategy",
             !.tasks = {"strategy", "chat"}, !.skills = {2, 3}, !.roots = {}, !.max = 2, !.level = 1]
Visual == [Strategy EXCEPT !.key = "visual_ws", !.policy = "image_required", !.default = "visual",
           !.tasks = {"visual"}, !.skills = {3}, !.level = 0]
\* Three skills, one with a knowledge reference below a root of the first Agent.
Skill == [active |-> TRUE, tasks |-> {"*"}, categories |-> {}, agents |-> {}, needs |-> {}, refs |-> {}, priority |-> 1]
First == [version |-> 1, agents |-> <<General, Strategy, Visual>>,
          skills |-> <<[Skill EXCEPT !.refs = {"index"}], [Skill EXCEPT !.priority = 2, !.needs = {"workspace_read"}, !.agents = {1, 2}],
                       [Skill EXCEPT !.tasks = {"strategy", "visual"}]>>,
          allowed |-> [agents |-> {1, 2, 3}, skills |-> {1, 2, 3}, knowledge |-> {"index", "method", "other"}, formalWrite |-> FALSE]]
\* The general Agent leaves, skills change, formal writes are permitted.
Second == [First EXCEPT !.version = 2, !.agents[1].active = FALSE, !.agents[2].level = 0, !.agents[3].tasks = {"visual", "chat"},
           !.skills[3].refs = {"other"}, !.allowed.formalWrite = TRUE]
\* Two workspaces have one key.
Third == [First EXCEPT !.version = 3, !.agents[3].key = "strategy_ws"]
Intent == [category |-> "talk", task |-> "chat", scope |-> "product_thread", risk |-> "low", candidates |-> {}, capabilities |-> {}]
MCRequests == [user : {[level |-> 0, features |-> {}], [level |-> 1, features |-> {}]}, key : {NoKey, "strategy_ws", "visual_ws"}, images : 0 .. 1,
               intent : {Intent, [Intent EXCEPT !.task = "strategy"], [Intent EXCEPT !.task = "visual"],
                         [Intent EXCEPT !.capabilities = {"workspace_read"}, !.risk = "formal_write"]}]
OneRequest == CHOOSE r \in MCRequests : TRUE
MCHosts == {[ready |-> {"read", "write"}, contract |-> TRUE], [ready |-> {"write"}, contract |-> TRUE]}
MCCatalogs == {First, Second, Third}
MCRoot == [f \in {"index", "other"} |-> IF f = "index" THEN "method" ELSE "elsewhere"]
MCRegistered == [t \in {"chat", "strategy", "visual"} |-> IF t = "strategy" THEN {3} ELSE {}]
MCFixed == [t \in {"chat", "strategy", "visual"} |-> IF t = "strategy" THEN <<3>> ELSE IF t = "chat" THEN <<2, 1>> ELSE <<>>]
===============================================================================
