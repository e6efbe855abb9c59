------------------------------- MODULE RoleFlow -------------------------------
(***************************************************************************)
(* What a chat message becomes: the route (internal/orchestration/router.go *)
(* and gateway/semantic_router.go), the settings applied to it, and the    *)
(* tasks planned for it on one graph (gateway/run_handler.go).             *)
(*                                                                         *)
(* A message is the set of things its words ask for; a decision keeps what *)
(* the plan depends on.  A graph is a record with                          *)
(*   agents, a function from agent ids to what backs the agent: a model,   *)
(*           "cli" (an external agent and its runtime) or "tool";          *)
(*   refs,   the models, and "cli" for the runtime, the graph defines;     *)
(*   edges,  the set of its handoffs [at, from, to], at a place in the     *)
(*           file.                                                         *)
(***************************************************************************)
EXTENDS Naturals, Sequences, FiniteSets, SequencesExt

NoAgent == "nobody"
ToolBacked == "tool"
CliBacked == "cli"

(* The pack developer-team: its roles in the manifest's order, what they   *)
(* require, and which of their texts contain a word (roleHas).             *)
Manifest == << "product_pm", "planner", "researcher", "coder", "reporter" >>
Entrypoints == {"product_pm"}
RequiredSkills ==
  [product_pm |-> {"planning"}, planner |-> {"planning"}, researcher |-> {"research"},
   coder |-> {"coding"}, reporter |-> {"reporting"}]
RequiredTools ==
  [product_pm |-> {}, planner |-> {}, researcher |-> {"read_project"},
   coder |-> {"read_project", "write_project", "run_checks"}, reporter |-> {}]
RoleHas == [plan |-> {"planner"}, research |-> {"researcher"}, report |-> {"reporter"},
            code |-> {"coder"}]
Requiring(skills, tools) ==
  {r \in ToSet(Manifest) : \/ RequiredSkills[r] \intersect skills # {}
                           \/ RequiredTools[r] \intersect tools # {}}

(* The members of a set that a sequence mentions, in the order of their    *)
(* first mention.                                                          *)
Mentioned(seq, set) ==
  LET found == set \intersect ToSet(seq)
      at(a) == CHOOSE i \in DOMAIN seq : seq[i] = a /\ \A j \in 1 .. i - 1 : seq[j] # a
      before(a) == Cardinality({b \in found : at(b) < at(a)})
  IN [i \in 1 .. Cardinality(found) |-> CHOOSE a \in found : before(a) = i - 1]

(* All agent ids in the order of sort.Strings.                             *)
Sorted == << "architect", "coder", "helper", "planner", "product_pm", "reporter",
             "researcher", "worker" >>
Agents == ToSet(Sorted)

(* What settings and decisions may name, agents or not.                    *)
Ids == Agents \union {NoAgent, "unknown"}
First(ids) == IF ids = {} THEN NoAgent ELSE Mentioned(Sorted, ids)[1]

-----------------------------------------------------------------------------
(* The rule router.                                                        *)
Topics == {"blank", "short", "status", "casual", "hey", "planword", "roadmap",
           "research", "fresh", "implement", "mutate"}

WantsPlan(m) == m \intersect {"planword", "roadmap"} # {}
WantsResearch(m) == "research" \in m
WantsFreshInfo(m) == "fresh" \in m
WantsImplementation(m) == "implement" \in m
WantsMutation(m) == "mutate" \in m
HasWorkspaceIntent(m) == \/ WantsPlan(m) \/ WantsResearch(m) \/ WantsFreshInfo(m)
                         \/ WantsImplementation(m) \/ WantsMutation(m)
IsDirectQuery(m) ==
  "status" \in m /\ m \intersect {"implement", "research", "planword"} = {}
IsCasualChat(m) ==
  \/ "casual" \in m
  \/ /\ "hey" \in m
     /\ ~WantsImplementation(m) /\ ~WantsResearch(m) /\ ~WantsPlan(m)
IsAmbiguous(m) == "short" \in m

DefaultAgent(agents) == IF "product_pm" \in agents THEN "product_pm" ELSE First(agents)

Mode == {"workspace_run", "clarify", "direct_reply"}
Decision ==
  [mode : Mode, confidence : 0 .. 100, asks : BOOLEAN, manual : Ids,
   roles : Seq(Ids), agent : Ids, review : BOOLEAN, goal : SUBSET Topics]

(* What the words say the message is, and how sure the router is, in       *)
(* percent; an agent picked by hand rules the kinds of chat out.           *)
Reading(m, manual) ==
  IF "blank" \in m THEN [mode |-> "clarify", confidence |-> 95]
  ELSE IF ~manual /\ IsDirectQuery(m) THEN [mode |-> "direct_reply", confidence |-> 80]
  ELSE IF ~manual /\ IsCasualChat(m) THEN [mode |-> "direct_reply", confidence |-> 90]
  ELSE IF ~manual /\ IsAmbiguous(m) THEN [mode |-> "clarify", confidence |-> 80]
  ELSE IF ~manual /\ ~HasWorkspaceIntent(m)
       THEN [mode |-> "direct_reply", confidence |-> 75]
  ELSE [mode |-> "workspace_run",
        confidence |-> IF WantsImplementation(m) \/ WantsResearch(m)
                            \/ WantsFreshInfo(m) \/ WantsPlan(m) THEN 70 ELSE 55]

Route(m, manual, agents) ==
  LET reading == Reading(m, manual # NoAgent) IN
  [mode |-> reading.mode, confidence |-> reading.confidence,
   asks |-> reading.mode = "clarify", manual |-> manual, roles |-> << >>,
   agent |-> IF manual # NoAgent THEN manual ELSE DefaultAgent(agents),
   review |-> /\ reading.mode = "workspace_run"
              /\ WantsImplementation(m) \/ WantsMutation(m),
   goal |-> m]

(* The model router.  Its answer is any decision of a known mode: a blank  *)
(* agent or goal and a confidence of 0 are fields the answer left out, and *)
(* `asks` says that it names missing inputs and asks for them.             *)
NeedsModel(d) == ~(d.mode = "direct_reply" /\ d.confidence >= 75)
Accepted(answer) ==
  \/ answer.confidence = 0
  \/ answer.confidence >= 60
  \/ answer.mode = "clarify" /\ answer.asks

(* Mutant of Merge: the answer's word on the review is the last. *)
MergeReview(answer, fallback) ==
  [answer EXCEPT
     !.agent = IF @ = NoAgent THEN fallback.agent ELSE @,
     !.confidence = IF @ = 0 THEN fallback.confidence ELSE @,
     !.goal = IF "blank" \in @ THEN fallback.goal ELSE @,
     !.manual = fallback.manual]

Merge(answer, fallback) ==
  [answer EXCEPT
     !.agent = IF @ = NoAgent THEN fallback.agent ELSE @,
     !.confidence = IF @ = 0 THEN fallback.confidence ELSE @,
     !.goal = IF "blank" \in @ THEN fallback.goal ELSE @,
     !.manual = fallback.manual,
     !.review = @ \/ fallback.review]

(* The agent whose model is asked, and whether there is one to ask.        *)
RouterAgent(d) == IF d.manual # NoAgent THEN d.manual ELSE d.agent
CanAsk(graph, d) ==
  /\ RouterAgent(d) \in DOMAIN graph.agents
  /\ graph.agents[RouterAgent(d)] \notin {ToolBacked, CliBacked}

-----------------------------------------------------------------------------
(* The settings of the project's role flow, applied when a run is started: *)
(* an entrypoint, an order of roles, those that are disabled, when plans   *)
(* are reviewed, and roles with settings of their own.                     *)
Flow == [entry : Ids, order : Seq(Ids), disabled : SUBSET Ids,
         policy : {"auto", "always", "never"}, roles : SUBSET Ids]
NoSettings == [entry |-> NoAgent, order |-> << >>, disabled |-> {}, policy |-> "auto",
               roles |-> {}]

ApplySettings(d, s) ==
  [d EXCEPT
     !.agent = IF s.entry # NoAgent /\ d.manual = NoAgent THEN s.entry ELSE @,
     !.roles = IF s.order # << >>
               THEN Mentioned(s.order, ToSet(s.order) \ s.disabled) ELSE @,
     !.review = CASE s.policy = "always" -> TRUE
                  [] s.policy = "never" -> FALSE
                  [] OTHER -> @]

-----------------------------------------------------------------------------
(* The tasks.                                                              *)
RoleIDsFromDecision(roles, available) == Mentioned(roles, available)

(* One role for each thing wanted: the first in the manifest that is there *)
(* and not chosen yet.                                                     *)
AppendRole(available, chosen, wanted) ==
  LET fit == {i \in DOMAIN Manifest : /\ Manifest[i] \in available \intersect wanted
                                       /\ Manifest[i] \notin ToSet(chosen)}
  IN IF fit = {} THEN chosen ELSE Append(chosen, Manifest[Min(fit)])

PlanRoles == RoleHas.plan \union Requiring({"planning"}, {})
ResearchRoles == RoleHas.research \union
                 Requiring({"research"}, {"read_project", "search", "fetch"})
CodeRoles == RoleHas.code \union Requiring({"coding"}, {"write_project"})
ReportRoles == RoleHas.report \union Requiring({"reporting"}, {})

(* Mutant of DefaultRoleIDs: the coder is looked for before the planner. *)
CoderFirst(available, m) ==
  LET lead == AppendRole(available, << >>, Entrypoints)
      code == IF WantsImplementation(m) THEN AppendRole(available, lead, CodeRoles) ELSE lead
      plan == AppendRole(available, code, PlanRoles)
      facts == IF WantsResearch(m) \/ WantsFreshInfo(m)
               THEN AppendRole(available, plan, ResearchRoles) ELSE plan
      ids == AppendRole(available, facts, ReportRoles)
  IN IF ids # << >> THEN ids ELSE AppendRole(available, << >>, available)

DefaultRoleIDs(available, m) ==
  LET lead == AppendRole(available, << >>, Entrypoints)
      plan == AppendRole(available, lead, PlanRoles)
      facts == IF WantsResearch(m) \/ WantsFreshInfo(m)
               THEN AppendRole(available, plan, ResearchRoles) ELSE plan
      code == IF WantsImplementation(m) THEN AppendRole(available, facts, CodeRoles) ELSE facts
      ids == AppendRole(available, code, ReportRoles)
  IN IF ids # << >> THEN ids ELSE AppendRole(available, << >>, available)

(* Mutant of MatchRoles: roles the decision names are not looked up. *)
MatchNamed(graph, start, d) ==
  LET available == ToSet(Manifest) \intersect DOMAIN graph.agents IN
  IF start \notin Entrypoints THEN << >>
  ELSE IF d.roles # << >> THEN d.roles ELSE DefaultRoleIDs(available, d.goal)

MatchRoles(graph, start, d) ==
  LET available == ToSet(Manifest) \intersect DOMAIN graph.agents
      named == RoleIDsFromDecision(d.roles, available)
  IN IF start \notin Entrypoints THEN << >>
     ELSE IF named # << >> THEN named ELSE DefaultRoleIDs(available, d.goal)

Outgoing(graph, a) == {e \in graph.edges : e.from = a}
Successor(graph, a) ==
  (CHOOSE e \in Outgoing(graph, a) : \A f \in Outgoing(graph, a) : e.at <= f.at).to

(* The chain of handoffs from an agent follows the first edge out of each, *)
(* as far as it leads to agents of the graph that were not there before.   *)
Chains(graph, start) ==
  {c \in UNION {[1 .. n -> DOMAIN graph.agents] : n \in 1 .. Cardinality(graph.edges) + 1} :
     /\ c[1] = start
     /\ \A i, j \in DOMAIN c : c[i] = c[j] => i = j
     /\ \A i \in 1 .. Len(c) - 1 :
          Outgoing(graph, c[i]) # {} /\ Successor(graph, c[i]) = c[i + 1]}
HandoffPlan(graph, start) ==
  IF start \notin DOMAIN graph.agents THEN << start >>
  ELSE CHOOSE c \in Chains(graph, start) : \A d \in Chains(graph, start) : Len(d) <= Len(c)

TaskPlan(graph, packed, start, d) ==
  LET roles == IF packed THEN MatchRoles(graph, start, d) ELSE << >>
  IN IF roles # << >> THEN roles ELSE HandoffPlan(graph, start)

(* Executor.Validate: may a run start at this agent?  An external agent is *)
(* fine at the head of a chain of single handoffs between external agents. *)
Chained(graph, start) ==
  LET chain == HandoffPlan(graph, start) IN
  /\ \A a \in ToSet(chain) : /\ graph.agents[a] = CliBacked
                              /\ Cardinality(Outgoing(graph, a)) <= 1
  /\ Outgoing(graph, Last(chain)) = {}

Startable(graph, a) ==
  /\ a \in DOMAIN graph.agents
  /\ graph.agents[a] # ToolBacked
  /\ graph.agents[a] \in graph.refs
  /\ graph.agents[a] = CliBacked \/ Outgoing(graph, a) = {}
  /\ graph.agents[a] = CliBacked => Chained(graph, a)

=============================================================================
