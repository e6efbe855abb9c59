------------------------------ MODULE MCProject ------------------------------
(* Values of the constants of ProjectFiles: a project with two agents of the *)
(* team, one with external agents that hand over to each other.              *)
EXTENDS ProjectFiles

Team == [NewSpec EXCEPT
  !.agents = [a \in {"product_pm", "planner", "coder"} |-> "gpt"], !.refs = {"gpt"}, !.skill = "on"]
Chain == [NewSpec EXCEPT
  !.agents = [a \in {"helper", "worker"} |-> CliBacked], !.refs = {"gpt", CliBacked},
  !.edges = {[at |-> 1, from |-> "helper", to |-> "worker"]}]
MCConfigs == {Team, Chain}

MCFlows ==
  {[NoSettings EXCEPT !.entry = "planner", !.policy = "always"],
   [NoSettings EXCEPT !.order = << "coder", "planner" >>, !.disabled = {"coder"},
                      !.policy = "never", !.roles = {"planner"}]}

Said == [mode |-> "workspace_run", confidence |-> 90, asks |-> FALSE, manual |-> NoAgent,
         roles |-> << >>, agent |-> NoAgent, review |-> FALSE, goal |-> {"blank"}]
MCAnswers ==
  {Said, [Said EXCEPT !.mode = "direct_reply"],
   [Said EXCEPT !.agent = "helper", !.confidence = 50],
   [Said EXCEPT !.mode = "clarify", !.confidence = 50, !.asks = TRUE],
   [Said EXCEPT !.agent = "helper", !.confidence = 0, !.goal = {"implement"}],
   [Said EXCEPT !.roles = << "coder", "researcher", "coder" >>]}

Symmetry == Permutations(Clients)
==============================================================================
