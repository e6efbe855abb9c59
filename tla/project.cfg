SPECIFICATION Spec
CONSTANTS
  Clients = {c1, c2}
  Configs <- MCConfigs
  Flows <- MCFlows
  EditAgents = {"planner", "helper"}
  Models = {"gpt"}
  Messages = {{"implement"}, {"research", "planword"}, {"short", "mutate"}, {"status"}}
  Answers <- MCAnswers
  MaxRequests = 2
SYMMETRY Symmetry
INVARIANTS TypeOK Kept Published PlansRun Reviewed PlansFirst
CHECK_DEADLOCK FALSE
