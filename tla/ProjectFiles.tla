----------------------------- MODULE ProjectFiles -----------------------------
(***************************************************************************)
(* A project's definition: nomici.yaml, which requests of the console and  *)
(* commands read, change and write back with no lock between them          *)
(* (internal/projectconfig, internal/packs, internal/cli); the graph       *)
(* snapshots compiled from it (internal/graph); and the runs that chats    *)
(* and the console start on the latest of them (internal/gateway).         *)
(*                                                                         *)
(* A step is one access to the file or the database.  os.WriteFile empties *)
(* the file and then writes it.  The file is a record with the agents,     *)
(* refs and edges of a graph (see RoleFlow), the settings of the role flow *)
(* and the project's definition of one skill.  Snapshots are in the order  *)
(* of their insertion.  The code takes the one compiled last for the       *)
(* latest, which is another one only when requests overlap.                *)
(***************************************************************************)
EXTENDS RoleFlow, TLC

CONSTANTS
  Clients,    (* requests and commands that may be at work at a time       *)
  Configs,    (* what the file may hold at the start                       *)
  Flows,      (* settings of the role flow that a request may save         *)
  EditAgents, (* agents that requests are about                            *)
  Models,     (* model profiles                                            *)
  Messages,   (* what chats and runs ask for                               *)
  Answers,    (* what the model may answer to the router                   *)
  MaxRequests (* bound: requests made                                      *)

Backing == Models \union {CliBacked, ToolBacked}
Skill == {"none", "on", "off"}
Handoffs == {E \in SUBSET [at : Nat, from : Agents, to : Agents] : IsFiniteSet(E)}
Project == [is : {"spec"}, agents : UNION {[S -> Backing] : S \in SUBSET Agents},
            refs : SUBSET Backing, edges : Handoffs, flow : Flow, skill : Skill]

ASSUME MessagesAssumption == Messages \subseteq SUBSET Topics
ASSUME ModelsAssumption ==
  Models # {} /\ Models \intersect {ToolBacked, CliBacked} = {} /\ MaxRequests \in Nat
ASSUME ConfigsAssumption == Configs \subseteq Project
ASSUME AsksAssumption == Flows \subseteq Flow /\ EditAgents \subseteq Agents
ASSUME AnswersAssumption == Answers \subseteq Decision

VARIABLES
  file,      (* nomici.yaml                                                *)
  graphs,    (* graph_snapshots                                            *)
  packed,    (* pack_installations has the developer team                  *)
  profiles,  (* provider_profiles                                          *)
  sessions,  (* the runs created, as they were planned                     *)
  req,       (* what each client is about to do                            *)
  given,     (* requests made                                              *)
  kept,      (* agents that no request may lose: see Gained                *)
  calm       (* no two were at work at once, and nothing failed            *)

vars == << file, graphs, packed, profiles, sessions, req, given, kept, calm >>

NoAgents == [a \in {} |-> ToolBacked]
NoFile == [is |-> "none"]
Torn == [is |-> "torn"]
NewSpec == [is |-> "spec", agents |-> NoAgents, refs |-> {}, edges |-> {},
            flow |-> NoSettings, skill |-> "none"]

(* Validate, and Compile.                                                  *)
Valid(spec) ==
  /\ \A a \in DOMAIN spec.agents : spec.agents[a] \in spec.refs \union {ToolBacked}
  /\ \A e \in spec.edges : {e.from, e.to} \subseteq DOMAIN spec.agents
Compile(spec) == [agents |-> spec.agents, refs |-> spec.refs, edges |-> spec.edges]

Runnable(graph) == DOMAIN graph.agents # {} /\ graph.refs \intersect Models # {}
DefaultTeam(model) ==
  [agents |-> [r \in ToSet(Manifest) |-> model], refs |-> {model}, edges |-> {}]

(* Requests.  `do` names the handler or the command.                       *)
AgentKinds == {"create", "update", "copy", "delete", "enable", "disable"}
FlowKinds == {"entrypoint", "role_on", "role_off"}
SkillKinds == {"skill", "skill_off", "skill_delete"}
SetupKinds == {"install", "setup", "setup_pack"}
RunKinds == {"chat", "run", "test"}
Asked(kinds, agents, flows, messages) ==
  [do : kinds, agent : agents, flow : flows, message : messages]
Request ==
  Asked(AgentKinds \union FlowKinds, EditAgents, {NoSettings}, {{}})
    \union Asked({"flow"}, {NoAgent}, Flows, {{}})
    \union Asked(SkillKinds \union SetupKinds, {NoAgent}, {NoSettings}, {{}})
    \union Asked(RunKinds, EditAgents \union {NoAgent}, {NoSettings}, Messages)

NoDecision == [mode |-> "none"]
NoRequest == [do |-> "none", agent |-> NoAgent, flow |-> NoSettings, message |-> {}]
Idle == [ask |-> NoRequest, pc |-> "idle", todo |-> << >>, spec |-> NoFile,
         graph |-> 0, start |-> NoAgent, d |-> NoDecision, back |-> ToolBacked,
         policies |-> {}]

Init ==
  /\ file \in Configs \union {NoFile}
  /\ graphs = IF file # NoFile /\ Valid(file) THEN << Compile(file) >> ELSE << >>
  /\ packed \in IF file = NoFile THEN {FALSE} ELSE BOOLEAN
  /\ profiles = IF file = NoFile THEN {} ELSE Models
  /\ sessions = {}
  /\ req = [c \in Clients |-> Idle]
  /\ given = 0
  /\ kept = IF file = NoFile THEN {} ELSE DOMAIN file.agents
  /\ calm = TRUE

-----------------------------------------------------------------------------
(* What a request does to the file: the edits of each kind, in order.  The *)
(* sections on sandbox and web tools are written whole and change nothing  *)
(* that is kept here; but the file is read and written for each.           *)
Edits(do) ==
  CASE do = "copy" -> << "ref", "put" >>
    [] do \in {"create", "update"} -> << "put" >>
    [] do \in FlowKinds \union {"flow"} -> << "flow" >>
    [] do = "install" -> << "team" >>
    [] do = "setup" -> << "ensure", "section", "section" >>
    [] do = "setup_pack" -> << "team", "section", "section" >>
    [] OTHER -> << do >>

(* Mutant of Compiles: a deletion is only saved. *)
CompilesOthers(do) == do \notin SkillKinds \union {"delete"}

Compiles(do) == do \notin SkillKinds

(* Kinds whose handler reads the file once before it loads it to edit it.  *)
ReadsFirst(do) ==
  do \in FlowKinds \union {"update", "copy", "delete", "skill_off", "skill_delete"}

TeamAgents == ToSet(Manifest) \union {"architect"}

(* SetAgentEnabled makes an order of all agents if there is none: without  *)
(* one the disabled roles would not be looked at.                          *)
ToggleAgent(spec, a, on) ==
  LET flow == spec.flow
      order == IF flow.order # << >> THEN flow.order ELSE Mentioned(Sorted, DOMAIN spec.agents)
      disabled == IF on THEN flow.disabled \ {a} ELSE flow.disabled \union {a}
  IN [spec EXCEPT !.flow = [flow EXCEPT !.order = order, !.disabled = disabled]]

PutAgent(spec, a, back) ==
  [spec EXCEPT !.agents = [b \in DOMAIN spec.agents \union {a} |->
                             IF b = a THEN back ELSE spec.agents[b]]]

DeleteAgent(spec, a) ==
  [spec EXCEPT
     !.agents = [b \in DOMAIN spec.agents \ {a} |-> spec.agents[b]],
     !.edges = {e \in spec.edges : a \notin {e.from, e.to}}]

SetSkill(spec, status) == [spec EXCEPT !.skill = status]

InstallTeam(spec, model) ==
  [spec EXCEPT
     !.agents = [b \in DOMAIN spec.agents \union TeamAgents |->
                   IF b \in DOMAIN spec.agents THEN spec.agents[b] ELSE model],
     !.refs = spec.refs \union {model}]

Edit(edit, spec, r, model) ==
  CASE edit = "ref" -> [spec EXCEPT !.refs = spec.refs \union {model}]
    [] edit = "put" -> PutAgent(spec, r.ask.agent, r.back)
    [] edit = "delete" -> DeleteAgent(spec, r.ask.agent)
    [] edit \in {"enable", "disable"} ->
         ToggleAgent(spec, r.ask.agent, edit = "enable")
    [] edit = "flow" -> [spec EXCEPT !.flow = r.ask.flow]
    [] edit = "team" -> InstallTeam(spec, model)
    [] edit = "skill" -> SetSkill(spec, "on")
    [] edit = "skill_off" -> SetSkill(spec, "off")
    [] edit = "skill_delete" -> SetSkill(spec, "none")
    [] edit \in {"ensure", "section"} -> spec

(* What an edit is refused for once the file is loaded.                    *)
CanEdit(edit, spec, r, model) ==
  CASE edit \in {"delete", "enable", "disable"} -> r.ask.agent \in DOMAIN spec.agents
    [] edit = "flow" -> r.ask.flow.roles \subseteq DOMAIN spec.agents
    [] edit = "team" -> /\ Valid(spec)
                        /\ \A a \in TeamAgents \intersect DOMAIN spec.agents :
                             spec.agents[a] = model
    [] edit = "skill_delete" -> spec.skill # "none"
    [] OTHER -> TRUE

-----------------------------------------------------------------------------
fileVars == << graphs, packed, profiles, sessions, given, kept, calm >>

Step(c, r) == req' = [req EXCEPT ![c] = r]
End(c) == Step(c, Idle)
At(c, pc) == req[c].pc = pc

(* A request comes in.  Setup starts with the model profile.               *)
Give(c) ==
  /\ At(c, "idle") /\ given < MaxRequests
  /\ \E ask \in Request :
       /\ Step(c, [Idle EXCEPT
                     !.ask = ask, !.todo = Edits(ask.do),
                     !.back = CHOOSE m \in Models : TRUE,
                     !.pc = CASE ask.do \in {"setup", "setup_pack"} -> "profile"
                              [] ask.do = "chat" -> "route"
                              [] ask.do \in RunKinds \ {"chat"} -> "start"
                              [] ReadsFirst(ask.do) -> "read"
                              [] OTHER -> "load"])
       /\ kept' = IF ask.do = "delete" THEN kept \ {ask.agent} ELSE kept
  /\ given' = given + 1
  /\ calm' = (calm /\ \A o \in Clients : At(o, "idle"))
  /\ UNCHANGED << file, graphs, packed, profiles, sessions >>

(* A store fails, a request's context ends, a command is killed, the       *)
(* gateway goes down: what was done stays done.                            *)
CutOff(c) ==
  /\ ~At(c, "idle")
  /\ End(c)
  /\ calm' = FALSE
  /\ UNCHANGED << file, graphs, packed, profiles, sessions, given, kept >>

SaveProfile(c) ==
  /\ At(c, "profile")
  /\ \E m \in Models :
       /\ profiles' = profiles \union {m}
       /\ Step(c, [req[c] EXCEPT !.pc = "load", !.back = m])
  /\ UNCHANGED << file, graphs, packed, sessions, given, kept, calm >>

(* The look at the file before the edit.  An update puts back the record   *)
(* it saw; the commands on the role flow put back the settings they saw;   *)
(* copy and delete tell a built-in agent by its absence from the file,     *)
(* which they cannot tell from a file they cannot read.                    *)
CliFlow(ask, flow) ==
  CASE ask.do = "entrypoint" -> [flow EXCEPT !.entry = ask.agent]
    [] ask.do = "role_on" -> [flow EXCEPT !.disabled = flow.disabled \ {ask.agent}]
    [] ask.do = "role_off" -> [flow EXCEPT !.disabled = flow.disabled \union {ask.agent}]

IsBuiltIn(a) ==
  /\ file \in {NoFile, Torn} \/ a \notin DOMAIN file.agents
  /\ profiles # {} /\ a \in ToSet(Manifest)

Read(c) ==
  /\ At(c, "read")
  /\ LET r == req[c]
         a == r.ask.agent
         go == [r EXCEPT !.pc = "load"]
         whole == file \notin {NoFile, Torn}
     IN CASE r.ask.do = "update" /\ whole /\ a \in DOMAIN file.agents ->
               Step(c, [go EXCEPT !.back = file.agents[a]])
          [] r.ask.do = "copy" /\ IsBuiltIn(a) ->
               \E m \in profiles : Step(c, [go EXCEPT !.back = m])
          [] r.ask.do = "delete" /\ ~IsBuiltIn(a) -> Step(c, go)
          [] r.ask.do \in FlowKinds /\ whole ->
               Step(c, [go EXCEPT !.ask = [r.ask EXCEPT !.flow = CliFlow(r.ask, file.flow)]])
          [] r.ask.do \in {"skill_off", "skill_delete"} /\ whole /\ file.skill # "none" ->
               Step(c, go)
          [] OTHER -> End(c)
  /\ UNCHANGED << file, fileVars >>

(* Mutant of Load: a file that cannot be read is started over. *)
LoadAnyhow(c) ==
  /\ At(c, "load")
  /\ LET r == req[c]
         edit == Head(r.todo)
         spec == IF file \in {NoFile, Torn} THEN NewSpec ELSE file
     IN IF CanEdit(edit, spec, r, r.back)
        THEN Step(c, [r EXCEPT !.pc = "truncate", !.spec = Edit(edit, spec, r, r.back)])
        ELSE End(c)
  /\ UNCHANGED << file, fileVars >>

(* loadOrCreate.  Setup without a pack only makes sure that a file exists. *)
Load(c) ==
  /\ At(c, "load")
  /\ LET r == req[c]
         edit == Head(r.todo)
         spec == IF file = NoFile THEN NewSpec ELSE file
     IN CASE edit = "ensure" /\ file # NoFile ->
               Step(c, [r EXCEPT !.todo = Tail(r.todo)])
          [] edit = "team" /\ r.back \notin profiles -> End(c)
          [] edit # "ensure" /\ file = Torn -> End(c)
          [] file # Torn /\ ~CanEdit(edit, spec, r, r.back) -> End(c)
          [] OTHER -> Step(c, [r EXCEPT !.pc = "truncate",
                                        !.spec = Edit(edit, spec, r, r.back)])
  /\ UNCHANGED << file, fileVars >>

Truncate(c) ==
  /\ At(c, "truncate")
  /\ file' = Torn
  /\ Step(c, [req[c] EXCEPT !.pc = "write"])
  /\ UNCHANGED fileVars

(* From here on the agents of the file are not to be lost, unless a request*)
(* is at work to delete them; or another one is about to put back what it  *)
(* read before, which has none of what this one has made.                  *)
Gained(c) ==
  {a \in DOMAIN req[c].spec.agents :
     \A o \in Clients : /\ o # c => req[o].pc \notin {"truncate", "write"}
                        /\ req[o].ask.do = "delete" => req[o].ask.agent # a}

(* If another has written since, what is left of it may follow the text.   *)
Write(c) ==
  /\ At(c, "write")
  /\ \/ file' = req[c].spec /\ kept' = kept \union Gained(c)
     \/ file # Torn /\ file' = Torn /\ kept' = kept
  /\ LET r == req[c]
         rest == Tail(r.todo)
         next == CASE Head(r.todo) = "team" -> "row"
                   [] Head(r.todo) # "team" /\ rest # << >> -> "load"
                   [] OTHER -> "compile"
     IN IF next = "compile" /\ ~Compiles(r.ask.do) THEN End(c)
        ELSE Step(c, [r EXCEPT !.pc = next, !.todo = rest, !.spec = NoFile])
  /\ UNCHANGED << graphs, packed, profiles, sessions, given, calm >>

SavePackInstallation(c) ==
  /\ At(c, "row")
  /\ packed' = TRUE
  /\ Step(c, [req[c] EXCEPT !.pc = IF req[c].todo = << >> THEN "compile" ELSE "load"])
  /\ UNCHANGED << file, graphs, profiles, sessions, given, kept, calm >>

(* Mutant of CompileFile: the file is compiled as it is. *)
CompileUnchecked(c) ==
  /\ At(c, "compile")
  /\ IF file # Torn THEN Step(c, [req[c] EXCEPT !.pc = "publish", !.spec = file])
     ELSE End(c)
  /\ UNCHANGED << file, fileVars >>

(* compileAndSave: the file is read once more, and what it holds by now is *)
(* compiled, if it is valid; the snapshot is inserted later.               *)
CompileFile(c) ==
  /\ At(c, "compile")
  /\ IF file # Torn /\ Valid(file)
     THEN Step(c, [req[c] EXCEPT !.pc = "publish", !.spec = file])
     ELSE End(c)
  /\ UNCHANGED << file, fileVars >>

Publish(c) ==
  /\ At(c, "publish")
  /\ graphs' = Append(graphs, Compile(req[c].spec))
  /\ End(c)
  /\ UNCHANGED << file, packed, profiles, sessions, given, kept, calm >>

-----------------------------------------------------------------------------
(* Runs.                                                                   *)
runVars == << file, profiles, given, kept, calm >>

Latest == IF graphs = << >> THEN Compile(NewSpec) ELSE Last(graphs)

(* A chat: its text is routed on the latest snapshot.  A message that the  *)
(* rules are not sure is chat goes to the model, if there is one to ask.   *)
RouteChat(c) ==
  /\ At(c, "route")
  /\ LET r == req[c]
         d == Route(r.ask.message, r.ask.agent, DOMAIN Latest.agents)
     IN CASE "blank" \in r.ask.message -> End(c)
          [] "blank" \notin r.ask.message /\ NeedsModel(d) /\ CanAsk(Latest, d) ->
               Step(c, [r EXCEPT !.pc = "answer", !.d = d])
          [] OTHER -> IF d.mode = "workspace_run"
                      THEN Step(c, [r EXCEPT !.pc = "start", !.d = d]) ELSE End(c)
  /\ UNCHANGED << file, fileVars >>

(* The model's answer: none, one below the threshold, or a decision.       *)
Answer(c) ==
  /\ At(c, "answer")
  /\ \E d \in {req[c].d} \union {Merge(a, req[c].d) : a \in {b \in Answers : Accepted(b)}} :
       IF d.mode = "workspace_run" THEN Step(c, [req[c] EXCEPT !.pc = "start", !.d = d])
       ELSE End(c)
  /\ UNCHANGED << file, fileVars >>

(* latestRunnableSnapshot: the snapshot may be a newer one than the one    *)
(* the message was routed on.                                              *)
StartRun(c) ==
  /\ At(c, "start")
  /\ IF graphs # << >> /\ Runnable(Latest)
     THEN Step(c, [req[c] EXCEPT !.pc = "settings", !.graph = Len(graphs)])
     ELSE IF profiles = {} THEN End(c)
     ELSE Step(c, [req[c] EXCEPT !.pc = "team"])
  /\ UNCHANGED << file, fileVars >>

CreateDefaultTeam(c) ==
  /\ At(c, "team")
  /\ \E m \in profiles : graphs' = Append(graphs, DefaultTeam(m))
  /\ packed' \in {packed, TRUE}
  /\ Step(c, [req[c] EXCEPT !.pc = "settings", !.graph = Len(graphs) + 1])
  /\ UNCHANGED << sessions, runVars >>

(* GetOrchestration's error is not looked at: no settings can be read from *)
(* a file that is just being written.                                      *)
Settings == IF file \in {NoFile, Torn} THEN NoSettings ELSE file.flow

(* The decision, the agent to start at, and whether a run may start there. *)
(* A test does all this twice: once for the preview, once for the run.     *)
ReadSettings(c) ==
  /\ At(c, "settings")
  /\ LET r == req[c]
         graph == graphs[r.graph]
         agent == IF r.ask.agent # NoAgent THEN r.ask.agent ELSE Settings.entry
         d == ApplySettings(
                IF r.d = NoDecision
                THEN Route(r.ask.message, agent, DOMAIN graph.agents) ELSE r.d, Settings)
         start == IF d.agent # NoAgent THEN d.agent
                  ELSE IF agent # NoAgent THEN agent ELSE DefaultAgent(DOMAIN graph.agents)
         preview == r.ask.do = "test" /\ r.d = NoDecision
         next == [r EXCEPT !.pc = "sandbox", !.d = d, !.start = start,
                           !.ask = [r.ask EXCEPT !.flow = Settings],
                           !.policies = r.policies \union {Settings.policy}]
     IN CASE preview -> Step(c, [next EXCEPT !.pc = "preview"])
          [] ~preview /\ Startable(graph, start) /\ "blank" \notin r.ask.message ->
               Step(c, next)
          [] OTHER -> End(c)
  /\ UNCHANGED << file, fileVars >>

(* ledgerTaskPlans writes the roles it matched back into the decision.     *)
Preview(c) ==
  /\ At(c, "preview")
  /\ LET r == req[c]
         roles == MatchRoles(graphs[r.graph], r.start, r.d)
     IN Step(c, [r EXCEPT !.pc = "start", !.start = NoAgent,
                          !.d = IF packed /\ r.start \in Entrypoints
                                THEN [r.d EXCEPT !.roles = roles] ELSE r.d])
  /\ UNCHANGED << file, fileVars >>

(* The file once more, for the sandbox; here an unreadable one is an error.*)
ReadSandbox(c) ==
  /\ At(c, "sandbox")
  /\ IF file = Torn THEN End(c) ELSE Step(c, [req[c] EXCEPT !.pc = "plan"])
  /\ UNCHANGED << file, fileVars >>

(* createRunLedger, with the tasks planned on the run's own snapshot.      *)
CreateSession(c) ==
  /\ At(c, "plan")
  /\ LET r == req[c] IN
     sessions' = sessions \union
       {[graph |-> r.graph, start |-> r.start, agent |-> r.ask.agent,
         tasks |-> TaskPlan(graphs[r.graph], packed, r.start, r.d),
         named |-> r.d.roles # << >>, review |-> r.d.review, policies |-> r.policies,
         message |-> r.ask.message, flow |-> r.ask.flow]}
  /\ End(c)
  /\ UNCHANGED << graphs, packed, runVars >>

-----------------------------------------------------------------------------
ClientStep(c) ==
  \/ Give(c) \/ CutOff(c)
  \/ SaveProfile(c) \/ Read(c) \/ Load(c) \/ Truncate(c) \/ Write(c)
  \/ SavePackInstallation(c) \/ CompileFile(c) \/ Publish(c)
  \/ RouteChat(c) \/ Answer(c) \/ StartRun(c) \/ CreateDefaultTeam(c)
  \/ ReadSettings(c) \/ Preview(c) \/ ReadSandbox(c) \/ CreateSession(c)

Next == \E c \in Clients : ClientStep(c)

Spec == Init /\ [][Next]_vars

-----------------------------------------------------------------------------
Graph(g) ==
  /\ DOMAIN g.agents \subseteq Agents /\ \A a \in DOMAIN g.agents : g.agents[a] \in Backing
  /\ g.refs \subseteq Backing /\ \A e \in g.edges : {e.from, e.to} \subseteq Agents

(* Types; and only graphs that Validate passed are ever published.         *)
TypeOK ==
  /\ file \notin {NoFile, Torn} => Graph(file) /\ file.skill \in Skill
  /\ \A i \in DOMAIN graphs : Graph(graphs[i]) /\ Valid(graphs[i])
  /\ packed \in BOOLEAN /\ profiles \subseteq Models /\ kept \subseteq Agents
  /\ \A c \in Clients : req[c].graph \in 0 .. Len(graphs)
  /\ given \in 0 .. MaxRequests /\ calm \in BOOLEAN

(* However requests and commands overlap, fail or are killed: an agent     *)
(* that nomici.yaml had at first, or that was written while nobody else    *)
(* was about to put back an older copy, is there as long as the file can   *)
(* be read and nobody asks to delete it.  No writer starts from less than  *)
(* a whole file.  (Of two edits that overlap the later one puts back what  *)
(* it read, without the agent that the earlier one made.)                  *)
Kept == file \notin {NoFile, Torn} => kept \subseteq DOMAIN file.agents

(* When requests came one after the other and none failed, the snapshot    *)
(* that runs start on is the file compiled, or the default team if the     *)
(* file has nobody to run, or else the file is one that Validate refuses:  *)
(* it is saved before it is compiled.                                      *)
Published ==
  calm /\ file # NoFile /\ (\A c \in Clients : At(c, "idle")) =>
    \/ ~Valid(file)
    \/ Latest.agents = file.agents
    \/ ~Runnable(Compile(file)) /\ \E m \in Models : Latest = DefaultTeam(m)

(* The tasks of a run are one or more agents of the snapshot the run is    *)
(* pinned to, none of them twice: whatever the model answered, whatever    *)
(* the role flow names, and though the message was routed on an earlier    *)
(* snapshot and agents were deleted since.                                 *)
PlansRun ==
  \A s \in sessions :
    /\ s.tasks # << >>
    /\ ToSet(s.tasks) \subseteq DOMAIN graphs[s.graph].agents
    /\ Cardinality(ToSet(s.tasks)) = Len(s.tasks)

(* A run whose message the rules read as work, and which asks to implement *)
(* or to change something, has its plan reviewed unless the settings say   *)
(* never: the model cannot talk it out of that.  (A message too short for  *)
(* the rules, or one they read as a question, may become a run without a   *)
(* review.)  And always means always.  A test reads the settings twice,    *)
(* and what the first reading said of the review may stand.                *)
AsksForReview(message, named) ==
  /\ Reading(message, named).mode = "workspace_run"
  /\ WantsImplementation(message) \/ WantsMutation(message)
Reviewed ==
  \A s \in sessions :
    \/ "never" \in s.policies \/ s.review
    \/ s.flow.policy # "always" /\ ~AsksForReview(s.message, s.agent # NoAgent)

(* Only the planner's task waits for the review.  So when nobody named the *)
(* roles the planner comes before the coder, unless the run starts at an   *)
(* external agent, which may hand over along its edges.                    *)
PlansFirst ==
  \A s \in sessions :
    LET graph == graphs[s.graph] IN
    s.start \in Entrypoints /\ graph.agents[s.start] # CliBacked
      /\ ~s.named /\ "planner" \in DOMAIN graph.agents =>
        \A j \in DOMAIN s.tasks :
          s.tasks[j] = "coder" => \E i \in 1 .. j - 1 : s.tasks[i] = "planner"

(* docs/rfcs/0003-agentspec-v0.1.md: a role that is disabled is skipped in *)
(* a run of the team for which no agent was named.  The code looks at the  *)
(* disabled roles only when the settings give an order of roles.           *)
DisabledIsSkipped ==
  \A s \in sessions :
    s.agent = NoAgent /\ s.start \in Entrypoints =>
      ToSet(s.tasks) \intersect (s.flow.disabled \ {s.start}) = {}

=============================================================================
