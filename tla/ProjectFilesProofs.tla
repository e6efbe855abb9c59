-------------------------- MODULE ProjectFilesProofs --------------------------
(***************************************************************************)
(* Proofs about ProjectFiles, for any projects, settings, messages and     *)
(* answers of a model, and any number of requests and commands that        *)
(* overlap and are cut off.                                                *)
(***************************************************************************)
EXTENDS ProjectFiles, RoleFlowProofs

FileKinds == AgentKinds \union FlowKinds \union {"flow"} \union SkillKinds \union SetupKinds
FileEdit == {"ref", "put", "flow", "team", "ensure", "section", "delete", "enable", "disable",
             "skill", "skill_off", "skill_delete"}
Place == {"idle", "profile", "read", "load", "truncate", "write", "row", "compile", "publish",
          "route", "answer", "start", "team", "settings", "preview", "sandbox", "plan"}
Policy == {"auto", "always", "never"}
AgentMap == UNION {[S -> Backing] : S \in SUBSET Agents}
Snapshot == [agents : AgentMap, refs : SUBSET Backing, edges : Handoffs]

Ask == [do : FileKinds \union RunKinds \union {"none"}, agent : Agents \union {NoAgent},
        flow : Flow, message : SUBSET Topics]
Req == [ask : Ask, pc : Place, todo : Seq(FileEdit \union RunKinds), spec : Project \union {NoFile},
        graph : Nat, start : Ids, d : Decision \union {NoDecision}, back : Backing,
        policies : SUBSET Policy]

(* Which edits a request of a kind may still have to do.  What empties the *)
(* project, or may be refused, comes first.                                *)
Asks(edit, do) ==
  /\ edit = "ref" => do = "copy"
  /\ edit = "put" => do \in {"create", "update", "copy"}
  /\ edit = "flow" => do \in FlowKinds \union {"flow"}
  /\ edit \in {"delete", "enable", "disable"} => edit = do
  /\ edit \in {"team", "ensure", "section"} => do \in SetupKinds
  /\ edit \in {"skill", "skill_off", "skill_delete"} => do \in SkillKinds
ToDo(todo, do) ==
  /\ todo \in Seq(FileEdit)
  /\ \A i \in DOMAIN todo : Asks(todo[i], do) /\ (1 < i => todo[i] \in {"put", "section"})
  /\ todo # << >> /\ todo[1] = "ensure" => Len(todo) > 1

FilePlace == {"profile", "read", "load", "truncate", "write", "row", "compile", "publish"}
RunPlace == {"route", "answer", "start", "team", "settings", "preview", "sandbox", "plan"}
OnPath(r) ==
  /\ r.pc \in FilePlace => r.ask.do \in FileKinds /\ ToDo(r.todo, r.ask.do)
  /\ r.pc \in {"profile", "read", "load", "truncate", "write"} => r.todo # << >>
  /\ r.pc \in RunPlace => r.ask.do \in RunKinds
  /\ r.ask.do \in AgentKinds \union FlowKinds => r.ask.agent \in Agents
  /\ r.pc \in {"truncate", "write"} => r.spec \in Project
  /\ r.pc = "publish" => r.spec \in Project /\ Valid(r.spec)
  /\ r.pc \in {"answer", "preview", "sandbox", "plan"} => r.d \in Decision

(* What a request holds on to is there.                                    *)
Held(r) ==
  /\ r.graph <= Len(graphs)
  /\ r.pc \in {"settings", "preview", "sandbox", "plan"} => r.graph \in DOMAIN graphs
  /\ r.pc \in {"sandbox", "plan"} => Startable(graphs[r.graph], r.start)
  /\ r.pc \in {"row", "compile"} => file # NoFile

RequestsOK ==
  /\ req \in [Clients -> Req]
  /\ \A c \in Clients : OnPath(req[c]) /\ Held(req[c])
FilesOK ==
  /\ file \in Project \union {NoFile, Torn}
  /\ graphs \in Seq(Snapshot)
  /\ \A i \in DOMAIN graphs : Valid(graphs[i])
TypeInv ==
  /\ FilesOK /\ RequestsOK
  /\ packed \in BOOLEAN /\ profiles \subseteq Models /\ kept \subseteq Agents
  /\ given \in 0 .. MaxRequests /\ calm \in BOOLEAN

-----------------------------------------------------------------------------
(* Projects and what edits make of them.                                   *)
LEMMA ModelFacts ==
  /\ Models # {} /\ MaxRequests \in Nat
  /\ ToolBacked \notin Models /\ CliBacked \notin Models
  /\ Models \subseteq Backing /\ ToolBacked \in Backing /\ CliBacked \in Backing
BY ModelsAssumption DEF Backing

LEMMA RoleFacts ==
  /\ Agents = {"architect", "coder", "helper", "planner", "product_pm", "reporter",
               "researcher", "worker"}
  /\ ToSet(Manifest) = {"product_pm", "planner", "researcher", "coder", "reporter"}
  /\ Agents \subseteq Ids /\ NoAgent \in Ids /\ NoAgent \notin Agents
<1>1. DOMAIN Sorted = 1 .. 8
      /\ Sorted[1] = "architect" /\ Sorted[2] = "coder" /\ Sorted[3] = "helper"
      /\ Sorted[4] = "planner" /\ Sorted[5] = "product_pm" /\ Sorted[6] = "reporter"
      /\ Sorted[7] = "researcher" /\ Sorted[8] = "worker"
  BY DEF Sorted
<1>2. Agents = {"architect", "coder", "helper", "planner", "product_pm", "reporter",
               "researcher", "worker"}
  BY <1>1 DEF Agents, ToSet
<1>3. ToSet(Manifest) = {"product_pm", "planner", "researcher", "coder", "reporter"}
  BY ManifestRoles DEF ToSet
<1> QED
  BY <1>2, <1>3 DEF Ids, NoAgent

LEMMA AgentMaps ==
  /\ \A S \in SUBSET Agents : \A f \in [S -> Backing] : f \in AgentMap
  /\ \A f \in AgentMap : /\ DOMAIN f \subseteq Agents /\ f \in [DOMAIN f -> Backing]
                         /\ \A a \in DOMAIN f : f[a] \in Backing
BY DEF AgentMap

LEMMA SpecFields ==
  ASSUME NEW spec \in Project
  PROVE  /\ spec # NoFile /\ spec # Torn
         /\ spec.agents \in AgentMap /\ spec.refs \subseteq Backing
         /\ spec.edges \in Handoffs /\ spec.flow \in Flow /\ spec.skill \in Skill
<1>1. spec.is = "spec" /\ NoFile.is = "none" /\ Torn.is = "torn"
  BY DEF Project, NoFile, Torn
<1>2. spec # NoFile /\ spec # Torn
  BY <1>1
<1> QED
  BY <1>2 DEF Project, AgentMap

LEMMA SpecWith ==
  ASSUME NEW spec \in Project
  PROVE  /\ \A f \in AgentMap : [spec EXCEPT !.agents = f] \in Project
         /\ \A r \in SUBSET Backing : [spec EXCEPT !.refs = r] \in Project
         /\ \A f \in Flow : [spec EXCEPT !.flow = f] \in Project
         /\ \A k \in Skill : [spec EXCEPT !.skill = k] \in Project
         /\ \A f \in AgentMap, e \in Handoffs :
              [spec EXCEPT !.agents = f, !.edges = e] \in Project
         /\ \A f \in AgentMap, r \in SUBSET Backing :
              [spec EXCEPT !.agents = f, !.refs = r] \in Project
BY DEF Project, AgentMap

LEMMA NewSpecOK == NewSpec \in Project /\ NoSettings \in Flow /\ Compile(NewSpec) \in Snapshot
                   /\ Valid(NewSpec) /\ NewSpec.agents = NoAgents /\ DOMAIN NoAgents = {}
                   /\ NoSettings.policy = "auto"
<1>1. NoSettings \in Flow /\ NoSettings.policy = "auto"
  BY RoleFacts DEF NoSettings, Flow
<1>2. NoAgents \in AgentMap /\ DOMAIN NoAgents = {}
  BY AgentMaps DEF NoAgents
<1>0. {} \in Handoffs
  BY FS_EmptySet DEF Handoffs
<1>3. NewSpec \in Project
  BY <1>0, <1>1, <1>2 DEF NewSpec, Project, Skill, AgentMap
<1>4. Compile(NewSpec) \in Snapshot
  BY <1>0, <1>2 DEF NewSpec, Compile, Snapshot
<1>5. Valid(NewSpec)
  BY <1>2 DEF NewSpec, Valid
<1>6. NewSpec.agents = NoAgents
  BY DEF NewSpec
<1> QED
  BY <1>1, <1>2, <1>3, <1>4, <1>5, <1>6

(* What a sequence of agents and the order of the settings may become.     *)
LEMMA MentionedIds ==
  ASSUME NEW seq \in Seq(Ids), NEW set PROVE Mentioned(seq, set) \in Seq(Ids)
<1>1. Mentioned(seq, set) \in Seq(set \intersect ToSet(seq))
  BY MentionedOnce DEF Listing
<1>2. set \intersect ToSet(seq) \subseteq Ids
  BY FiniteRange
<1> QED
  BY <1>1, <1>2, SeqMonotonic

LEMMA SortedSeq == Sorted \in Seq(Ids) /\ ToSet(Sorted) = Agents
<1>1. Sorted \in Seq({"architect", "coder", "helper", "planner", "product_pm", "reporter",
             "researcher", "worker"})
  BY DEF Sorted
<1> QED
  BY <1>1, RoleFacts, SeqMonotonic DEF Agents

LEMMA DefaultAgentOK ==
  ASSUME NEW ids, ids \subseteq Agents
  PROVE  DefaultAgent(ids) \in Ids /\ (ids # {} => DefaultAgent(ids) \in ids)
<1>1. Listing(Mentioned(Sorted, ids), ids \intersect ToSet(Sorted))
      /\ ToSet(Mentioned(Sorted, ids)) = ids \intersect ToSet(Sorted)
  BY SortedSeq, MentionedOnce
<1>2. ids # {} => Mentioned(Sorted, ids)[1] \in ids
  <2> DEFINE M == Mentioned(Sorted, ids)
  <2>1. M \in Seq(ids)
    BY <1>1, SortedSeq DEF Listing
  <2>2. ids # {} => M # << >>
    <3>1. ToSet(M) = ids
      BY <1>1, SortedSeq
    <3>2. M = << >> => ToSet(M) = {}
      BY DEF ToSet
    <3> QED
      BY <3>1, <3>2
  <2> HIDE DEF M
  <2>3. ids # {} => M[1] \in ids
    BY <2>1, <2>2, ElementOfSeq, LenProperties, EmptySeq
  <2> QED
    BY <2>3 DEF M
<1> QED
  BY <1>2, RoleFacts DEF DefaultAgent, First

(* What an edit makes of a project is a project, and of its agents only a  *)
(* deletion removes one, the agent it is about.                            *)
Keeps(new, old, gone) == DOMAIN old.agents \ gone \subseteq DOMAIN new.agents

LEMMA PutOK ==
  ASSUME NEW spec \in Project, NEW a \in Agents, NEW back \in Backing
  PROVE  PutAgent(spec, a, back) \in Project /\ Keeps(PutAgent(spec, a, back), spec, {})
<1> DEFINE f == [b \in DOMAIN spec.agents \union {a} |-> IF b = a THEN back ELSE spec.agents[b]]
<1>1. DOMAIN spec.agents \subseteq Agents /\ \A b \in DOMAIN spec.agents : spec.agents[b] \in Backing
  BY SpecFields, AgentMaps
<1>2. f \in [DOMAIN spec.agents \union {a} -> Backing] /\ DOMAIN spec.agents \union {a} \in SUBSET Agents
  BY <1>1
<1>3. f \in AgentMap
  BY <1>2, AgentMaps
<1>4. DOMAIN f = DOMAIN spec.agents \union {a}
  OBVIOUS
<1> HIDE DEF f
<1>5. [spec EXCEPT !.agents = f] \in Project /\ [spec EXCEPT !.agents = f].agents = f
  BY <1>3, SpecWith DEF Project
<1> QED
  BY <1>4, <1>5 DEF PutAgent, Keeps, f

LEMMA DeleteOK ==
  ASSUME NEW spec \in Project, NEW a
  PROVE  DeleteAgent(spec, a) \in Project /\ Keeps(DeleteAgent(spec, a), spec, {a})
<1> DEFINE f == [b \in DOMAIN spec.agents \ {a} |-> spec.agents[b]]
           e == {h \in spec.edges : a \notin {h.from, h.to}}
<1>1. DOMAIN spec.agents \subseteq Agents /\ (\A b \in DOMAIN spec.agents : spec.agents[b] \in Backing)
      /\ spec.edges \in Handoffs
  BY SpecFields, AgentMaps
<1>2. f \in [DOMAIN spec.agents \ {a} -> Backing] /\ DOMAIN spec.agents \ {a} \in SUBSET Agents
  BY <1>1
<1>3. f \in AgentMap /\ e \in Handoffs
  <2>1. e \subseteq spec.edges
    OBVIOUS
  <2>2. e \in Handoffs
    BY <1>1, <2>1, FS_Subset DEF Handoffs
  <2> QED
    BY <1>2, <2>2, AgentMaps
<1>4. DOMAIN f = DOMAIN spec.agents \ {a}
  OBVIOUS
<1>5. DeleteAgent(spec, a) = [spec EXCEPT !.agents = f, !.edges = e]
  BY DEF DeleteAgent
<1> HIDE DEF f, e
<1>6. [spec EXCEPT !.agents = f, !.edges = e] \in Project
      /\ [spec EXCEPT !.agents = f, !.edges = e].agents = f
  BY <1>3, SpecWith DEF Project
<1> QED
  BY <1>4, <1>5, <1>6 DEF Keeps

LEMMA TeamOK ==
  ASSUME NEW spec \in Project, NEW model \in Backing
  PROVE  InstallTeam(spec, model) \in Project /\ Keeps(InstallTeam(spec, model), spec, {})
<1> DEFINE f == [b \in DOMAIN spec.agents \union TeamAgents |->
                   IF b \in DOMAIN spec.agents THEN spec.agents[b] ELSE model]
           r == spec.refs \union {model}
<1>1. DOMAIN spec.agents \subseteq Agents /\ (\A b \in DOMAIN spec.agents : spec.agents[b] \in Backing)
      /\ spec.refs \subseteq Backing
  BY SpecFields, AgentMaps
<1>2. TeamAgents \subseteq Agents
  BY RoleFacts DEF TeamAgents
<1>3. f \in [DOMAIN spec.agents \union TeamAgents -> Backing]
      /\ DOMAIN spec.agents \union TeamAgents \in SUBSET Agents
  BY <1>1, <1>2
<1>4. f \in AgentMap /\ r \in SUBSET Backing
  BY <1>1, <1>3, AgentMaps
<1>5. DOMAIN f = DOMAIN spec.agents \union TeamAgents
  OBVIOUS
<1>6. InstallTeam(spec, model) = [spec EXCEPT !.agents = f, !.refs = r]
  BY DEF InstallTeam
<1> HIDE DEF f, r
<1>7. [spec EXCEPT !.agents = f, !.refs = r] \in Project
      /\ [spec EXCEPT !.agents = f, !.refs = r].agents = f
  BY <1>4, SpecWith DEF Project
<1> QED
  BY <1>5, <1>6, <1>7 DEF Keeps

LEMMA ToggleOK ==
  ASSUME NEW spec \in Project, NEW a \in Agents, NEW on \in BOOLEAN
  PROVE  /\ ToggleAgent(spec, a, on) \in Project
         /\ ToggleAgent(spec, a, on).agents = spec.agents
<1> DEFINE flow == spec.flow
           order == IF flow.order # << >> THEN flow.order ELSE Mentioned(Sorted, DOMAIN spec.agents)
           disabled == IF on THEN flow.disabled \ {a} ELSE flow.disabled \union {a}
           new == [flow EXCEPT !.order = order, !.disabled = disabled]
<1>1. flow \in Flow
  BY SpecFields
<1>2. Mentioned(Sorted, DOMAIN spec.agents) \in Seq(Ids)
  BY SortedSeq, MentionedIds
<1>3. flow.order \in Seq(Ids) /\ flow.disabled \in SUBSET Ids
  BY <1>1 DEF Flow
<1>4. order \in Seq(Ids) /\ disabled \in SUBSET Ids
  BY <1>2, <1>3, RoleFacts
<1> HIDE DEF flow, order, disabled
<1>5. new \in Flow
  BY <1>1, <1>4 DEF Flow
<1>6. ToggleAgent(spec, a, on) = [spec EXCEPT !.flow = new]
  BY DEF ToggleAgent, flow, order, disabled
<1> HIDE DEF new
<1>7. [spec EXCEPT !.flow = new].agents = spec.agents
  BY DEF Project
<1> QED
  BY <1>5, <1>6, <1>7, SpecWith

LEMMA EditOK ==
  ASSUME NEW spec \in Project, NEW r \in Req, NEW model \in Backing, NEW edit \in FileEdit,
         Asks(edit, r.ask.do),
         r.ask.do \in AgentKinds => r.ask.agent \in Agents
  PROVE  /\ Edit(edit, spec, r, model) \in Project
         /\ Keeps(Edit(edit, spec, r, model), spec,
                  IF r.ask.do = "delete" THEN {r.ask.agent} ELSE {})
<1>1. r.ask \in Ask /\ r.back \in Backing /\ r.ask.flow \in Flow
  BY DEF Req, Ask
<1> DEFINE new == Edit(edit, spec, r, model)
           gone == IF r.ask.do = "delete" THEN {r.ask.agent} ELSE {}
<1>2. SUFFICES new \in Project /\ Keeps(new, spec, gone)
  OBVIOUS
<1>3. CASE edit = "ref"
  <2>1. new = [spec EXCEPT !.refs = spec.refs \union {model}]
    BY <1>3 DEF Edit
  <2>2. spec.refs \union {model} \in SUBSET Backing
    BY SpecFields
  <2>3. new.agents = spec.agents
    BY <2>1 DEF Project
  <2> QED
    BY <2>1, <2>2, <2>3, SpecWith DEF Keeps
<1>4. CASE edit = "put"
  <2>1. new = PutAgent(spec, r.ask.agent, r.back)
    BY <1>4 DEF Edit
  <2>2. r.ask.agent \in Agents
    BY <1>4 DEF Asks, AgentKinds
  <2>3. new \in Project /\ Keeps(new, spec, {})
    BY <2>1, <2>2, <1>1, PutOK
  <2> QED
    BY <2>3 DEF Keeps
<1>5. CASE edit = "delete"
  <2>1. new = DeleteAgent(spec, r.ask.agent)
    BY <1>5 DEF Edit
  <2>2. gone = {r.ask.agent}
    BY <1>5 DEF Asks
  <2> QED
    BY <2>1, <2>2, DeleteOK
<1>6. CASE edit \in {"enable", "disable"}
  <2>1. PICK on \in BOOLEAN : new = ToggleAgent(spec, r.ask.agent, on)
    BY <1>6 DEF Edit
  <2>2. r.ask.agent \in Agents
    BY <1>6 DEF Asks, AgentKinds
  <2>3. new \in Project /\ new.agents = spec.agents
    BY <2>1, <2>2, ToggleOK
  <2> QED
    BY <2>3 DEF Keeps
<1>7. CASE edit = "flow"
  <2>1. new = [spec EXCEPT !.flow = r.ask.flow]
    BY <1>7 DEF Edit
  <2>2. new.agents = spec.agents
    BY <2>1 DEF Project
  <2> QED
    BY <2>1, <2>2, <1>1, SpecWith DEF Keeps
<1>8. CASE edit = "team"
  <2>1. new = InstallTeam(spec, model)
    BY <1>8 DEF Edit
  <2>2. new \in Project /\ Keeps(new, spec, {})
    BY <2>1, TeamOK
  <2> QED
    BY <2>2 DEF Keeps
<1>9. CASE edit \in {"skill", "skill_off", "skill_delete"}
  <2>1. PICK k \in Skill : new = [spec EXCEPT !.skill = k]
    BY <1>9 DEF Edit, SetSkill, Skill
  <2>2. new.agents = spec.agents
    BY <2>1 DEF Project
  <2> QED
    BY <2>1, <2>2, SpecWith DEF Keeps
<1>10. CASE edit \in {"ensure", "section"}
  BY <1>10 DEF Edit, Keeps
<1> QED
  BY <1>3, <1>4, <1>5, <1>6, <1>7, <1>8, <1>9, <1>10 DEF FileEdit

-----------------------------------------------------------------------------
(* Requests and their steps.                                               *)
LEMMA Here ==
  ASSUME TypeInv, NEW c \in Clients
  PROVE  /\ req[c] \in Req /\ OnPath(req[c]) /\ Held(req[c])
         /\ Len(graphs) \in Nat /\ DOMAIN graphs = 1 .. Len(graphs)
         /\ \A i \in DOMAIN graphs : graphs[i] \in Snapshot
<1>1. graphs \in Seq(Snapshot)
  BY DEF TypeInv, FilesOK
<1>2. Len(graphs) \in Nat /\ DOMAIN graphs = 1 .. Len(graphs)
  BY <1>1, LenProperties
<1>3. \A i \in DOMAIN graphs : graphs[i] \in Snapshot
  BY <1>1, <1>2, ElementOfSeq
<1> QED
  BY <1>2, <1>3 DEF TypeInv, RequestsOK

LEMMA IdleOK == Idle \in Req /\ OnPath(Idle) /\ Idle.pc = "idle" /\ Idle.graph = 0
                /\ Idle.ask.do = "none" /\ Idle.d = NoDecision /\ Idle.policies = {}
                /\ NoRequest \in Ask /\ Idle.todo = << >>
<1>1. NoRequest \in Ask /\ NoRequest.do = "none"
  BY NewSpecOK DEF NoRequest, Ask
<1>2. << >> \in Seq(FileEdit \union RunKinds)
  OBVIOUS
<1>3. Idle \in Req
  BY <1>1, <1>2, ModelFacts, RoleFacts DEF Idle, Req, Place
<1>4. Idle.pc = "idle" /\ Idle.ask = NoRequest /\ Idle.graph = 0 /\ Idle.d = NoDecision
      /\ Idle.policies = {} /\ Idle.todo = << >>
  BY DEF Idle
<1>5. OnPath(Idle)
  BY <1>1, <1>4 DEF OnPath, FilePlace, RunPlace, AgentKinds, FlowKinds
<1> QED
  BY <1>1, <1>3, <1>4, <1>5

(* Snapshots are only added, and the file does not go away.                *)
Grows ==
  /\ graphs' \in Seq(Snapshot) /\ Len(graphs) <= Len(graphs')
  /\ \A i \in DOMAIN graphs : i \in DOMAIN graphs' /\ graphs'[i] = graphs[i]
  /\ file # NoFile => file' # NoFile

LEMMA StillHeld ==
  ASSUME TypeInv, Grows, NEW r \in Req, Held(r)
  PROVE  Held(r)'
<1>1. Len(graphs) \in Nat /\ Len(graphs') \in Nat /\ r.graph \in Nat
  BY LenProperties DEF TypeInv, FilesOK, Grows, Req
<1> QED
  BY <1>1 DEF Held, Grows

LEMMA Moved ==
  ASSUME TypeInv, Grows, NEW c \in Clients, NEW r \in Req, Step(c, r), OnPath(r), Held(r)'
  PROVE  RequestsOK'
<1>1. req \in [Clients -> Req] /\ req' = [req EXCEPT ![c] = r]
  BY DEF Step, TypeInv, RequestsOK
<1>2. req' \in [Clients -> Req] /\ req'[c] = r /\ \A o \in Clients \ {c} : req'[o] = req[o]
  BY <1>1
<1>3. ASSUME NEW o \in Clients PROVE OnPath(req'[o]) /\ Held(req[o])'
  <2>1. CASE o = c
    BY <2>1, <1>2 DEF Held
  <2>2. CASE o # c
    <3>1. PICK q : q = req[o]
      OBVIOUS
    <3>2. q \in Req /\ OnPath(q) /\ Held(q)
      BY <3>1, Here
    <3>3. Held(q)'
      BY <3>2, StillHeld
    <3>4. req'[o] = q
      BY <3>1, <2>2, <1>2
    <3> QED
      BY <3>2, <3>3, <3>4 DEF Held
  <2> QED
    BY <2>1, <2>2
<1> QED
  BY <1>2, <1>3 DEF RequestsOK

LEMMA GrowsSame ==
  ASSUME TypeInv, UNCHANGED graphs, file' # NoFile \/ file' = file
  PROVE  Grows
BY DEF TypeInv, FilesOK, Grows

(* A step that changes neither the file nor the snapshots.                 *)
LEMMA Stepped ==
  ASSUME TypeInv, NEW c \in Clients, NEW r \in Req, Step(c, r), OnPath(r), Held(r),
         UNCHANGED << file, graphs >>
  PROVE  FilesOK' /\ RequestsOK'
<1>1. Grows
  BY GrowsSame
<1>2. Held(r)'
  BY <1>1, StillHeld
<1>3. FilesOK'
  BY DEF TypeInv, FilesOK
<1> QED
  BY <1>1, <1>2, <1>3, Moved

LEMMA Ended ==
  ASSUME TypeInv, NEW c \in Clients, End(c), UNCHANGED << file, graphs >>
  PROVE  FilesOK' /\ RequestsOK'
<1>1. PICK r : r = Idle
  OBVIOUS
<1>2. r \in Req /\ OnPath(r) /\ Held(r) /\ Step(c, r)
  BY <1>1, IdleOK, Here DEF End, Held
<1> QED
  BY <1>2, Stepped

(* A request that goes on with another step, or with another edit.         *)
LEMMA GoesOn ==
  ASSUME NEW r \in Req, NEW p \in Place, NEW n, n = [r EXCEPT !.pc = p]
  PROVE  /\ n \in Req /\ n.pc = p /\ n.ask = r.ask /\ n.todo = r.todo /\ n.graph = r.graph
         /\ n.spec = r.spec /\ n.d = r.d /\ n.start = r.start /\ n.back = r.back
         /\ n.policies = r.policies
BY DEF Req

LEMMA OneEdit == ASSUME NEW do PROVE << do >> \in Seq({do}) /\ DOMAIN << do >> = {1} /\ << do >>[1] = do
OBVIOUS

LEMMA EditsOK ==
  /\ \A do \in FileKinds : ToDo(Edits(do), do) /\ Edits(do) # << >>
  /\ \A do \in RunKinds : Edits(do) \in Seq(RunKinds)
<1>1. ASSUME NEW do \in FileKinds, NEW e \in FileEdit \ {"ensure"}, Edits(do) = << e >>, Asks(e, do)
      PROVE  ToDo(Edits(do), do) /\ Edits(do) # << >>
  BY <1>1 DEF ToDo
<1>2. ASSUME NEW do \in FileKinds PROVE ToDo(Edits(do), do) /\ Edits(do) # << >>
  <2>1. CASE do = "copy"
    <3>1. Edits(do) = << "ref", "put" >>
      BY <2>1 DEF Edits, FlowKinds
    <3> DEFINE s == << "ref", "put" >>
    <3>2. s \in Seq(FileEdit) /\ DOMAIN s = 1 .. 2 /\ s[1] = "ref" /\ s[2] = "put"
      BY DEF FileEdit
    <3>3. Asks("ref", do) /\ Asks("put", do)
      BY <2>1 DEF Asks
    <3> HIDE DEF s
    <3> QED
      BY <3>1, <3>2, <3>3 DEF ToDo, s
  <2>2. CASE do \in {"setup", "setup_pack"}
    <3>1. PICK e \in {"ensure", "team"} : Edits(do) = << e, "section", "section" >>
      BY <2>2 DEF Edits, FlowKinds
    <3> DEFINE s == << e, "section", "section" >>
    <3>2. s \in Seq(FileEdit) /\ DOMAIN s = 1 .. 3 /\ Len(s) = 3 /\ s[1] = e /\ s[2] = "section" /\ s[3] = "section"
      BY DEF FileEdit
    <3>3. Asks(e, do) /\ Asks("section", do)
      BY <2>2 DEF Asks, SetupKinds
    <3> HIDE DEF s
    <3> QED
      BY <3>1, <3>2, <3>3 DEF ToDo, s
  <2>3. CASE do \in {"create", "update"}
    <3>1. Edits(do) = << "put" >> /\ Asks("put", do)
      BY <2>3 DEF Edits, Asks, FlowKinds
    <3> QED
      BY <3>1, <1>1 DEF FileEdit
  <2>4. CASE do \in FlowKinds \union {"flow"}
    <3>1. Edits(do) = << "flow" >> /\ Asks("flow", do)
      BY <2>4 DEF Edits, Asks, FlowKinds
    <3> QED
      BY <3>1, <1>1 DEF FileEdit
  <2>5. CASE do = "install"
    <3>1. Edits(do) = << "team" >> /\ Asks("team", do)
      BY <2>5 DEF Edits, Asks, FlowKinds, SetupKinds
    <3> QED
      BY <3>1, <1>1 DEF FileEdit
  <2>6. CASE do \in {"delete", "enable", "disable"} \union SkillKinds
    <3>1. Edits(do) = << do >> /\ Asks(do, do)
      BY <2>6 DEF Edits, Asks, FlowKinds, SkillKinds
    <3> QED
      BY <3>1, <2>6, <1>1 DEF FileEdit, SkillKinds
  <2> QED
    BY <2>1, <2>2, <2>3, <2>4, <2>5, <2>6 DEF FileKinds, AgentKinds, SetupKinds
<1>3. ASSUME NEW do \in RunKinds PROVE Edits(do) \in Seq(RunKinds)
  <2>1. Edits(do) = << do >>
    BY DEF Edits, FlowKinds, RunKinds
  <2> QED
    BY <2>1
<1> QED
  BY <1>2, <1>3

-----------------------------------------------------------------------------
(* Types are kept by every step.                                           *)
LEMMA RequestOK ==
  ASSUME NEW ask \in Request
  PROVE  /\ ask \in Ask /\ ask.do \in FileKinds \union RunKinds
         /\ ask.do \in AgentKinds \union FlowKinds => ask.agent \in Agents
         /\ ask.do \in RunKinds => ask.message \in Messages
<1>1. NoSettings \in Flow /\ Flows \subseteq Flow /\ EditAgents \subseteq Agents
  BY NewSpecOK, AsksAssumption
<1>2. Messages \subseteq SUBSET Topics
  BY MessagesAssumption
<1>3. CASE ask \in Asked(AgentKinds \union FlowKinds, EditAgents, {NoSettings}, {{}})
  <2>1. ask.do \in AgentKinds \union FlowKinds
    BY <1>3 DEF Asked
  <2>2. ask.do \notin RunKinds
    BY <2>1 DEF AgentKinds, FlowKinds, RunKinds
  <2>3. ask \in Ask /\ ask.agent \in Agents
    BY <1>1, <1>3, <2>1 DEF Asked, Ask, FileKinds
  <2> QED
    BY <2>1, <2>2, <2>3 DEF FileKinds
<1>4. CASE ask \in Asked({"flow"}, {NoAgent}, Flows, {{}})
  <2>1. ask.do = "flow"
    BY <1>4 DEF Asked
  <2>2. ask \in Ask
    BY <1>1, <1>4, <2>1 DEF Asked, Ask, FileKinds
  <2> QED
    BY <2>1, <2>2 DEF FileKinds, AgentKinds, FlowKinds, RunKinds
<1>5. CASE ask \in Asked(SkillKinds \union SetupKinds, {NoAgent}, {NoSettings}, {{}})
  <2>1. ask.do \in SkillKinds \union SetupKinds
    BY <1>5 DEF Asked
  <2>2. ask \in Ask
    BY <1>1, <1>5, <2>1 DEF Asked, Ask, FileKinds
  <2>3. ask.do \notin AgentKinds \union FlowKinds \union RunKinds
    BY <2>1 DEF AgentKinds, FlowKinds, RunKinds, SkillKinds, SetupKinds
  <2> QED
    BY <2>1, <2>2, <2>3 DEF FileKinds
<1>6. CASE ask \in Asked(RunKinds, EditAgents \union {NoAgent}, {NoSettings}, Messages)
  <2>1. ask.do \in RunKinds /\ ask.message \in Messages
    BY <1>6 DEF Asked
  <2>2. ask \in Ask
    BY <1>1, <1>2, <1>6 DEF Asked, Ask
  <2>3. ask.do \notin AgentKinds \union FlowKinds
    BY <2>1 DEF AgentKinds, FlowKinds, RunKinds
  <2> QED
    BY <2>1, <2>2, <2>3
<1> QED
  BY <1>3, <1>4, <1>5, <1>6 DEF Request

Opens(do) ==
  CASE do \in {"setup", "setup_pack"} -> "profile"
    [] do = "chat" -> "route"
    [] do \in RunKinds \ {"chat"} -> "start"
    [] ReadsFirst(do) -> "read"
    [] OTHER -> "load"

LEMMA GiveSteps ==
  ASSUME TypeInv, NEW c \in Clients, Give(c)
  PROVE  /\ req[c].pc = "idle" /\ UNCHANGED << file, graphs, packed, profiles, sessions >>
         /\ calm' = (calm /\ \A o \in Clients : At(o, "idle"))
         /\ \E ask \in Request, n \in Req :
              /\ kept' = IF ask.do = "delete" THEN kept \ {ask.agent} ELSE kept
              /\ Step(c, n) /\ n.ask = ask /\ n.pc = Opens(ask.do) /\ n.todo = Edits(ask.do)
              /\ n.graph = 0 /\ n.d = NoDecision /\ n.policies = {}
              /\ n.back = CHOOSE m \in Models : TRUE
<1>1. PICK ask \in Request :
        /\ Step(c, [Idle EXCEPT
                     !.ask = ask, !.todo = Edits(ask.do),
                     !.back = CHOOSE m \in Models : TRUE,
                     !.pc = CASE ask.do \in {"setup", "setup_pack"} -> "profile"
                              [] ask.do = "chat" -> "route"
                              [] ask.do \in RunKinds \ {"chat"} -> "start"
                              [] ReadsFirst(ask.do) -> "read"
                              [] OTHER -> "load"])
        /\ kept' = IF ask.do = "delete" THEN kept \ {ask.agent} ELSE kept
  BY DEF Give
<1> DEFINE p == Opens(ask.do)
           t == Edits(ask.do)
           b == CHOOSE m \in Models : TRUE
<1>2. /\ p \in {"profile", "read", "load"} \/ p \in {"route", "start"}
      /\ p \in {"profile", "read", "load"} => ask.do \notin RunKinds
      /\ p \in {"route", "start"} => ask.do \in RunKinds
  BY DEF Opens, RunKinds, ReadsFirst, FlowKinds
<1>3. b \in Backing
  BY ModelFacts
<1>4. t \in Seq(FileEdit \union RunKinds)
  <2>1. CASE ask.do \in FileKinds
    BY <2>1, EditsOK, SeqMonotonic DEF ToDo
  <2>2. CASE ask.do \in RunKinds
    BY <2>2, EditsOK, SeqMonotonic
  <2> QED
    BY <2>1, <2>2, RequestOK
<1> HIDE DEF p, t, b
<1>5. PICK r : r = [Idle EXCEPT !.ask = ask, !.todo = t, !.back = b, !.pc = p]
  OBVIOUS
<1>6. r \in Req /\ r.ask = ask /\ r.todo = t /\ r.pc = p /\ r.graph = 0 /\ r.d = NoDecision
      /\ r.policies = {} /\ r.back = b
  BY <1>2, <1>3, <1>4, <1>5, IdleOK, RequestOK DEF Req, Place
<1>7. Step(c, r)
  BY <1>1, <1>5 DEF p, t, b, Opens
<1>8. req[c].pc = "idle" /\ UNCHANGED << file, graphs, packed, profiles, sessions >>
      /\ calm' = (calm /\ \A o \in Clients : At(o, "idle"))
  BY DEF Give, At
<1> QED
  BY <1>1, <1>6, <1>7, <1>8 DEF p, t, b

LEMMA GiveType ==
  ASSUME TypeInv, NEW c \in Clients, Give(c)
  PROVE  TypeInv'
<1>1. UNCHANGED << file, graphs, packed, profiles >>
      /\ calm' = (calm /\ \A o \in Clients : At(o, "idle"))
  BY GiveSteps
<1>2. PICK ask \in Request, r \in Req :
        /\ kept' = IF ask.do = "delete" THEN kept \ {ask.agent} ELSE kept
        /\ Step(c, r) /\ r.ask = ask /\ r.pc = Opens(ask.do) /\ r.todo = Edits(ask.do)
        /\ r.graph = 0
  BY GiveSteps
<1>3. /\ r.pc \in {"profile", "read", "load"} \/ r.pc \in {"route", "start"}
      /\ r.pc \in {"profile", "read", "load"} => ask.do \notin RunKinds
      /\ r.pc \in {"route", "start"} => ask.do \in RunKinds
  BY <1>2 DEF Opens, RunKinds, ReadsFirst, FlowKinds
<1>4. OnPath(r)
  BY <1>2, <1>3, RequestOK, EditsOK DEF OnPath, FilePlace, RunPlace
<1>5. Held(r)
  BY <1>2, <1>3, Here DEF Held
<1>6. calm' \in BOOLEAN /\ given' \in 0 .. MaxRequests /\ kept' \subseteq Agents
  BY <1>1, <1>2, ModelFacts DEF Give, TypeInv
<1> QED
  BY <1>1, <1>2, <1>4, <1>5, <1>6, Stepped DEF TypeInv

LEMMA EndType ==
  ASSUME TypeInv, NEW c \in Clients, End(c), UNCHANGED << file, graphs, packed, profiles, kept, given >>,
         calm' \in BOOLEAN
  PROVE  TypeInv'
BY Ended DEF TypeInv

LEMMA StepType ==
  ASSUME TypeInv, NEW c \in Clients, NEW r \in Req, Step(c, r), OnPath(r), Held(r),
         UNCHANGED << file, fileVars >>
  PROVE  TypeInv'
BY Stepped DEF TypeInv, fileVars

LEMMA CutOffType ==
  ASSUME TypeInv, NEW c \in Clients, CutOff(c)
  PROVE  TypeInv'
BY EndType DEF CutOff

LEMMA ProfileSteps ==
  ASSUME TypeInv, NEW c \in Clients, SaveProfile(c)
  PROVE  /\ req[c].pc = "profile" /\ UNCHANGED << file, graphs, packed, sessions, given, kept, calm >>
         /\ \E m \in Models : profiles' = profiles \union {m}
         /\ \E n \in Req :
              /\ Step(c, n) /\ n.pc = "load" /\ n.ask = req[c].ask /\ n.todo = req[c].todo
              /\ n.graph = req[c].graph /\ n.d = req[c].d
<1>1. PICK m \in Models : profiles' = profiles \union {m}
                          /\ Step(c, [req[c] EXCEPT !.pc = "load", !.back = m])
  BY DEF SaveProfile
<1>2. PICK r : r = [req[c] EXCEPT !.pc = "load", !.back = m]
  OBVIOUS
<1>3. /\ r \in Req /\ r.pc = "load" /\ r.ask = req[c].ask /\ r.todo = req[c].todo
      /\ r.graph = req[c].graph /\ r.d = req[c].d
  BY <1>2, Here, ModelFacts DEF Req, Place
<1>4. req[c].pc = "profile" /\ Step(c, r)
      /\ UNCHANGED << file, graphs, packed, sessions, given, kept, calm >>
  BY <1>1, <1>2 DEF SaveProfile, At
<1> QED
  BY <1>1, <1>3, <1>4

LEMMA SaveProfileType ==
  ASSUME TypeInv, NEW c \in Clients, SaveProfile(c)
  PROVE  TypeInv'
<1>1. req[c].pc = "profile" /\ UNCHANGED << file, graphs, packed, given, kept, calm >>
      /\ \E m \in Models : profiles' = profiles \union {m}
  BY ProfileSteps
<1>2. PICK r \in Req : /\ Step(c, r) /\ r.pc = "load" /\ r.ask = req[c].ask
                       /\ r.todo = req[c].todo /\ r.graph = req[c].graph
  BY ProfileSteps
<1>3. OnPath(r) /\ Held(r)
  BY <1>1, <1>2, Here DEF OnPath, Held, FilePlace, RunPlace
<1> QED
  BY <1>1, <1>2, <1>3, Stepped DEF TypeInv

LEMMA CliFlowOK ==
  ASSUME NEW flow \in Flow, NEW ask \in Ask, ask.do \in FlowKinds, ask.agent \in Agents
  PROVE  CliFlow(ask, flow) \in Flow
<1>1. ask.agent \in Ids
  BY RoleFacts
<1>2. CASE ask.do = "entrypoint"
  BY <1>1, <1>2 DEF CliFlow, Flow
<1>3. CASE ask.do \in {"role_on", "role_off"}
  <2>1. PICK s \in SUBSET Ids : CliFlow(ask, flow) = [flow EXCEPT !.disabled = s]
    <3>1. flow.disabled \in SUBSET Ids
      BY DEF Flow
    <3>2. flow.disabled \ {ask.agent} \in SUBSET Ids /\ flow.disabled \union {ask.agent} \in SUBSET Ids
      BY <3>1, <1>1
    <3> QED
      BY <3>2, <1>3 DEF CliFlow
  <2> QED
    BY <2>1 DEF Flow
<1> QED
  BY <1>2, <1>3 DEF FlowKinds

LEMMA FileFacts ==
  ASSUME TypeInv
  PROVE  /\ file \notin {NoFile, Torn} => file \in Project
         /\ file \in Project => file \notin {NoFile, Torn}
         /\ NoFile # Torn
<1>1. NoFile.is = "none" /\ Torn.is = "torn"
  BY DEF NoFile, Torn
<1>2. NoFile # Torn
  BY <1>1
<1> QED
  BY <1>2, SpecFields DEF TypeInv, FilesOK

LEMMA ReadSteps ==
  ASSUME TypeInv, NEW c \in Clients, Read(c)
  PROVE  /\ req[c].pc = "read" /\ UNCHANGED << file, fileVars >>
         /\ \/ End(c)
            \/ \E n \in Req :
                 /\ Step(c, n) /\ n.pc = "load" /\ n.todo = req[c].todo
                 /\ n.ask.do = req[c].ask.do /\ n.ask.agent = req[c].ask.agent
                 /\ n.graph = req[c].graph /\ n.d = req[c].d
<1> DEFINE r == req[c]
           a == r.ask.agent
           go == [r EXCEPT !.pc = "load"]
           whole == file \notin {NoFile, Torn}
<1>1. r.pc = "read" /\ UNCHANGED << file, fileVars >>
  BY DEF Read, At
<1>2. r \in Req /\ OnPath(r) /\ Held(r) /\ r.ask \in Ask /\ r.todo # << >>
      /\ r.ask.do \in FileKinds /\ ToDo(r.todo, r.ask.do)
  BY <1>1, Here DEF OnPath, Req, FilePlace
<1>6. go \in Req /\ go.pc = "load" /\ go.todo = r.todo /\ go.ask = r.ask /\ go.graph = r.graph
      /\ go.d = r.d
  BY <1>2 DEF Req, Place
<1>7. CASE r.ask.do = "update" /\ whole /\ a \in DOMAIN file.agents
  <2> DEFINE b == file.agents[a]
  <2>1. b \in Backing
    BY <1>7, FileFacts, SpecFields, AgentMaps
  <2>2. Step(c, [go EXCEPT !.back = b])
    BY <1>7 DEF Read, FlowKinds
  <2> HIDE DEF go, b
  <2>3. PICK n : n = [go EXCEPT !.back = b]
    OBVIOUS
  <2>4. n \in Req /\ n.pc = "load" /\ n.todo = r.todo /\ n.ask = r.ask /\ n.graph = r.graph /\ n.d = r.d
    BY <1>6, <2>1, <2>3 DEF Req
  <2> QED
    BY <1>1, <2>2, <2>3, <2>4
<1>8. CASE r.ask.do = "copy" /\ IsBuiltIn(a)
  <2>1. PICK b \in profiles : Step(c, [go EXCEPT !.back = b])
    BY <1>8 DEF Read, FlowKinds
  <2>2. b \in Backing
    BY ModelFacts DEF TypeInv
  <2> HIDE DEF go
  <2>3. PICK n : n = [go EXCEPT !.back = b]
    OBVIOUS
  <2>4. n \in Req /\ n.pc = "load" /\ n.todo = r.todo /\ n.ask = r.ask /\ n.graph = r.graph /\ n.d = r.d
    BY <1>6, <2>2, <2>3 DEF Req
  <2> QED
    BY <1>1, <2>1, <2>3, <2>4
<1>9. CASE r.ask.do \in FlowKinds /\ whole
  <2> DEFINE f == CliFlow(r.ask, file.flow)
             k == [r.ask EXCEPT !.flow = f]
  <2>1. f \in Flow
    BY <1>9, <1>2, FileFacts, SpecFields, CliFlowOK DEF OnPath
  <2>2. Step(c, [go EXCEPT !.ask = k])
    BY <1>9 DEF Read, FlowKinds
  <2> HIDE DEF f
  <2>3. k \in Ask /\ k.do = r.ask.do /\ k.agent = a
    BY <2>1, <1>2 DEF Ask
  <2> HIDE DEF go, k
  <2>4. PICK n : n = [go EXCEPT !.ask = k]
    OBVIOUS
  <2>5. n \in Req /\ n.pc = "load" /\ n.todo = r.todo /\ n.ask = k /\ n.graph = r.graph /\ n.d = r.d
    BY <1>6, <2>3, <2>4 DEF Req
  <2> QED
    BY <1>1, <2>2, <2>3, <2>4, <2>5
<1>10. CASE Step(c, go)
  <2> HIDE DEF go
  <2>1. PICK n : n = go
    OBVIOUS
  <2> QED
    BY <1>1, <1>6, <1>10, <2>1
<1> QED
  <2>1. End(c) \/ Step(c, go) \/ (r.ask.do = "update" /\ whole /\ a \in DOMAIN file.agents)
        \/ (r.ask.do = "copy" /\ IsBuiltIn(a)) \/ (r.ask.do \in FlowKinds /\ whole)
    BY DEF Read
  <2> QED
    BY <2>1, <1>1, <1>7, <1>8, <1>9, <1>10

LEMMA ReadType ==
  ASSUME TypeInv, NEW c \in Clients, Read(c)
  PROVE  TypeInv'
<1>1. req[c].pc = "read" /\ UNCHANGED << file, fileVars >>
  BY ReadSteps
<1>2. calm' = calm /\ graphs' = graphs /\ file' = file /\ packed' = packed /\ profiles' = profiles
      /\ kept' = kept /\ given' = given /\ calm \in BOOLEAN
  BY <1>1 DEF fileVars, TypeInv
<1>3. CASE End(c)
  BY <1>2, <1>3, EndType
<1>4. CASE ~End(c)
  <2>1. PICK n \in Req :
          /\ Step(c, n) /\ n.pc = "load" /\ n.todo = req[c].todo
          /\ n.ask.do = req[c].ask.do /\ n.ask.agent = req[c].ask.agent
          /\ n.graph = req[c].graph
    BY <1>4, ReadSteps
  <2>2. OnPath(n) /\ Held(n)
    BY <1>1, <2>1, Here DEF OnPath, Held, FilePlace, RunPlace
  <2> QED
    BY <1>1, <2>1, <2>2, StepType
<1> QED
  BY <1>3, <1>4

LEMMA HeadFacts ==
  ASSUME NEW todo, NEW do, ToDo(todo, do), todo # << >>
  PROVE  /\ Head(todo) \in FileEdit /\ Asks(Head(todo), do) /\ Head(todo) = todo[1]
         /\ ToDo(Tail(todo), do) /\ Tail(todo) \in Seq(FileEdit \union RunKinds)
         /\ \A i \in DOMAIN Tail(todo) : Tail(todo)[i] \in {"put", "section"}
         /\ Head(todo) = "ensure" => Tail(todo) # << >>
<1>1. todo \in Seq(FileEdit) /\ 1 \in DOMAIN todo /\ Head(todo) = todo[1] /\ todo[1] \in FileEdit
  BY EmptySeq, LenProperties, ElementOfSeq DEF ToDo
<1>2. /\ Tail(todo) \in Seq(FileEdit) /\ DOMAIN Tail(todo) = 1 .. Len(todo) - 1
      /\ DOMAIN todo = 1 .. Len(todo) /\ Len(todo) \in Nat
      /\ \A i \in 1 .. Len(todo) - 1 : Tail(todo)[i] = todo[i + 1]
  BY <1>1, HeadTailProperties, LenProperties
<1>3. ASSUME NEW i \in DOMAIN Tail(todo)
      PROVE  Asks(Tail(todo)[i], do) /\ Tail(todo)[i] \in {"put", "section"}
  <2>1. i + 1 \in DOMAIN todo /\ 1 < i + 1 /\ Tail(todo)[i] = todo[i + 1]
    BY <1>2
  <2> QED
    BY <2>1 DEF ToDo
<1>4. Tail(todo) \in Seq(FileEdit \union RunKinds)
  BY <1>2, SeqMonotonic
<1>5. Tail(todo) # << >> => 1 \in DOMAIN Tail(todo)
  BY <1>2, EmptySeq, LenProperties
<1>6. Head(todo) = "ensure" => Tail(todo) # << >>
  <2>1. Head(todo) = "ensure" => 1 \in DOMAIN Tail(todo)
    BY <1>1, <1>2 DEF ToDo
  <2> QED
    BY <2>1
<1>8. Asks(Head(todo), do)
  BY <1>1 DEF ToDo
<1>7. ToDo(Tail(todo), do)
  BY <1>2, <1>3, <1>5 DEF ToDo
<1> QED
  BY <1>1, <1>3, <1>4, <1>6, <1>7, <1>8

(* What an edit starts from, and what may come of a request that loads it. *)
Before == IF file = NoFile THEN NewSpec ELSE file

LEMMA LoadSteps ==
  ASSUME TypeInv, NEW c \in Clients, Load(c)
  PROVE  LET r == req[c] IN
         /\ r.pc = "load" /\ UNCHANGED << file, fileVars >>
         /\ \/ End(c)
            \/ /\ Head(r.todo) = "ensure" /\ file # NoFile
               /\ Step(c, [r EXCEPT !.todo = Tail(r.todo)])
            \/ /\ Before \in Project /\ CanEdit(Head(r.todo), Before, r, r.back)
               /\ file = NoFile \/ Head(r.todo) # "ensure"
               /\ Step(c, [r EXCEPT !.pc = "truncate",
                                    !.spec = Edit(Head(r.todo), Before, r, r.back)])
<1> DEFINE r == req[c]
           edit == Head(r.todo)
           e == Edit(edit, Before, r, r.back)
           can == CanEdit(edit, Before, r, r.back)
           one == [r EXCEPT !.todo = Tail(r.todo)]
           two == [r EXCEPT !.pc = "truncate", !.spec = e]
<1>1. r.pc = "load" /\ UNCHANGED << file, fileVars >>
  BY DEF Load, At
<1>2. \/ edit = "ensure" /\ file # NoFile /\ Step(c, one)
      \/ End(c)
      \/ /\ ~(edit = "ensure" /\ file # NoFile) /\ ~(edit # "ensure" /\ file = Torn)
         /\ ~(file # Torn /\ ~can) /\ Step(c, two)
  BY DEF Load, Before
<1>3. file # Torn => Before \in Project
  BY FileFacts, NewSpecOK DEF Before
<1>4. NoFile # Torn
  BY FileFacts
<1> HIDE DEF one, two, can, edit
<1> SUFFICES \/ End(c)
             \/ edit = "ensure" /\ file # NoFile /\ Step(c, one)
             \/ Before \in Project /\ can /\ (file = NoFile \/ edit # "ensure") /\ Step(c, two)
  BY <1>1 DEF one, two, can, edit, e
<1> QED
  BY <1>2, <1>3, <1>4

LEMMA LoadType ==
  ASSUME TypeInv, NEW c \in Clients, Load(c)
  PROVE  TypeInv'
<1> DEFINE r == req[c]
           edit == Head(r.todo)
<1>1. r.pc = "load" /\ UNCHANGED << file, fileVars >>
  BY LoadSteps
<1>2. r \in Req /\ OnPath(r) /\ Held(r) /\ r.ask \in Ask /\ r.todo # << >>
      /\ r.ask.do \in FileKinds /\ ToDo(r.todo, r.ask.do) /\ r.back \in Backing
  BY <1>1, Here DEF OnPath, Req, FilePlace
<1>3. calm' = calm /\ graphs' = graphs /\ file' = file /\ packed' = packed /\ profiles' = profiles
      /\ kept' = kept /\ given' = given /\ calm \in BOOLEAN
  BY <1>1 DEF fileVars, TypeInv
<1>4. CASE End(c)
  BY <1>3, <1>4, EndType
<1>5. CASE edit = "ensure" /\ Step(c, [r EXCEPT !.todo = Tail(r.todo)])
  <2> DEFINE t == Tail(r.todo)
  <2>1. t \in Seq(FileEdit \union RunKinds) /\ ToDo(t, r.ask.do) /\ t # << >>
    BY <1>2, <1>5, HeadFacts
  <2> HIDE DEF t
  <2>2. PICK n : n = [r EXCEPT !.todo = t]
    OBVIOUS
  <2>3. n \in Req /\ n.pc = "load" /\ n.todo = t /\ n.ask = r.ask /\ n.graph = r.graph
    BY <1>1, <1>2, <2>1, <2>2 DEF Req
  <2>4. OnPath(n) /\ Held(n)
    BY <1>2, <2>1, <2>3 DEF OnPath, Held, FilePlace, RunPlace
  <2> QED
    BY <1>1, <1>5, <2>2, <2>3, <2>4, StepType DEF t
<1>6. CASE Before \in Project
           /\ Step(c, [r EXCEPT !.pc = "truncate", !.spec = Edit(edit, Before, r, r.back)])
  <2> DEFINE e == Edit(edit, Before, r, r.back)
  <2>1. edit \in FileEdit /\ Asks(edit, r.ask.do)
    BY <1>2, HeadFacts
  <2>2. e \in Project
    BY <1>2, <1>6, <2>1, EditOK DEF OnPath
  <2> HIDE DEF e
  <2>3. PICK n : n = [r EXCEPT !.pc = "truncate", !.spec = e]
    OBVIOUS
  <2>4. n \in Req /\ n.pc = "truncate" /\ n.todo = r.todo /\ n.ask = r.ask /\ n.graph = r.graph
        /\ n.spec = e
    BY <1>1, <1>2, <2>2, <2>3 DEF Req, Place
  <2>5. OnPath(n) /\ Held(n)
    BY <1>2, <2>2, <2>4 DEF OnPath, Held, FilePlace, RunPlace
  <2> QED
    BY <1>1, <1>6, <2>3, <2>4, <2>5, StepType DEF e
<1> QED
  BY <1>4, <1>5, <1>6, LoadSteps

LEMMA FileWritten ==
  ASSUME TypeInv, NEW c \in Clients, NEW r \in Req, Step(c, r), OnPath(r), Held(r)',
         file' \in Project \union {Torn}, kept' \subseteq Agents,
         UNCHANGED << graphs, packed, profiles, sessions, given, calm >>
  PROVE  TypeInv'
<1>1. file' # NoFile
  BY FileFacts, SpecFields
<1>2. graphs' = graphs
  OBVIOUS
<1>3. Grows
  BY <1>1, <1>2, GrowsSame
<1>4. RequestsOK'
  BY <1>3, Moved
<1> QED
  BY <1>2, <1>4 DEF TypeInv, FilesOK

LEMMA TruncateType ==
  ASSUME TypeInv, NEW c \in Clients, Truncate(c)
  PROVE  TypeInv'
<1> DEFINE r == req[c]
<1>1. r.pc = "truncate" /\ file' = Torn /\ UNCHANGED fileVars /\ graphs' = graphs
      /\ Step(c, [r EXCEPT !.pc = "write"])
  BY DEF Truncate, At, fileVars
<1>2. r \in Req /\ OnPath(r) /\ Held(r)
  BY Here
<1>3. PICK n : n = [r EXCEPT !.pc = "write"]
  OBVIOUS
<1>4. n \in Req /\ n.pc = "write" /\ n.todo = r.todo /\ n.ask = r.ask /\ n.graph = r.graph
      /\ n.spec = r.spec
  BY <1>2, <1>3 DEF Req, Place
<1>5. OnPath(n) /\ Held(n)'
  BY <1>1, <1>2, <1>4 DEF OnPath, Held, FilePlace, RunPlace
<1> QED
  BY <1>1, <1>3, <1>4, <1>5, FileWritten DEF TypeInv, fileVars

LEMMA WriteSteps ==
  ASSUME TypeInv, NEW c \in Clients, Write(c)
  PROVE  LET r == req[c]
             rest == Tail(r.todo)
         IN
         /\ r.pc = "write" /\ UNCHANGED << graphs, packed, profiles, sessions, given, calm >>
         /\ \/ file' = r.spec /\ kept' = kept \union Gained(c)
            \/ file' = Torn /\ file # Torn /\ kept' = kept
         /\ \E next \in {"row", "load", "compile"} :
              /\ next = "row" <=> Head(r.todo) = "team"
              /\ next = "load" => rest # << >>
              /\ next = "compile" => rest = << >>
              /\ \/ next = "compile" /\ ~Compiles(r.ask.do) /\ End(c)
                 \/ /\ next = "compile" => Compiles(r.ask.do)
                    /\ Step(c, [r EXCEPT !.pc = next, !.todo = rest, !.spec = NoFile])
<1> DEFINE r == req[c]
           head == Head(r.todo)
           rest == Tail(r.todo)
           next == CASE head = "team" -> "row"
                     [] head # "team" /\ rest # << >> -> "load"
                     [] OTHER -> "compile"
<1>1. /\ r.pc = "write" /\ UNCHANGED << graphs, packed, profiles, sessions, given, calm >>
      /\ \/ file' = r.spec /\ kept' = kept \union Gained(c)
         \/ file' = Torn /\ file # Torn /\ kept' = kept
  BY DEF Write, At
<1>2. IF next = "compile" /\ ~Compiles(r.ask.do) THEN End(c)
      ELSE Step(c, [r EXCEPT !.pc = next, !.todo = rest, !.spec = NoFile])
  BY DEF Write
<1>3. /\ next \in {"row", "load", "compile"}
      /\ next = "row" <=> head = "team"
      /\ next = "load" => rest # << >>
      /\ next = "compile" => rest = << >>
  OBVIOUS
<1> HIDE DEF next
<1>4. \/ next = "compile" /\ ~Compiles(r.ask.do) /\ End(c)
      \/ /\ next = "compile" => Compiles(r.ask.do)
         /\ Step(c, [r EXCEPT !.pc = next, !.todo = rest, !.spec = NoFile])
  BY <1>2
<1>5. PICK next2 \in {"row", "load", "compile"} : next2 = next
  BY <1>3
<1>6. /\ next2 = "row" <=> head = "team"
      /\ next2 = "load" => rest # << >>
      /\ next2 = "compile" => rest = << >>
      /\ \/ next2 = "compile" /\ ~Compiles(r.ask.do) /\ End(c)
         \/ /\ next2 = "compile" => Compiles(r.ask.do)
            /\ Step(c, [r EXCEPT !.pc = next2, !.todo = rest, !.spec = NoFile])
  BY <1>3, <1>4, <1>5
<1> QED
  BY <1>1, <1>6

LEMMA WriteType ==
  ASSUME TypeInv, NEW c \in Clients, Write(c)
  PROVE  TypeInv'
<1> DEFINE r == req[c]
           rest == Tail(r.todo)
<1>1. /\ r.pc = "write" /\ UNCHANGED << graphs, packed, profiles, sessions, given, calm >>
      /\ file' = r.spec \/ file' = Torn
      /\ kept' = kept \/ kept' = kept \union Gained(c)
  BY WriteSteps
<1>2. r \in Req /\ OnPath(r) /\ Held(r) /\ r.spec \in Project /\ r.todo # << >>
      /\ r.ask.do \in FileKinds /\ ToDo(r.todo, r.ask.do)
  BY <1>1, Here DEF OnPath, FilePlace
<1>3. file' \in Project \union {Torn} /\ file' # NoFile /\ graphs' = graphs
  BY <1>1, <1>2, SpecFields, FileFacts
<1>7. kept' \subseteq Agents
  <2>1. DOMAIN r.spec.agents \subseteq Agents
    BY <1>2, SpecFields, AgentMaps
  <2>2. Gained(c) \subseteq DOMAIN r.spec.agents /\ kept \subseteq Agents
    BY DEF Gained, TypeInv
  <2> QED
    BY <1>1, <2>1, <2>2
<1>4. rest \in Seq(FileEdit \union RunKinds) /\ ToDo(rest, r.ask.do)
  BY <1>2, HeadFacts
<1>5. CASE End(c)
  <2>1. PICK n : n = Idle
    OBVIOUS
  <2>2. n \in Req /\ OnPath(n) /\ Step(c, n) /\ n.pc = "idle" /\ n.graph = 0
    BY <1>5, <2>1, IdleOK DEF End
  <2>3. Held(n)'
    BY <1>3, <2>2, Here DEF Held
  <2> QED
    BY <1>1, <1>3, <1>7, <2>2, <2>3, FileWritten
<1>6. ASSUME NEW next \in {"row", "load", "compile"}, next = "load" => rest # << >>,
             Step(c, [r EXCEPT !.pc = next, !.todo = rest, !.spec = NoFile])
      PROVE  TypeInv'
  <2> HIDE DEF rest
  <2>1. PICK n : n = [r EXCEPT !.pc = next, !.todo = rest, !.spec = NoFile]
    OBVIOUS
  <2>2. n \in Req /\ n.pc = next /\ n.todo = rest /\ n.ask = r.ask /\ n.graph = r.graph
    BY <1>2, <1>4, <2>1 DEF Req, Place
  <2>3. OnPath(n)
    BY <1>2, <1>4, <1>6, <2>2 DEF OnPath, FilePlace, RunPlace
  <2>4. Held(n)'
    BY <1>2, <1>3, <2>2 DEF Held
  <2> QED
    BY <1>1, <1>3, <1>6, <1>7, <2>1, <2>2, <2>3, <2>4, FileWritten
<1> HIDE DEF rest
<1> QED
  BY <1>5, <1>6, WriteSteps DEF rest

LEMMA PackSteps ==
  ASSUME TypeInv, NEW c \in Clients, SavePackInstallation(c)
  PROVE  /\ req[c].pc = "row" /\ packed' = TRUE
         /\ UNCHANGED << file, graphs, profiles, sessions, given, kept, calm >>
         /\ \E n \in Req :
              /\ Step(c, n) /\ n.pc = IF n.todo = << >> THEN "compile" ELSE "load"
              /\ n.todo = req[c].todo /\ n.ask = req[c].ask /\ n.graph = req[c].graph
              /\ n.d = req[c].d
<1> DEFINE r == req[c]
           p == IF r.todo = << >> THEN "compile" ELSE "load"
<1>1. r.pc = "row" /\ packed' = TRUE /\ Step(c, [r EXCEPT !.pc = p])
      /\ UNCHANGED << file, graphs, profiles, sessions, given, kept, calm >>
  BY DEF SavePackInstallation, At
<1>2. r \in Req /\ p \in {"compile", "load"}
  BY Here
<1> HIDE DEF p
<1>3. PICK n : n = [r EXCEPT !.pc = p]
  OBVIOUS
<1>4. n \in Req /\ n.pc = p /\ n.todo = r.todo /\ n.ask = r.ask /\ n.graph = r.graph
      /\ n.d = r.d
  BY <1>2, <1>3 DEF Req, Place
<1> QED
  BY <1>1, <1>3, <1>4 DEF p

LEMMA SavePackType ==
  ASSUME TypeInv, NEW c \in Clients, SavePackInstallation(c)
  PROVE  TypeInv'
<1>1. req[c].pc = "row" /\ packed' = TRUE
      /\ UNCHANGED << file, graphs, profiles, sessions, given, kept, calm >>
  BY PackSteps
<1>2. PICK n \in Req :
        /\ Step(c, n) /\ n.pc = IF n.todo = << >> THEN "compile" ELSE "load"
        /\ n.todo = req[c].todo /\ n.ask = req[c].ask /\ n.graph = req[c].graph
  BY PackSteps
<1>3. OnPath(n) /\ Held(n)
  BY <1>1, <1>2, Here DEF OnPath, Held, FilePlace, RunPlace
<1> QED
  BY <1>1, <1>2, <1>3, Stepped DEF TypeInv

LEMMA CompileSteps ==
  ASSUME TypeInv, NEW c \in Clients, CompileFile(c)
  PROVE  /\ req[c].pc = "compile" /\ UNCHANGED << file, fileVars >>
         /\ \/ End(c) /\ ~(file # Torn /\ Valid(file))
            \/ /\ file \in Project /\ Valid(file)
               /\ \E n \in Req :
                    /\ Step(c, n) /\ n.pc = "publish" /\ n.spec = file /\ n.ask = req[c].ask
                    /\ n.todo = req[c].todo /\ n.graph = req[c].graph /\ n.d = req[c].d
<1> DEFINE r == req[c]
<1>1. r.pc = "compile" /\ UNCHANGED << file, fileVars >>
      /\ \/ End(c) /\ ~(file # Torn /\ Valid(file))
         \/ file # Torn /\ Valid(file) /\ Step(c, [r EXCEPT !.pc = "publish", !.spec = file])
  BY DEF CompileFile, At
<1>2. r \in Req /\ OnPath(r) /\ Held(r)
  BY Here
<1>3. CASE file # Torn /\ Valid(file) /\ Step(c, [r EXCEPT !.pc = "publish", !.spec = file])
  <2>1. file \in Project
    BY <1>1, <1>2, <1>3, FileFacts DEF Held
  <2>2. PICK n : n = [r EXCEPT !.pc = "publish", !.spec = file]
    OBVIOUS
  <2>3. n \in Req /\ n.pc = "publish" /\ n.todo = r.todo /\ n.ask = r.ask /\ n.graph = r.graph
        /\ n.spec = file /\ n.d = r.d
    BY <1>2, <2>1, <2>2 DEF Req, Place
  <2> QED
    BY <1>1, <1>3, <2>1, <2>2, <2>3
<1> QED
  BY <1>1, <1>3

LEMMA CompileFileType ==
  ASSUME TypeInv, NEW c \in Clients, CompileFile(c)
  PROVE  TypeInv'
<1>1. req[c].pc = "compile" /\ UNCHANGED << file, fileVars >>
  BY CompileSteps
<1>2. calm' = calm /\ graphs' = graphs /\ file' = file /\ packed' = packed /\ profiles' = profiles
      /\ kept' = kept /\ given' = given /\ calm \in BOOLEAN
  BY <1>1 DEF fileVars, TypeInv
<1>3. CASE End(c)
  BY <1>2, <1>3, EndType
<1>4. CASE ~End(c)
  <2>1. file \in Project /\ Valid(file)
    BY <1>4, CompileSteps
  <2>2. PICK n \in Req :
          /\ Step(c, n) /\ n.pc = "publish" /\ n.spec = file /\ n.ask = req[c].ask
          /\ n.todo = req[c].todo /\ n.graph = req[c].graph
    BY <1>4, CompileSteps
  <2>3. OnPath(n) /\ Held(n)
    BY <1>1, <2>1, <2>2, Here DEF OnPath, Held, FilePlace, RunPlace
  <2> QED
    BY <1>1, <2>2, <2>3, StepType
<1> QED
  BY <1>3, <1>4

(* A snapshot is added.                                                    *)
LEMMA CompileOK ==
  ASSUME NEW spec \in Project
  PROVE  /\ Compile(spec) \in Snapshot /\ (Valid(spec) => Valid(Compile(spec)))
         /\ Compile(spec).agents = spec.agents /\ Compile(spec).refs = spec.refs
         /\ Compile(spec).edges = spec.edges
<1>1. /\ Compile(spec).agents = spec.agents /\ Compile(spec).refs = spec.refs
      /\ Compile(spec).edges = spec.edges
  BY DEF Compile
<1>2. Compile(spec) \in Snapshot
  BY SpecFields DEF Compile, Snapshot
<1>3. Valid(spec) => Valid(Compile(spec))
  BY <1>1 DEF Valid
<1> QED
  BY <1>1, <1>2, <1>3

LEMMA DefaultTeamOK ==
  ASSUME NEW m \in Models
  PROVE  DefaultTeam(m) \in Snapshot /\ Valid(DefaultTeam(m))
         /\ DOMAIN DefaultTeam(m).agents = ToSet(Manifest) /\ DefaultTeam(m).edges = {}
         /\ DefaultTeam(m).refs = {m} /\ \A a \in ToSet(Manifest) : DefaultTeam(m).agents[a] = m
<1> DEFINE f == [r \in ToSet(Manifest) |-> m]
           t == DefaultTeam(m)
<1>1. ToSet(Manifest) \subseteq Agents /\ m \in Backing
  BY RoleFacts, ModelFacts
<1>2. f \in AgentMap
  BY <1>1, AgentMaps
<1>3. DOMAIN f = ToSet(Manifest) /\ \A a \in DOMAIN f : f[a] = m
  OBVIOUS
<1>4. t = [agents |-> f, refs |-> {m}, edges |-> {}]
  BY DEF DefaultTeam
<1>5. {} \in Handoffs
  BY FS_EmptySet DEF Handoffs
<1> HIDE DEF f, t
<1>6. t.agents = f /\ t.refs = {m} /\ t.edges = {} /\ t \in Snapshot
  BY <1>1, <1>2, <1>4, <1>5 DEF Snapshot
<1>7. Valid(t)
  BY <1>3, <1>6 DEF Valid
<1> QED
  BY <1>3, <1>6, <1>7 DEF t

LEMMA Added ==
  ASSUME TypeInv, NEW g \in Snapshot, Valid(g), graphs' = Append(graphs, g), UNCHANGED file
  PROVE  /\ Grows /\ FilesOK' /\ Len(graphs') = Len(graphs) + 1 /\ Last(graphs') = g
         /\ graphs' # << >> /\ DOMAIN graphs' = 1 .. Len(graphs) + 1
         /\ graphs'[Len(graphs) + 1] = g
<1>1. graphs \in Seq(Snapshot) /\ Len(graphs) \in Nat /\ DOMAIN graphs = 1 .. Len(graphs)
      /\ \A i \in DOMAIN graphs : Valid(graphs[i])
  BY LenProperties DEF TypeInv, FilesOK
<1>2. /\ graphs' \in Seq(Snapshot) /\ Len(graphs') = Len(graphs) + 1
      /\ DOMAIN graphs' = 1 .. Len(graphs) + 1
      /\ graphs'[Len(graphs) + 1] = g
      /\ \A i \in 1 .. Len(graphs) : graphs'[i] = graphs[i]
  BY <1>1, AppendProperties, LenProperties
<1>3. Grows
  BY <1>1, <1>2 DEF Grows
<1>4. \A i \in DOMAIN graphs' : Valid(graphs'[i])
  <2> TAKE i \in DOMAIN graphs'
  <2>1. i \in DOMAIN graphs \/ i = Len(graphs) + 1
    BY <1>1, <1>2
  <2> QED
    BY <1>1, <1>2, <2>1
<1>5. Last(graphs') = g /\ graphs' # << >>
  BY <1>1, <1>2, EmptySeq DEF Last
<1> QED
  BY <1>2, <1>3, <1>4, <1>5 DEF TypeInv, FilesOK

LEMMA PublishType ==
  ASSUME TypeInv, NEW c \in Clients, Publish(c)
  PROVE  TypeInv'
<1> DEFINE r == req[c]
           g == Compile(r.spec)
<1>1. r.pc = "publish" /\ graphs' = Append(graphs, g) /\ End(c)
      /\ UNCHANGED << file, packed, profiles, sessions, given, kept, calm >>
  BY DEF Publish, At
<1>2. r \in Req /\ r.spec \in Project /\ Valid(r.spec)
  BY <1>1, Here DEF OnPath
<1>3. g \in Snapshot /\ Valid(g)
  BY <1>2, CompileOK
<1> HIDE DEF g
<1>4. Grows /\ FilesOK' /\ Len(graphs') = Len(graphs) + 1 /\ Len(graphs) \in Nat
  BY <1>1, <1>3, Added, Here
<1>5. PICK n : n = Idle
  OBVIOUS
<1>6. n \in Req /\ OnPath(n) /\ Step(c, n) /\ n.pc = "idle" /\ n.graph = 0
  BY <1>1, <1>5, IdleOK DEF End
<1>7. Held(n)'
  BY <1>4, <1>6 DEF Held
<1>8. RequestsOK'
  BY <1>4, <1>6, <1>7, Moved
<1> QED
  BY <1>1, <1>4, <1>8 DEF TypeInv

-----------------------------------------------------------------------------
(* Decisions: what routing, the model and the settings make of them.       *)
LEMMA LatestOK ==
  ASSUME TypeInv
  PROVE  /\ Latest \in Snapshot /\ Valid(Latest) /\ DOMAIN Latest.agents \subseteq Agents
         /\ graphs # << >> => Len(graphs) \in DOMAIN graphs /\ Latest = graphs[Len(graphs)]
<1>1. graphs \in Seq(Snapshot) /\ \A i \in DOMAIN graphs : Valid(graphs[i])
  BY DEF TypeInv, FilesOK
<1>2. CASE graphs = << >>
  <2>1. Latest = Compile(NewSpec)
    BY <1>2 DEF Latest
  <2>2. Latest \in Snapshot /\ Valid(Latest)
    BY <2>1, NewSpecOK, CompileOK
  <2> QED
    BY <1>2, <2>2, AgentMaps DEF Snapshot
<1>3. CASE graphs # << >>
  <2>1. Len(graphs) \in DOMAIN graphs
    BY <1>1, <1>3, EmptySeq, LenProperties
  <2>2. Latest = graphs[Len(graphs)]
    BY <1>3 DEF Latest, Last
  <2>3. Latest \in Snapshot /\ Valid(Latest)
    BY <1>1, <2>1, <2>2, ElementOfSeq, LenProperties
  <2> QED
    BY <2>1, <2>2, <2>3, AgentMaps DEF Snapshot
<1> QED
  BY <1>2, <1>3

LEMMA ReadingOK ==
  ASSUME NEW m, NEW manual \in BOOLEAN
  PROVE  /\ Reading(m, manual).mode \in Mode /\ Reading(m, manual).confidence \in 0 .. 100
         /\ Reading(m, FALSE).mode = "workspace_run" => Reading(m, TRUE).mode = "workspace_run"
<1>1. Reading(m, manual).mode \in Mode
  BY DEF Reading, Mode
<1>2. Reading(m, manual).confidence \in 0 .. 100
  BY DEF Reading
<1>3. Reading(m, FALSE).mode = "workspace_run" => Reading(m, TRUE).mode = "workspace_run"
  BY DEF Reading
<1> QED
  BY <1>1, <1>2, <1>3

LEMMA RouteOK ==
  ASSUME NEW m \in SUBSET Topics, NEW manual \in Ids, NEW agents, agents \subseteq Agents
  PROVE  /\ Route(m, manual, agents) \in Decision
         /\ Route(m, manual, agents).roles = << >>
         /\ AsksForReview(m, manual # NoAgent) => Route(m, manual, agents).review
<1> DEFINE reading == Reading(m, manual # NoAgent)
           agent == IF manual # NoAgent THEN manual ELSE DefaultAgent(agents)
           review == /\ reading.mode = "workspace_run"
                     /\ WantsImplementation(m) \/ WantsMutation(m)
           mode == reading.mode
           confidence == reading.confidence
           asks == mode = "clarify"
           none == << >>
           d == Route(m, manual, agents)
<1>1. PICK hand \in BOOLEAN : hand = (manual # NoAgent)
  OBVIOUS
<1>2. mode \in Mode /\ confidence \in 0 .. 100
  BY <1>1, ReadingOK
<1>3. agent \in Ids
  BY DefaultAgentOK
<1>4. d = [mode |-> mode, confidence |-> confidence, asks |-> asks, manual |-> manual,
           roles |-> none, agent |-> agent, review |-> review, goal |-> m]
  BY DEF Route
<1>5. AsksForReview(m, manual # NoAgent) => review
  BY DEF AsksForReview
<1>6. review \in BOOLEAN /\ asks \in BOOLEAN /\ none \in Seq(Ids) /\ none = << >>
  OBVIOUS
<1> HIDE DEF review, asks, none, mode, confidence, agent, d
<1>7. d \in Decision /\ d.roles = none /\ d.review = review
  BY <1>2, <1>3, <1>4, <1>6 DEF Decision
<1> QED
  BY <1>5, <1>6, <1>7 DEF d

LEMMA MergeOK ==
  ASSUME NEW a \in Decision, NEW b \in Decision
  PROVE  Merge(a, b) \in Decision /\ (b.review => Merge(a, b).review)
<1> DEFINE agent == IF a.agent = NoAgent THEN b.agent ELSE a.agent
           confidence == IF a.confidence = 0 THEN b.confidence ELSE a.confidence
           review == a.review \/ b.review
           goal == IF "blank" \in a.goal THEN b.goal ELSE a.goal
           d == Merge(a, b)
<1>1. agent \in Ids /\ confidence \in 0 .. 100 /\ review \in BOOLEAN /\ b.manual \in Ids
      /\ goal \in SUBSET Topics
  BY DEF Decision
<1>2. d = [a EXCEPT !.agent = agent, !.confidence = confidence, !.goal = goal,
                    !.manual = b.manual, !.review = review]
  BY DEF Merge
<1>3. b.review => review
  OBVIOUS
<1> HIDE DEF agent, confidence, review, goal, d
<1>4. d \in Decision /\ d.review = review
  BY <1>1, <1>2 DEF Decision
<1> QED
  BY <1>3, <1>4 DEF d

LEMMA ApplyOK ==
  ASSUME NEW d \in Decision, NEW s \in Flow
  PROVE  /\ ApplySettings(d, s) \in Decision
         /\ s.policy = "always" => ApplySettings(d, s).review
         /\ s.policy # "never" /\ d.review => ApplySettings(d, s).review
         /\ s.order = << >> => ApplySettings(d, s).roles = d.roles
<1> DEFINE agent == IF s.entry # NoAgent /\ d.manual = NoAgent THEN s.entry ELSE d.agent
           roles == IF s.order # << >> THEN Mentioned(s.order, ToSet(s.order) \ s.disabled)
                    ELSE d.roles
           review == CASE s.policy = "always" -> TRUE
                       [] s.policy = "never" -> FALSE
                       [] OTHER -> d.review
           e == ApplySettings(d, s)
<1>1. s.entry \in Ids /\ s.order \in Seq(Ids) /\ d.agent \in Ids /\ d.roles \in Seq(Ids)
      /\ d.review \in BOOLEAN
  BY DEF Flow, Decision
<1>2. agent \in Ids /\ roles \in Seq(Ids) /\ review \in BOOLEAN
  BY <1>1, MentionedIds
<1>3. e = [d EXCEPT !.agent = agent, !.roles = roles, !.review = review]
  BY DEF ApplySettings
<1>4. /\ s.policy = "always" => review
      /\ s.policy # "never" /\ d.review => review
      /\ s.order = << >> => roles = d.roles
  OBVIOUS
<1> HIDE DEF agent, roles, review, e
<1>5. e \in Decision /\ e.review = review /\ e.roles = roles
  BY <1>2, <1>3 DEF Decision
<1> QED
  BY <1>4, <1>5 DEF e

LEMMA SettingsOK == ASSUME TypeInv PROVE Settings \in Flow
BY FileFacts, NewSpecOK, SpecFields DEF Settings, TypeInv, FilesOK

(* The steps of a chat or a run up to its session.                         *)
Alike(n, r) ==
  /\ n.ask.do = r.ask.do /\ n.ask.agent = r.ask.agent /\ n.ask.message = r.ask.message
  /\ r.policies \subseteq n.policies

LEMMA RunHere ==
  ASSUME TypeInv, NEW c \in Clients, req[c].pc \in RunPlace
  PROVE  /\ req[c].ask.do \in RunKinds /\ req[c].ask \in Ask /\ req[c].ask.agent \in Ids
         /\ req[c].d \in Decision \union {NoDecision}
BY Here, RoleFacts DEF OnPath, Req, Ask

LEMMA RunType ==
  ASSUME TypeInv, NEW c \in Clients, UNCHANGED << file, fileVars >>, req[c].pc \in RunPlace,
         NEW n \in Req, Step(c, n), Alike(n, req[c]), n.pc \in RunPlace, Held(n),
         n.pc \in {"answer", "preview", "sandbox", "plan"} => n.d \in Decision
  PROVE  TypeInv'
<1>1. OnPath(n)
  BY RunHere DEF OnPath, Alike, RunPlace, FilePlace, RunKinds, AgentKinds, FlowKinds
<1> QED
  BY <1>1, StepType

LEMMA RunEnds ==
  ASSUME TypeInv, NEW c \in Clients, UNCHANGED << file, fileVars >>, End(c)
  PROVE  TypeInv'
<1>1. calm' = calm /\ graphs' = graphs /\ file' = file /\ packed' = packed /\ profiles' = profiles
      /\ kept' = kept /\ given' = given /\ calm \in BOOLEAN
  BY DEF fileVars, TypeInv
<1> QED
  BY <1>1, EndType

LEMMA RouteSteps ==
  ASSUME TypeInv, NEW c \in Clients, RouteChat(c)
  PROVE  /\ req[c].pc = "route" /\ UNCHANGED << file, fileVars >>
         /\ \/ End(c)
            \/ \E n \in Req :
                 /\ Step(c, n) /\ n.pc \in {"answer", "start"} /\ Alike(n, req[c])
                 /\ n.graph = req[c].graph /\ n.d \in Decision /\ n.d.roles = << >>
                 /\ AsksForReview(n.ask.message, n.ask.agent # NoAgent) => n.d.review
<1> DEFINE r == req[c]
           d == Route(r.ask.message, r.ask.agent, DOMAIN Latest.agents)
<1>1. r.pc = "route" /\ UNCHANGED << file, fileVars >>
      /\ \/ End(c)
         \/ Step(c, [r EXCEPT !.pc = "answer", !.d = d])
         \/ Step(c, [r EXCEPT !.pc = "start", !.d = d])
  BY DEF RouteChat, At
<1>2. r \in Req /\ r.ask \in Ask /\ r.ask.agent \in Ids /\ r.ask.message \in SUBSET Topics
  BY <1>1, Here, RunHere DEF RunPlace, Ask
<1>3. DOMAIN Latest.agents \subseteq Agents
  BY LatestOK
<1>4. d \in Decision /\ d.roles = << >>
      /\ (AsksForReview(r.ask.message, r.ask.agent # NoAgent) => d.review)
  BY <1>2, <1>3, RouteOK
<1> HIDE DEF d
<1>5. ASSUME NEW p \in {"answer", "start"}, Step(c, [r EXCEPT !.pc = p, !.d = d])
      PROVE  \E n \in Req :
                 /\ Step(c, n) /\ n.pc \in {"answer", "start"} /\ Alike(n, req[c])
                 /\ n.graph = req[c].graph /\ n.d \in Decision /\ n.d.roles = << >>
                 /\ AsksForReview(n.ask.message, n.ask.agent # NoAgent) => n.d.review
  <2>1. PICK n : n = [r EXCEPT !.pc = p, !.d = d]
    OBVIOUS
  <2>2. n \in Req /\ n.pc = p /\ n.d = d /\ n.ask = r.ask /\ n.graph = r.graph
        /\ n.policies = r.policies
    BY <1>2, <1>4, <2>1 DEF Req, Place
  <2>3. Step(c, n) /\ Alike(n, r)
    BY <1>5, <2>1, <2>2 DEF Alike
  <2> QED
    BY <1>4, <2>2, <2>3
<1> QED
  BY <1>1, <1>5

LEMMA AnswerSteps ==
  ASSUME TypeInv, NEW c \in Clients, Answer(c)
  PROVE  /\ req[c].pc = "answer" /\ UNCHANGED << file, fileVars >> /\ req[c].d \in Decision
         /\ \/ End(c)
            \/ \E n \in Req :
                 /\ Step(c, n) /\ n.pc = "start" /\ Alike(n, req[c])
                 /\ n.graph = req[c].graph /\ n.d \in Decision
                 /\ req[c].d.review => n.d.review
<1> DEFINE r == req[c]
<1>1. r.pc = "answer" /\ UNCHANGED << file, fileVars >>
  BY DEF Answer, At
<1>2. PICK d \in {r.d} \union {Merge(a, r.d) : a \in {b \in Answers : Accepted(b)}} :
        End(c) \/ Step(c, [r EXCEPT !.pc = "start", !.d = d])
  BY DEF Answer
<1>3. r \in Req /\ r.d \in Decision
  BY <1>1, Here DEF OnPath
<1>4. d \in Decision /\ (r.d.review => d.review)
  <2>1. CASE d = r.d
    BY <2>1, <1>3
  <2>2. CASE d # r.d
    <3>1. PICK a \in Answers : d = Merge(a, r.d)
      BY <2>2, <1>2
    <3> QED
      BY <3>1, <1>3, MergeOK, AnswersAssumption
  <2> QED
    BY <2>1, <2>2
<1>5. CASE Step(c, [r EXCEPT !.pc = "start", !.d = d])
  <2>1. PICK n : n = [r EXCEPT !.pc = "start", !.d = d]
    OBVIOUS
  <2>2. n \in Req /\ n.pc = "start" /\ n.d = d /\ n.ask = r.ask /\ n.graph = r.graph
        /\ n.policies = r.policies
    BY <1>3, <1>4, <2>1 DEF Req, Place
  <2>3. Step(c, n) /\ Alike(n, r)
    BY <1>5, <2>1, <2>2 DEF Alike
  <2> QED
    BY <1>1, <1>3, <1>4, <2>2, <2>3
<1> QED
  BY <1>1, <1>2, <1>3, <1>5

LEMMA StartSteps ==
  ASSUME TypeInv, NEW c \in Clients, StartRun(c)
  PROVE  /\ req[c].pc = "start" /\ UNCHANGED << file, fileVars >>
         /\ \/ End(c)
            \/ \E n \in Req :
                 /\ Step(c, n) /\ n.pc \in {"settings", "team"} /\ Alike(n, req[c])
                 /\ n.d = req[c].d /\ n.start = req[c].start
                 /\ \/ n.pc = "settings" /\ n.graph = Len(graphs) /\ graphs # << >>
                    \/ /\ n.pc = "team" /\ n.graph = req[c].graph
                       /\ ~(graphs # << >> /\ Runnable(Latest))
<1> DEFINE r == req[c]
           k == Len(graphs)
<1>1. r.pc = "start" /\ UNCHANGED << file, fileVars >>
      /\ \/ End(c)
         \/ graphs # << >> /\ Step(c, [r EXCEPT !.pc = "settings", !.graph = k])
         \/ /\ ~(graphs # << >> /\ Runnable(Latest))
            /\ Step(c, [r EXCEPT !.pc = "team"])
  BY DEF StartRun, At
<1>2. r \in Req /\ k \in Nat
  BY Here
<1> HIDE DEF k
<1>3. CASE graphs # << >> /\ Step(c, [r EXCEPT !.pc = "settings", !.graph = k])
  <2>1. PICK n : n = [r EXCEPT !.pc = "settings", !.graph = k]
    OBVIOUS
  <2>2. n \in Req /\ n.pc = "settings" /\ n.d = r.d /\ n.ask = r.ask /\ n.graph = k
        /\ n.policies = r.policies /\ n.start = r.start
    BY <1>2, <2>1 DEF Req, Place
  <2>3. Step(c, n) /\ Alike(n, r)
    BY <1>3, <2>1, <2>2 DEF Alike
  <2> QED
    BY <1>1, <1>3, <2>2, <2>3 DEF k
<1>4. CASE ~(graphs # << >> /\ Runnable(Latest)) /\ Step(c, [r EXCEPT !.pc = "team"])
  <2>1. PICK n : n = [r EXCEPT !.pc = "team"]
    OBVIOUS
  <2>2. n \in Req /\ n.pc = "team" /\ n.d = r.d /\ n.ask = r.ask /\ n.graph = r.graph
        /\ n.policies = r.policies /\ n.start = r.start
    BY <1>2, <2>1 DEF Req, Place
  <2>3. Step(c, n) /\ Alike(n, r)
    BY <1>4, <2>1, <2>2 DEF Alike
  <2> QED
    BY <1>1, <1>4, <2>2, <2>3
<1> QED
  BY <1>1, <1>3, <1>4

LEMMA RouteType ==
  ASSUME TypeInv, NEW c \in Clients, RouteChat(c) \/ Answer(c) \/ StartRun(c)
  PROVE  TypeInv'
<1>1. CASE RouteChat(c)
  <2>1. CASE End(c)
    BY <1>1, <2>1, RouteSteps, RunEnds
  <2>2. CASE ~End(c)
    <3>1. PICK n \in Req : /\ Step(c, n) /\ n.pc \in {"answer", "start"} /\ Alike(n, req[c])
                           /\ n.graph = req[c].graph /\ n.d \in Decision
      BY <1>1, <2>2, RouteSteps
    <3>2. Held(n)
      BY <3>1, Here DEF Held
    <3> QED
      BY <1>1, <3>1, <3>2, RouteSteps, RunType DEF RunPlace
  <2> QED
    BY <2>1, <2>2
<1>2. CASE Answer(c)
  <2>1. CASE End(c)
    BY <1>2, <2>1, AnswerSteps, RunEnds
  <2>2. CASE ~End(c)
    <3>1. PICK n \in Req : /\ Step(c, n) /\ n.pc = "start" /\ Alike(n, req[c])
                           /\ n.graph = req[c].graph
      BY <1>2, <2>2, AnswerSteps
    <3>2. Held(n)
      BY <3>1, Here DEF Held
    <3> QED
      BY <1>2, <3>1, <3>2, AnswerSteps, RunType DEF RunPlace
  <2> QED
    BY <2>1, <2>2
<1>3. CASE StartRun(c)
  <2>1. CASE End(c)
    BY <1>3, <2>1, StartSteps, RunEnds
  <2>2. CASE ~End(c)
    <3>1. PICK n \in Req :
             /\ Step(c, n) /\ n.pc \in {"settings", "team"} /\ Alike(n, req[c])
             /\ \/ n.pc = "settings" /\ n.graph = Len(graphs) /\ graphs # << >>
                \/ n.pc = "team" /\ n.graph = req[c].graph
      BY <1>3, <2>2, StartSteps
    <3>2. Held(n)
      BY <3>1, Here, LatestOK DEF Held
    <3> QED
      BY <1>3, <3>1, <3>2, StartSteps, RunType DEF RunPlace
  <2> QED
    BY <2>1, <2>2
<1> QED
  BY <1>1, <1>2, <1>3

LEMMA TeamSteps ==
  ASSUME TypeInv, NEW c \in Clients, CreateDefaultTeam(c)
  PROVE  /\ req[c].pc = "team" /\ packed' \in {packed, TRUE} /\ UNCHANGED << sessions, runVars >>
         /\ \E m \in Models : graphs' = Append(graphs, DefaultTeam(m))
         /\ \E n \in Req :
              /\ Step(c, n) /\ n.pc = "settings" /\ n.graph = Len(graphs) + 1
              /\ Alike(n, req[c]) /\ n.d = req[c].d
<1> DEFINE r == req[c]
           k == Len(graphs) + 1
<1>1. /\ r.pc = "team" /\ packed' \in {packed, TRUE} /\ UNCHANGED << sessions, runVars >>
      /\ Step(c, [r EXCEPT !.pc = "settings", !.graph = k])
  BY DEF CreateDefaultTeam, At
<1>2. \E m \in profiles : graphs' = Append(graphs, DefaultTeam(m))
  BY DEF CreateDefaultTeam
<1>3. r \in Req /\ k \in Nat /\ profiles \subseteq Models
  BY Here DEF TypeInv
<1> HIDE DEF k
<1>4. PICK n : n = [r EXCEPT !.pc = "settings", !.graph = k]
  OBVIOUS
<1>5. n \in Req /\ n.pc = "settings" /\ n.d = r.d /\ n.ask = r.ask /\ n.graph = k
      /\ n.policies = r.policies
  BY <1>3, <1>4 DEF Req, Place
<1>6. Step(c, n) /\ Alike(n, r)
  BY <1>1, <1>4, <1>5 DEF Alike
<1> QED
  BY <1>1, <1>2, <1>3, <1>5, <1>6 DEF k

LEMMA TeamType ==
  ASSUME TypeInv, NEW c \in Clients, CreateDefaultTeam(c)
  PROVE  TypeInv'
<1>1. PICK m \in Models : graphs' = Append(graphs, DefaultTeam(m))
  BY TeamSteps
<1>2. PICK n \in Req : /\ Step(c, n) /\ n.pc = "settings" /\ n.graph = Len(graphs) + 1
                       /\ Alike(n, req[c])
  BY TeamSteps
<1>3. req[c].pc = "team" /\ packed' \in {packed, TRUE} /\ UNCHANGED << sessions, runVars >>
  BY TeamSteps
<1>4. file' = file /\ UNCHANGED << profiles, given, kept, calm >>
  BY <1>3 DEF runVars
<1>5. PICK g \in Snapshot : g = DefaultTeam(m) /\ Valid(g)
  BY DefaultTeamOK
<1>6. Grows /\ FilesOK' /\ Len(graphs') = Len(graphs) + 1 /\ DOMAIN graphs' = 1 .. Len(graphs) + 1
      /\ Len(graphs) \in Nat
  BY <1>1, <1>4, <1>5, Added, Here
<1>7. Held(n)'
  BY <1>2, <1>6 DEF Held
<1>8. OnPath(n)
  BY <1>2, <1>3, RunHere
     DEF OnPath, Alike, RunPlace, FilePlace, RunKinds, AgentKinds, FlowKinds
<1>9. RequestsOK'
  BY <1>2, <1>6, <1>7, <1>8, Moved
<1> QED
  BY <1>3, <1>4, <1>6, <1>9 DEF TypeInv

LEMMA SettingsSteps ==
  ASSUME TypeInv, NEW c \in Clients, ReadSettings(c)
  PROVE  /\ req[c].pc = "settings" /\ UNCHANGED << file, fileVars >>
         /\ \/ End(c)
            \/ \E n \in Req, e \in Decision :
                 /\ Step(c, n) /\ n.pc \in {"preview", "sandbox"} /\ Alike(n, req[c])
                 /\ n.graph = req[c].graph /\ n.ask.flow = Settings
                 /\ Settings.policy \in n.policies /\ n.d = ApplySettings(e, Settings)
                 /\ req[c].d # NoDecision => e = req[c].d
                 /\ \/ req[c].d # NoDecision
                    \/ /\ e.roles = << >>
                       /\ AsksForReview(n.ask.message, n.ask.agent # NoAgent) => e.review
                 /\ n.pc = "sandbox" => Startable(graphs[n.graph], n.start)
<1> DEFINE r == req[c]
           graph == graphs[r.graph]
           agent == IF r.ask.agent # NoAgent THEN r.ask.agent ELSE Settings.entry
           e == IF r.d = NoDecision
                THEN Route(r.ask.message, agent, DOMAIN graph.agents) ELSE r.d
           d == ApplySettings(e, Settings)
           start == IF d.agent # NoAgent THEN d.agent
                    ELSE IF agent # NoAgent THEN agent ELSE DefaultAgent(DOMAIN graph.agents)
           preview == r.ask.do = "test" /\ r.d = NoDecision
           ask == [r.ask EXCEPT !.flow = Settings]
           policies == r.policies \union {Settings.policy}
           next == [r EXCEPT !.pc = "sandbox", !.d = d, !.start = start, !.ask = ask,
                             !.policies = policies]
<1>1. r.pc = "settings" /\ UNCHANGED << file, fileVars >>
  BY DEF ReadSettings, At
<1>2. \/ End(c)
      \/ Step(c, [next EXCEPT !.pc = "preview"])
      \/ Startable(graph, start) /\ Step(c, next)
  BY DEF ReadSettings
<1>3. r \in Req /\ r.ask \in Ask /\ r.ask.agent \in Ids /\ r.d \in Decision \union {NoDecision}
      /\ r.graph \in DOMAIN graphs /\ graph \in Snapshot
  BY <1>1, Here, RunHere DEF RunPlace, Held
<1>4. Settings \in Flow /\ Settings.entry \in Ids /\ Settings.policy \in Policy
  BY SettingsOK DEF Flow, Policy
<1>5. agent \in Ids /\ DOMAIN graph.agents \subseteq Agents
  BY <1>3, <1>4, AgentMaps DEF Snapshot
<1> HIDE DEF graph
<1>6. /\ e \in Decision
      /\ r.d # NoDecision => e = r.d
      /\ \/ r.d # NoDecision
         \/ /\ e.roles = << >>
            /\ AsksForReview(r.ask.message, r.ask.agent # NoAgent) => e.review
  <2>1. CASE r.d # NoDecision
    BY <2>1, <1>3
  <2>2. CASE r.d = NoDecision
    <3>1. e = Route(r.ask.message, agent, DOMAIN graph.agents)
      BY <2>2
    <3>2. e \in Decision /\ e.roles = << >>
          /\ (AsksForReview(r.ask.message, agent # NoAgent) => e.review)
      BY <3>1, <1>3, <1>5, RouteOK DEF Ask
    <3>3. AsksForReview(r.ask.message, r.ask.agent # NoAgent)
            => AsksForReview(r.ask.message, agent # NoAgent)
      <4>1. PICK a, b \in BOOLEAN : a = (r.ask.agent # NoAgent) /\ b = (agent # NoAgent)
        OBVIOUS
      <4>2. a => b
        BY <4>1
      <4>3. Reading(r.ask.message, FALSE).mode = "workspace_run"
              => Reading(r.ask.message, TRUE).mode = "workspace_run"
        BY ReadingOK
      <4>4. AsksForReview(r.ask.message, a) => AsksForReview(r.ask.message, b)
        BY <4>2, <4>3 DEF AsksForReview
      <4> QED
        BY <4>1, <4>4
    <3> QED
      BY <2>2, <3>2, <3>3
  <2> QED
    BY <2>1, <2>2
<1> HIDE DEF e
<1>7. d \in Decision /\ d.agent \in Ids
  BY <1>4, <1>6, ApplyOK DEF Decision
<1> HIDE DEF d
<1>8. start \in Ids
  BY <1>5, <1>7, DefaultAgentOK
<1>9. ask \in Ask /\ ask.do = r.ask.do /\ ask.agent = r.ask.agent /\ ask.message = r.ask.message
      /\ ask.flow = Settings
  BY <1>3, <1>4 DEF Ask
<1>10. policies \in SUBSET Policy /\ r.policies \subseteq policies /\ Settings.policy \in policies
  BY <1>3, <1>4 DEF Req
<1> HIDE DEF start, ask, policies
<1>11. ASSUME NEW p \in {"preview", "sandbox"}, NEW n, p = "sandbox" => Startable(graph, start),
              n = [r EXCEPT !.pc = p, !.d = d, !.start = start, !.ask = ask,
                            !.policies = policies],
              Step(c, n)
       PROVE  \E m \in Req, f \in Decision :
                 /\ Step(c, m) /\ m.pc \in {"preview", "sandbox"} /\ Alike(m, req[c])
                 /\ m.graph = req[c].graph /\ m.ask.flow = Settings
                 /\ Settings.policy \in m.policies /\ m.d = ApplySettings(f, Settings)
                 /\ req[c].d # NoDecision => f = req[c].d
                 /\ \/ req[c].d # NoDecision
                    \/ /\ f.roles = << >>
                       /\ AsksForReview(m.ask.message, m.ask.agent # NoAgent) => f.review
                 /\ m.pc = "sandbox" => Startable(graphs[m.graph], m.start)
  <2>1. n \in Req /\ n.pc = p /\ n.d = d /\ n.start = start /\ n.ask = ask
        /\ n.policies = policies /\ n.graph = r.graph
    BY <1>3, <1>7, <1>8, <1>9, <1>10, <1>11 DEF Req, Place
  <2>2. Alike(n, r)
    BY <1>9, <1>10, <2>1 DEF Alike
  <2>3. n.d = ApplySettings(e, Settings)
    BY <2>1 DEF d
  <2>4. n.pc = "sandbox" => Startable(graphs[n.graph], n.start)
    BY <1>11, <2>1 DEF graph
  <2>5. n.ask.message = r.ask.message /\ n.ask.agent = r.ask.agent /\ n.ask.flow = Settings
        /\ Settings.policy \in n.policies
    BY <1>9, <1>10, <2>1
  <2> QED
    BY <1>6, <1>11, <2>1, <2>2, <2>3, <2>4, <2>5
<1>12. CASE Step(c, [next EXCEPT !.pc = "preview"])
  <2>1. PICK n : n = [r EXCEPT !.pc = "preview", !.d = d, !.start = start, !.ask = ask,
                              !.policies = policies]
    OBVIOUS
  <2>2. [next EXCEPT !.pc = "preview"] = n
    BY <2>1, <1>3 DEF Req
  <2> QED
    BY <1>1, <1>11, <1>12, <2>1, <2>2
<1>13. CASE Startable(graph, start) /\ Step(c, next)
  <2>1. PICK n : n = next
    OBVIOUS
  <2> QED
    BY <1>1, <1>11, <1>13, <2>1
<1> QED
  BY <1>1, <1>2, <1>12, <1>13

LEMMA SettingsType ==
  ASSUME TypeInv, NEW c \in Clients, ReadSettings(c)
  PROVE  TypeInv'
<1>1. req[c].pc = "settings" /\ UNCHANGED << file, fileVars >>
  BY SettingsSteps
<1>2. CASE End(c)
  BY <1>1, <1>2, RunEnds
<1>3. CASE ~End(c)
  <2>1. PICK n \in Req, e \in Decision :
           /\ Step(c, n) /\ n.pc \in {"preview", "sandbox"} /\ Alike(n, req[c])
           /\ n.graph = req[c].graph /\ n.d = ApplySettings(e, Settings)
           /\ n.pc = "sandbox" => Startable(graphs[n.graph], n.start)
    BY <1>3, SettingsSteps
  <2>2. n.d \in Decision
    BY <2>1, SettingsOK, ApplyOK
  <2>3. Held(n)
    BY <1>1, <2>1, Here DEF Held
  <2> QED
    BY <1>1, <2>1, <2>2, <2>3, RunType DEF RunPlace
<1> QED
  BY <1>2, <1>3

LEMMA PreviewSteps ==
  ASSUME TypeInv, NEW c \in Clients, Preview(c)
  PROVE  /\ req[c].pc = "preview" /\ UNCHANGED << file, fileVars >>
         /\ \E n \in Req :
              /\ Step(c, n) /\ n.pc = "start" /\ Alike(n, req[c]) /\ n.graph = req[c].graph
              /\ n.d \in Decision /\ n.d.review = req[c].d.review
<1> DEFINE r == req[c]
           roles == MatchRoles(graphs[r.graph], r.start, r.d)
           d == IF packed /\ r.start \in Entrypoints THEN [r.d EXCEPT !.roles = roles]
                ELSE r.d
<1>1. r.pc = "preview" /\ UNCHANGED << file, fileVars >>
      /\ Step(c, [r EXCEPT !.pc = "start", !.start = NoAgent, !.d = d])
  BY DEF Preview, At
<1>2. r \in Req /\ r.d \in Decision /\ r.d.roles \in Seq(Ids) /\ graphs[r.graph] \in Snapshot
  BY <1>1, Here DEF OnPath, Held, Decision
<1>3. roles \in Seq(Ids)
  <2>1. roles \in Seq(DOMAIN graphs[r.graph].agents)
    BY <1>2, MatchRolesOnce DEF Listing
  <2>2. DOMAIN graphs[r.graph].agents \subseteq Ids
    BY <1>2, AgentMaps, RoleFacts DEF Snapshot
  <2> QED
    BY <2>1, <2>2, SeqMonotonic
<1> HIDE DEF roles
<1>4. d \in Decision /\ d.review = r.d.review
  BY <1>2, <1>3 DEF Decision
<1> HIDE DEF d
<1>5. PICK n : n = [r EXCEPT !.pc = "start", !.start = NoAgent, !.d = d]
  OBVIOUS
<1>6. n \in Req /\ n.pc = "start" /\ n.d = d /\ n.ask = r.ask /\ n.graph = r.graph
      /\ n.policies = r.policies
  BY <1>2, <1>4, <1>5, RoleFacts DEF Req, Place
<1>7. Step(c, n) /\ Alike(n, r)
  BY <1>1, <1>5, <1>6 DEF Alike
<1> QED
  BY <1>1, <1>4, <1>6, <1>7

LEMMA PreviewType ==
  ASSUME TypeInv, NEW c \in Clients, Preview(c)
  PROVE  TypeInv'
<1>1. PICK n \in Req : Step(c, n) /\ n.pc = "start" /\ Alike(n, req[c]) /\ n.graph = req[c].graph
  BY PreviewSteps
<1>2. Held(n)
  BY <1>1, Here DEF Held
<1> QED
  BY <1>1, <1>2, PreviewSteps, RunType DEF RunPlace

LEMMA SandboxSteps ==
  ASSUME TypeInv, NEW c \in Clients, ReadSandbox(c)
  PROVE  /\ req[c].pc = "sandbox" /\ UNCHANGED << file, fileVars >>
         /\ \/ End(c)
            \/ \E n \in Req :
                 /\ Step(c, n) /\ n.pc = "plan" /\ Alike(n, req[c]) /\ n.graph = req[c].graph
                 /\ n.d = req[c].d /\ n.start = req[c].start /\ n.ask = req[c].ask
<1> DEFINE r == req[c]
<1>1. r.pc = "sandbox" /\ UNCHANGED << file, fileVars >>
      /\ \/ End(c)
         \/ Step(c, [r EXCEPT !.pc = "plan"])
  BY DEF ReadSandbox, At
<1>2. CASE Step(c, [r EXCEPT !.pc = "plan"])
  <2>1. PICK n : n = [r EXCEPT !.pc = "plan"]
    OBVIOUS
  <2>2. n \in Req /\ n.pc = "plan" /\ n.d = r.d /\ n.ask = r.ask /\ n.graph = r.graph
        /\ n.policies = r.policies /\ n.start = r.start
    BY <2>1, Here DEF Req, Place
  <2>3. Step(c, n) /\ Alike(n, r)
    BY <1>2, <2>1, <2>2 DEF Alike
  <2> QED
    BY <1>1, <2>2, <2>3
<1> QED
  BY <1>1, <1>2

LEMMA SandboxType ==
  ASSUME TypeInv, NEW c \in Clients, ReadSandbox(c)
  PROVE  TypeInv'
<1>1. req[c].pc = "sandbox" /\ UNCHANGED << file, fileVars >>
  BY SandboxSteps
<1>2. CASE End(c)
  BY <1>1, <1>2, RunEnds
<1>3. CASE ~End(c)
  <2>1. PICK n \in Req :
           /\ Step(c, n) /\ n.pc = "plan" /\ Alike(n, req[c]) /\ n.graph = req[c].graph
           /\ n.d = req[c].d /\ n.start = req[c].start
    BY <1>3, SandboxSteps
  <2>2. Held(n) /\ n.d \in Decision
    BY <1>1, <2>1, Here DEF Held, OnPath
  <2> QED
    BY <1>1, <2>1, <2>2, RunType DEF RunPlace
<1> QED
  BY <1>2, <1>3

LEMMA SessionType ==
  ASSUME TypeInv, NEW c \in Clients, CreateSession(c)
  PROVE  TypeInv'
BY EndType DEF CreateSession, runVars, TypeInv

LEMMA InitType == Init => TypeInv
<1> SUFFICES ASSUME Init PROVE TypeInv
  OBVIOUS
<1>1. file \in Project \union {NoFile}
  BY ConfigsAssumption DEF Init
<1>2. graphs \in Seq(Snapshot) /\ \A i \in DOMAIN graphs : Valid(graphs[i])
  <2>1. CASE file # NoFile /\ Valid(file)
    <3>1. PICK g : g = Compile(file)
      OBVIOUS
    <3>2. g \in Snapshot /\ Valid(g)
      BY <1>1, <2>1, <3>1, CompileOK
    <3>3. graphs = << g >>
      BY <2>1, <3>1 DEF Init
    <3> QED
      BY <3>2, <3>3
  <2>2. CASE ~(file # NoFile /\ Valid(file))
    BY <2>2 DEF Init
  <2> QED
    BY <2>1, <2>2
<1>3. req = [c \in Clients |-> Idle]
  BY DEF Init
<1>4. Len(graphs) \in Nat
  BY <1>2, LenProperties
<1>5. RequestsOK
  <2>1. PICK r : r = Idle
    OBVIOUS
  <2>2. r \in Req /\ OnPath(r) /\ Held(r)
    BY <1>4, <2>1, IdleOK DEF Held
  <2>3. req \in [Clients -> Req] /\ \A c \in Clients : req[c] = r
    BY <1>3, <2>1, <2>2
  <2> QED
    BY <2>2, <2>3 DEF RequestsOK
<1>6. packed \in BOOLEAN /\ profiles \subseteq Models /\ given \in 0 .. MaxRequests
      /\ calm \in BOOLEAN
  <2>1. packed \in BOOLEAN
    <3>1. packed \in IF file = NoFile THEN {FALSE} ELSE BOOLEAN
      BY DEF Init
    <3>2. CASE file = NoFile
      BY <3>1, <3>2
    <3>3. CASE file # NoFile
      BY <3>1, <3>3
    <3> QED
      BY <3>2, <3>3
  <2>2. profiles \subseteq Models /\ given = 0 /\ calm = TRUE
    BY DEF Init
  <2> QED
    BY <2>1, <2>2, ModelFacts
<1>7. kept \subseteq Agents
  BY <1>1, SpecFields, AgentMaps DEF Init
<1> QED
  BY <1>1, <1>2, <1>5, <1>6, <1>7 DEF TypeInv, FilesOK

LEMMA NextType == TypeInv /\ [Next]_vars => TypeInv'
<1> SUFFICES ASSUME TypeInv, [Next]_vars PROVE TypeInv'
  OBVIOUS
<1>1. CASE UNCHANGED vars
  BY <1>1 DEF vars, TypeInv, FilesOK, RequestsOK, Held
<1>2. CASE Next
  <2>1. PICK c \in Clients : ClientStep(c)
    BY <1>2 DEF Next
  <2> QED
    BY <2>1, GiveType, CutOffType, SaveProfileType, ReadType, LoadType, TruncateType, WriteType,
       SavePackType, CompileFileType, PublishType, RouteType, TeamType, SettingsType,
       PreviewType, SandboxType, SessionType
       DEF ClientStep
<1> QED
  BY <1>1, <1>2

LEMMA Typed == Spec => []TypeInv
BY InitType, NextType, PTL DEF Spec

(* The file and the snapshots are well formed, only graphs that Validate   *)
(* passed are published, and a request only points to a snapshot there is: *)
(* whatever is saved, compiled, cut off or torn in between                 *)
(* (agentspec/validate.go, Validate; projectconfig/config.go,              *)
(* compileAndSave).                                                        *)
THEOREM TypeCorrect == Spec => []TypeOK
<1>1. TypeInv => TypeOK
  <2> SUFFICES ASSUME TypeInv PROVE TypeOK
    OBVIOUS
  <2>1. ASSUME NEW g, g.agents \in AgentMap, g.refs \subseteq Backing, g.edges \in Handoffs
        PROVE  Graph(g)
    BY <2>1, AgentMaps DEF Graph, Handoffs
  <2>2. file \notin {NoFile, Torn} => Graph(file) /\ file.skill \in Skill
    BY <2>1, FileFacts, SpecFields
  <2>3. \A i \in DOMAIN graphs : Graph(graphs[i]) /\ Valid(graphs[i])
    <3> TAKE i \in DOMAIN graphs
    <3>1. graphs \in Seq(Snapshot) /\ Valid(graphs[i])
      BY DEF TypeInv, FilesOK
    <3>2. graphs[i] \in Snapshot
      BY <3>1, ElementOfSeq, LenProperties
    <3>3. graphs[i].agents \in AgentMap /\ graphs[i].refs \subseteq Backing
          /\ graphs[i].edges \in Handoffs
      BY <3>2 DEF Snapshot
    <3> QED
      BY <3>1, <3>3, <2>1
  <2>4. \A c \in Clients : req[c].graph \in 0 .. Len(graphs)
    BY Here DEF Held, Req
  <2> QED
    BY <2>2, <2>3, <2>4 DEF TypeOK, TypeInv
<1> QED
  BY <1>1, Typed, PTL


-----------------------------------------------------------------------------
(* The agents that are kept: what is being written has them too, and       *)
(* nothing is kept that someone is about to delete.                        *)
Saves(r) ==
  /\ r.pc \in {"truncate", "write"} => kept \subseteq DOMAIN r.spec.agents
  /\ r.ask.do = "delete" => r.ask.agent \notin kept
KeptInv ==
  /\ file = NoFile => kept = {}
  /\ file \in Project => kept \subseteq DOMAIN file.agents
  /\ \A c \in Clients : Saves(req[c])

LEMMA StepReq ==
  ASSUME TypeInv, NEW c \in Clients, NEW n, Step(c, n)
  PROVE  req'[c] = n /\ \A o \in Clients \ {c} : req'[o] = req[o]
BY DEF TypeInv, RequestsOK, Step

LEMMA SavesLess ==
  ASSUME TypeInv, KeptInv, NEW c \in Clients, NEW n, Step(c, n), kept' \subseteq kept, Saves(n)'
  PROVE  \A o \in Clients : Saves(req[o])'
<1> TAKE o \in Clients
<1>1. CASE o = c
  BY <1>1, StepReq DEF Saves
<1>2. CASE o # c
  BY <1>2, StepReq DEF Saves, KeptInv
<1> QED
  BY <1>1, <1>2

(* The steps that touch neither the file nor a project being written.      *)
LEMMA Elsewhere ==
  ASSUME TypeInv, NEW c \in Clients, ClientStep(c), ~Give(c), ~Load(c), ~Truncate(c), ~Write(c)
  PROVE  /\ UNCHANGED << file, kept >>
         /\ \E n \in Req :
              /\ Step(c, n) /\ n.pc \notin {"truncate", "write"}
              /\ \/ n.ask.do = "none"
                 \/ n.ask.do = req[c].ask.do /\ n.ask.agent = req[c].ask.agent
<1> DEFINE Quiet ==
      \E n \in Req :
         /\ Step(c, n) /\ n.pc \notin {"truncate", "write"}
         /\ \/ n.ask.do = "none"
            \/ n.ask.do = req[c].ask.do /\ n.ask.agent = req[c].ask.agent
<1>1. ASSUME End(c) PROVE Quiet
  <2>1. PICK n : n = Idle
    OBVIOUS
  <2> QED
    BY <1>1, <2>1, IdleOK DEF End
<1>2. ASSUME NEW n \in Req, Step(c, n), Alike(n, req[c]), n.pc \notin {"truncate", "write"}
      PROVE  Quiet
  BY <1>2 DEF Alike
<1> HIDE DEF Quiet
<1> SUFFICES UNCHANGED << file, kept >> /\ Quiet
  BY DEF Quiet
<1>3. CASE CutOff(c)
  BY <1>3, <1>1 DEF CutOff
<1>4. CASE SaveProfile(c)
  BY <1>4, ProfileSteps DEF Quiet
<1>5. CASE Read(c)
  BY <1>5, <1>1, ReadSteps DEF fileVars, Quiet
<1>6. CASE SavePackInstallation(c)
  BY <1>6, PackSteps DEF Quiet
<1>7. CASE CompileFile(c)
  BY <1>7, <1>1, CompileSteps DEF fileVars, Quiet
<1>8. CASE Publish(c)
  BY <1>8, <1>1 DEF Publish
<1>9. CASE RouteChat(c)
  BY <1>9, <1>1, <1>2, RouteSteps DEF fileVars
<1>10. CASE Answer(c)
  BY <1>10, <1>1, <1>2, AnswerSteps DEF fileVars
<1>11. CASE StartRun(c)
  BY <1>11, <1>1, <1>2, StartSteps DEF fileVars
<1>12. CASE CreateDefaultTeam(c)
  BY <1>12, <1>2, TeamSteps DEF runVars
<1>13. CASE ReadSettings(c)
  BY <1>13, <1>1, <1>2, SettingsSteps DEF fileVars
<1>14. CASE Preview(c)
  BY <1>14, <1>2, PreviewSteps DEF fileVars
<1>15. CASE ReadSandbox(c)
  BY <1>15, <1>1, <1>2, SandboxSteps DEF fileVars
<1>16. CASE CreateSession(c)
  BY <1>16, <1>1 DEF CreateSession, runVars
<1> QED
  BY <1>3, <1>4, <1>5, <1>6, <1>7, <1>8, <1>9, <1>10, <1>11, <1>12, <1>13, <1>14, <1>15, <1>16
     DEF ClientStep

LEMMA KeptNext ==
  ASSUME TypeInv, KeptInv, NEW c \in Clients, ClientStep(c)
  PROVE  KeptInv'
<1> DEFINE r == req[c]
<1>0. r \in Req /\ OnPath(r) /\ Saves(r)
  BY Here DEF KeptInv
<1>1. CASE Give(c)
  <2>1. PICK ask \in Request, n \in Req :
          /\ kept' = IF ask.do = "delete" THEN kept \ {ask.agent} ELSE kept
          /\ Step(c, n) /\ n.ask = ask /\ n.pc = Opens(ask.do)
    BY <1>1, GiveSteps
  <2>2. n.pc \notin {"truncate", "write"}
    BY <2>1 DEF Opens
  <2>3. kept' \subseteq kept /\ file' = file
    BY <1>1, <2>1, GiveSteps
  <2>4. Saves(n)'
    BY <2>1, <2>2 DEF Saves
  <2>5. \A o \in Clients : Saves(req[o])'
    BY <2>1, <2>3, <2>4, SavesLess
  <2> QED
    BY <2>3, <2>5 DEF KeptInv
<1>2. CASE Load(c)
  <2>1. r.pc = "load" /\ file' = file /\ kept' = kept
    BY <1>2, LoadSteps DEF fileVars
  <2>2. CASE End(c)
    <3>1. PICK n : n = Idle
      OBVIOUS
    <3>2. Step(c, n) /\ Saves(n)'
      BY <2>2, <3>1, IdleOK DEF End, Saves
    <3>3. \A o \in Clients : Saves(req[o])'
      BY <2>1, <3>2, SavesLess
    <3> QED
      BY <2>1, <3>3 DEF KeptInv
  <2>3. CASE Step(c, [r EXCEPT !.todo = Tail(r.todo)])
    <3> DEFINE t == Tail(r.todo)
    <3> HIDE DEF t
    <3>1. PICK n : n = [r EXCEPT !.todo = t]
      OBVIOUS
    <3>2. n.pc = "load" /\ n.ask = r.ask
      BY <1>0, <2>1, <3>1 DEF Req
    <3>3. Step(c, n) /\ Saves(n)'
      BY <1>0, <2>1, <2>3, <3>1, <3>2 DEF t, Saves
    <3>4. \A o \in Clients : Saves(req[o])'
      BY <2>1, <3>3, SavesLess
    <3> QED
      BY <2>1, <3>4 DEF KeptInv
  <2>4. CASE /\ Before \in Project
             /\ Step(c, [r EXCEPT !.pc = "truncate",
                                  !.spec = Edit(Head(r.todo), Before, r, r.back)])
    <3> DEFINE e == Edit(Head(r.todo), Before, r, r.back)
    <3>1. Head(r.todo) \in FileEdit /\ Asks(Head(r.todo), r.ask.do) /\ r.back \in Backing
      BY <1>0, <2>1, HeadFacts DEF OnPath, FilePlace, Req
    <3>2. Keeps(e, Before, IF r.ask.do = "delete" THEN {r.ask.agent} ELSE {})
      BY <1>0, <2>4, <3>1, EditOK DEF OnPath
    <3>3. kept \subseteq DOMAIN Before.agents
      BY <2>4 DEF KeptInv, Before
    <3>4. kept \subseteq DOMAIN e.agents
      BY <1>0, <3>2, <3>3 DEF Keeps, Saves
    <3> HIDE DEF e
    <3>5. PICK n : n = [r EXCEPT !.pc = "truncate", !.spec = e]
      OBVIOUS
    <3>6. n.spec = e /\ n.ask = r.ask
      BY <1>0, <3>5 DEF Req
    <3>7. Step(c, n) /\ Saves(n)'
      BY <1>0, <2>1, <2>4, <3>4, <3>5, <3>6 DEF e, Saves
    <3>8. \A o \in Clients : Saves(req[o])'
      BY <2>1, <3>7, SavesLess
    <3> QED
      BY <2>1, <3>8 DEF KeptInv
  <2> QED
    BY <1>2, <2>2, <2>3, <2>4, LoadSteps
<1>3. CASE Truncate(c)
  <2>1. r.pc = "truncate" /\ file' = Torn /\ kept' = kept
        /\ Step(c, [r EXCEPT !.pc = "write"])
    BY <1>3 DEF Truncate, At, fileVars
  <2>2. PICK n : n = [r EXCEPT !.pc = "write"]
    OBVIOUS
  <2>3. n.ask = r.ask /\ n.spec = r.spec
    BY <1>0, <2>2 DEF Req
  <2>4. Step(c, n) /\ Saves(n)'
    BY <1>0, <2>1, <2>2, <2>3 DEF Saves
  <2>5. \A o \in Clients : Saves(req[o])'
    BY <2>1, <2>4, SavesLess
  <2>6. Torn # NoFile /\ Torn \notin Project
    BY FileFacts, SpecFields
  <2> QED
    BY <2>1, <2>5, <2>6 DEF KeptInv
<1>4. CASE Write(c)
  <2>1. /\ r.pc = "write"
        /\ \/ file' = r.spec
           \/ file' = Torn /\ kept' = kept
        /\ kept' = kept \/ kept' = kept \union Gained(c)
    BY <1>4, WriteSteps
  <2>2. /\ r.spec \in Project /\ kept \subseteq DOMAIN r.spec.agents
        /\ Gained(c) \subseteq DOMAIN r.spec.agents
    BY <1>0, <2>1 DEF OnPath, Saves, Gained
  <2>3. /\ file' # NoFile
        /\ file' \in Project => kept' \subseteq DOMAIN file'.agents
    BY <2>1, <2>2, FileFacts, SpecFields
  <2>6. ASSUME NEW n, Step(c, n), n.pc \notin {"truncate", "write"},
               n.ask.do = "none" \/ n.ask = r.ask
        PROVE  \A o \in Clients : Saves(req[o])'
    <3> TAKE o \in Clients
    <3>1. Saves(req[o])
      BY DEF KeptInv
    <3>2. Gained(c) # {} /\ o # c => req[o].pc \notin {"truncate", "write"}
      BY DEF Gained
    <3>3. req[o].ask.do = "delete" => req[o].ask.agent \notin kept'
      BY <2>1, <3>1 DEF Saves, Gained
    <3>4. CASE o = c
      BY <2>6, <3>3, <3>4, StepReq DEF Saves
    <3>5. CASE o # c
      <4>1. req'[o] = req[o]
        BY <2>6, <3>5, StepReq
      <4>2. req[o].pc \in {"truncate", "write"} => kept' = kept
        BY <2>1, <3>2, <3>5
      <4> QED
        BY <3>1, <3>3, <4>1, <4>2 DEF Saves
    <3> QED
      BY <3>4, <3>5
  <2>4. CASE End(c)
    <3>1. PICK n : n = Idle
      OBVIOUS
    <3>2. Step(c, n) /\ n.pc = "idle" /\ n.ask.do = "none"
      BY <2>4, <3>1, IdleOK DEF End
    <3>3. \A o \in Clients : Saves(req[o])'
      BY <2>6, <3>2
    <3> QED
      BY <2>3, <3>3 DEF KeptInv
  <2>5. ASSUME NEW p \in {"row", "load", "compile"},
               Step(c, [r EXCEPT !.pc = p, !.todo = Tail(r.todo), !.spec = NoFile])
        PROVE  KeptInv'
    <3> DEFINE t == Tail(r.todo)
    <3> HIDE DEF t
    <3>1. PICK n : n = [r EXCEPT !.pc = p, !.todo = t, !.spec = NoFile]
      OBVIOUS
    <3>2. n.pc = p /\ n.ask = r.ask
      BY <1>0, <3>1 DEF Req
    <3>3. Step(c, n)
      BY <2>5, <3>1 DEF t
    <3>4. \A o \in Clients : Saves(req[o])'
      BY <2>6, <3>2, <3>3
    <3> QED
      BY <2>3, <3>4 DEF KeptInv
  <2> QED
    BY <1>4, <2>4, <2>5, WriteSteps
<1>5. CASE ~Give(c) /\ ~Load(c) /\ ~Truncate(c) /\ ~Write(c)
  <2>1. PICK n \in Req :
          /\ Step(c, n) /\ n.pc \notin {"truncate", "write"}
          /\ \/ n.ask.do = "none"
             \/ n.ask.do = r.ask.do /\ n.ask.agent = r.ask.agent
    BY <1>5, Elsewhere
  <2>2. file' = file /\ kept' = kept
    BY <1>5, Elsewhere
  <2>3. Saves(n)'
    BY <1>0, <2>1, <2>2 DEF Saves
  <2>4. \A o \in Clients : Saves(req[o])'
    BY <2>1, <2>2, <2>3, SavesLess
  <2> QED
    BY <2>2, <2>4 DEF KeptInv
<1> QED
  BY <1>1, <1>2, <1>3, <1>4, <1>5

(* While the file can be read it holds every agent of the first one, and   *)
(* every agent written since while nobody else was about to put back an    *)
(* older copy, that nobody asked to delete: however requests overlap and   *)
(* are cut off, and though they all save the whole file                    *)
(* (projectconfig/config.go, loadOrCreate and save).                       *)
THEOREM KeptHolds == Spec => []Kept
<1>1. Init => KeptInv
  <2> SUFFICES ASSUME Init PROVE KeptInv
    OBVIOUS
  <2>1. kept = (IF file = NoFile THEN {} ELSE DOMAIN file.agents) /\ req = [c \in Clients |-> Idle]
    BY DEF Init
  <2>2. PICK n : n = Idle
    OBVIOUS
  <2>3. Saves(n) /\ \A c \in Clients : req[c] = n
    BY <2>1, <2>2, IdleOK DEF Saves
  <2> QED
    BY <2>1, <2>3, SpecFields DEF KeptInv
<1>2. TypeInv /\ KeptInv /\ [Next]_vars => KeptInv'
  <2> SUFFICES ASSUME TypeInv, KeptInv, [Next]_vars PROVE KeptInv'
    OBVIOUS
  <2>1. CASE UNCHANGED vars
    BY <2>1 DEF vars, KeptInv, Saves
  <2>2. CASE Next
    BY <2>2, KeptNext DEF Next
  <2> QED
    BY <2>1, <2>2
<1>3. TypeInv /\ KeptInv => Kept
  BY FileFacts DEF KeptInv, Kept
<1> QED
  BY <1>1, <1>2, <1>3, Typed, PTL DEF Spec

-----------------------------------------------------------------------------
(* Runs: what becomes of a decision up to the session.                     *)
Routed(r) ==
  /\ r.pc \in FilePlace \union {"idle"} => r.d = NoDecision
  /\ r.d # NoDecision /\ AsksForReview(r.ask.message, r.ask.agent # NoAgent)
       => r.d.review \/ "never" \in r.policies
  /\ r.pc \in {"sandbox", "plan"} /\ r.ask.flow.policy = "always" => r.d.review

Planned(s) ==
  /\ s.graph \in DOMAIN graphs
  /\ s.tasks # << >>
  /\ ToSet(s.tasks) \subseteq DOMAIN graphs[s.graph].agents
  /\ Cardinality(ToSet(s.tasks)) = Len(s.tasks)

PlannedFirst(s) ==
  LET graph == graphs[s.graph] IN
  s.start \in Entrypoints /\ graph.agents[s.start] # CliBacked
    /\ ~s.named /\ "planner" \in DOMAIN graph.agents =>
      \A j \in DOMAIN s.tasks :
        s.tasks[j] = "coder" => \E i \in 1 .. j - 1 : s.tasks[i] = "planner"

WillBeReviewed(s) ==
  \/ "never" \in s.policies \/ s.review
  \/ s.flow.policy # "always" /\ ~AsksForReview(s.message, s.agent # NoAgent)

RunsInv ==
  /\ \A c \in Clients : Routed(req[c])
  /\ \A s \in sessions : Planned(s) /\ PlannedFirst(s) /\ WillBeReviewed(s)

LEMMA RoutedOn ==
  ASSUME TypeInv, RunsInv, NEW c \in Clients, NEW n, Step(c, n), Routed(n)
  PROVE  \A o \in Clients : Routed(req[o])'
<1> TAKE o \in Clients
<1>1. CASE o = c
  BY <1>1, StepReq DEF Routed
<1>2. CASE o # c
  BY <1>2, StepReq DEF Routed, RunsInv
<1> QED
  BY <1>1, <1>2

LEMMA SessionsStay ==
  ASSUME TypeInv, RunsInv, Grows
  PROVE  \A s \in sessions : (Planned(s) /\ PlannedFirst(s) /\ WillBeReviewed(s))'
<1> TAKE s \in sessions
<1>1. Planned(s) /\ PlannedFirst(s) /\ WillBeReviewed(s)
  BY DEF RunsInv
<1>2. s.graph \in DOMAIN graphs' /\ graphs'[s.graph] = graphs[s.graph]
  BY <1>1 DEF Planned, Grows
<1>3. Planned(s)'
  BY <1>1, <1>2 DEF Planned
<1>4. PlannedFirst(s)'
  BY <1>1, <1>2 DEF PlannedFirst
<1>5. WillBeReviewed(s)'
  BY <1>1 DEF WillBeReviewed
<1> QED
  BY <1>3, <1>4, <1>5

LEMMA RoutedIdle == Routed(Idle)
BY IdleOK DEF Routed

(* The steps of requests that are about the file.                          *)
LEMMA FileSide ==
  ASSUME TypeInv, RunsInv, NEW c \in Clients,
         \/ SaveProfile(c) \/ Read(c) \/ Load(c) \/ Truncate(c) \/ Write(c)
         \/ SavePackInstallation(c) \/ CompileFile(c)
  PROVE  /\ UNCHANGED << graphs, sessions >>
         /\ \E n : Step(c, n) /\ Routed(n)
<1> DEFINE r == req[c]
           Good == \E n : Step(c, n) /\ Routed(n)
<1>0. r \in Req /\ Routed(r)
  BY Here DEF RunsInv
<1>1. ASSUME End(c) PROVE Good
  BY <1>1, RoutedIdle DEF End
<1>2. ASSUME NEW n \in Req, Step(c, n), n.pc \in FilePlace, r.pc \in FilePlace, n.d = r.d
      PROVE  Good
  <2>1. Routed(n)
    BY <1>0, <1>2 DEF Routed, FilePlace
  <2> QED
    BY <1>2, <2>1
<1> HIDE DEF Good
<1> SUFFICES UNCHANGED << graphs, sessions >> /\ Good
  BY DEF Good
<1>3. CASE SaveProfile(c)
  BY <1>3, <1>2, ProfileSteps DEF FilePlace
<1>4. CASE Read(c)
  BY <1>4, <1>1, <1>2, ReadSteps DEF FilePlace, fileVars
<1>5. CASE SavePackInstallation(c)
  BY <1>5, <1>2, PackSteps DEF FilePlace
<1>6. CASE CompileFile(c)
  BY <1>6, <1>1, <1>2, CompileSteps DEF FilePlace, fileVars
<1>7. CASE Load(c)
  <2>1. r.pc = "load" /\ UNCHANGED << graphs, sessions >>
    BY <1>7, LoadSteps DEF fileVars
  <2>2. ASSUME NEW t, Step(c, [r EXCEPT !.todo = t]) PROVE Routed([r EXCEPT !.todo = t])
    <3>1. PICK n : n = [r EXCEPT !.todo = t]
      OBVIOUS
    <3>2. n.pc = "load" /\ n.d = r.d
      BY <1>0, <2>1, <3>1 DEF Req
    <3>3. Routed(n)
      BY <1>0, <2>1, <3>2 DEF Routed, FilePlace
    <3> QED
      BY <3>1, <3>3
  <2>3. ASSUME NEW e PROVE Routed([r EXCEPT !.pc = "truncate", !.spec = e])
    <3>1. PICK n : n = [r EXCEPT !.pc = "truncate", !.spec = e]
      OBVIOUS
    <3>2. n.pc = "truncate" /\ n.d = r.d
      BY <1>0, <3>1 DEF Req
    <3>3. Routed(n)
      BY <1>0, <2>1, <3>2 DEF Routed, FilePlace
    <3> QED
      BY <3>1, <3>3
  <2>4. CASE End(c)
    BY <2>1, <2>4, <1>1
  <2>5. CASE Step(c, [r EXCEPT !.todo = Tail(r.todo)])
    BY <2>1, <2>2, <2>5 DEF Good
  <2>6. CASE Step(c, [r EXCEPT !.pc = "truncate", !.spec = Edit(Head(r.todo), Before, r, r.back)])
    BY <2>1, <2>3, <2>6 DEF Good
  <2> QED
    BY <1>7, <2>4, <2>5, <2>6, LoadSteps
<1>8. CASE Truncate(c)
  <2>1. r.pc = "truncate" /\ UNCHANGED << graphs, sessions >> /\ Step(c, [r EXCEPT !.pc = "write"])
    BY <1>8 DEF Truncate, At, fileVars
  <2>2. PICK n : n = [r EXCEPT !.pc = "write"]
    OBVIOUS
  <2>3. n \in Req /\ n.pc = "write" /\ n.d = r.d
    BY <1>0, <2>2 DEF Req, Place
  <2> QED
    BY <2>1, <2>2, <2>3, <1>2 DEF FilePlace
<1>9. CASE Write(c)
  <2>1. r.pc = "write" /\ UNCHANGED << graphs, sessions >>
    BY <1>9, WriteSteps
  <2>2. ASSUME NEW p \in {"row", "load", "compile"}, NEW t
        PROVE  Routed([r EXCEPT !.pc = p, !.todo = t, !.spec = NoFile])
    <3>1. PICK n : n = [r EXCEPT !.pc = p, !.todo = t, !.spec = NoFile]
      OBVIOUS
    <3>2. n.pc = p /\ n.d = r.d
      BY <1>0, <3>1 DEF Req
    <3>3. Routed(n)
      BY <1>0, <2>1, <3>2 DEF Routed, FilePlace
    <3> QED
      BY <3>1, <3>3
  <2>3. CASE End(c)
    BY <2>1, <2>3, <1>1
  <2>4. CASE ~End(c)
    <3>1. PICK p \in {"row", "load", "compile"} :
            Step(c, [r EXCEPT !.pc = p, !.todo = Tail(r.todo), !.spec = NoFile])
      BY <1>9, <2>4, WriteSteps
    <3> QED
      BY <2>1, <2>2, <3>1 DEF Good
  <2> QED
    BY <2>3, <2>4
<1> QED
  BY <1>3, <1>4, <1>5, <1>6, <1>7, <1>8, <1>9

(* The steps of chats and runs before the session.                         *)
LEMMA RunSide ==
  ASSUME TypeInv, RunsInv, NEW c \in Clients,
         \/ RouteChat(c) \/ Answer(c) \/ StartRun(c) \/ CreateDefaultTeam(c)
         \/ ReadSettings(c) \/ Preview(c) \/ ReadSandbox(c)
  PROVE  /\ sessions' = sessions /\ Grows
         /\ \E n : Step(c, n) /\ Routed(n)
<1> DEFINE r == req[c]
           Good == \E n : Step(c, n) /\ Routed(n)
<1>0. r \in Req /\ Routed(r)
  BY Here DEF RunsInv
<1>1. ASSUME End(c) PROVE Good
  BY <1>1, RoutedIdle DEF End
<1>2. ASSUME NEW n, Step(c, n), Routed(n) PROVE Good
  BY <1>2
<1>3. ASSUME UNCHANGED << file, fileVars >> PROVE sessions' = sessions /\ Grows
  <2>1. file' = file /\ graphs' = graphs /\ sessions' = sessions
    BY <1>3 DEF fileVars
  <2> QED
    BY <2>1, GrowsSame
<1> HIDE DEF Good
<1> SUFFICES sessions' = sessions /\ Grows /\ Good
  BY DEF Good
<1>4. CASE RouteChat(c)
  <2>1. CASE End(c)
    BY <1>1, <1>3, <1>4, <2>1, RouteSteps
  <2>2. CASE ~End(c)
    <3>1. PICK n \in Req :
            /\ Step(c, n) /\ n.pc \in {"answer", "start"}
            /\ AsksForReview(n.ask.message, n.ask.agent # NoAgent) => n.d.review
      BY <1>4, <2>2, RouteSteps
    <3>2. Routed(n)
      BY <3>1 DEF Routed, FilePlace
    <3> QED
      BY <1>2, <1>3, <1>4, <3>1, <3>2, RouteSteps
  <2> QED
    BY <2>1, <2>2
<1>5. CASE Answer(c)
  <2>1. CASE End(c)
    BY <1>1, <1>3, <1>5, <2>1, AnswerSteps
  <2>2. CASE ~End(c)
    <3>1. PICK n \in Req :
            /\ Step(c, n) /\ n.pc = "start" /\ Alike(n, r)
            /\ r.d.review => n.d.review
      BY <1>5, <2>2, AnswerSteps
    <3>2. r.d \in Decision /\ r.d # NoDecision
      <4>1. r.d \in Decision
        BY <1>5, AnswerSteps
      <4>2. r.d.mode \in Mode /\ NoDecision.mode = "none"
        BY <4>1 DEF Decision, NoDecision
      <4> QED
        BY <4>1, <4>2 DEF Mode
    <3>3. Routed(n)
      BY <1>0, <3>1, <3>2 DEF Routed, FilePlace, Alike
    <3> QED
      BY <1>2, <1>3, <1>5, <3>1, <3>3, AnswerSteps
  <2> QED
    BY <2>1, <2>2
<1>6. CASE StartRun(c)
  <2>1. CASE End(c)
    BY <1>1, <1>3, <1>6, <2>1, StartSteps
  <2>2. CASE ~End(c)
    <3>1. PICK n \in Req :
            /\ Step(c, n) /\ n.pc \in {"settings", "team"} /\ Alike(n, r) /\ n.d = r.d
      BY <1>6, <2>2, StartSteps
    <3>2. Routed(n)
      BY <1>0, <3>1 DEF Routed, FilePlace, Alike
    <3> QED
      BY <1>2, <1>3, <1>6, <3>1, <3>2, StartSteps
  <2> QED
    BY <2>1, <2>2
<1>7. CASE CreateDefaultTeam(c)
  <2>1. PICK m \in Models : graphs' = Append(graphs, DefaultTeam(m))
    BY <1>7, TeamSteps
  <2>2. PICK g \in Snapshot : g = DefaultTeam(m) /\ Valid(g)
    BY DefaultTeamOK
  <2>3. sessions' = sessions /\ file' = file
    BY <1>7, TeamSteps DEF runVars
  <2>4. Grows
    BY <2>1, <2>2, <2>3, Added
  <2>5. PICK n \in Req : Step(c, n) /\ n.pc = "settings" /\ Alike(n, r) /\ n.d = r.d
    BY <1>7, TeamSteps
  <2>6. Routed(n)
    BY <1>0, <2>5 DEF Routed, FilePlace, Alike
  <2> QED
    BY <1>2, <2>3, <2>4, <2>5, <2>6
<1>8. CASE ReadSettings(c)
  <2>1. CASE End(c)
    BY <1>1, <1>3, <1>8, <2>1, SettingsSteps
  <2>2. CASE ~End(c)
    <3>1. PICK n \in Req, e \in Decision :
            /\ Step(c, n) /\ n.pc \in {"preview", "sandbox"} /\ Alike(n, r)
            /\ n.ask.flow = Settings
            /\ Settings.policy \in n.policies /\ n.d = ApplySettings(e, Settings)
            /\ r.d # NoDecision => e = r.d
            /\ \/ r.d # NoDecision
               \/ AsksForReview(n.ask.message, n.ask.agent # NoAgent) => e.review
      BY <1>8, <2>2, SettingsSteps
    <3>2. /\ Settings.policy = "always" => n.d.review
          /\ Settings.policy # "never" /\ e.review => n.d.review
      BY <3>1, SettingsOK, ApplyOK
    <3>3. AsksForReview(n.ask.message, n.ask.agent # NoAgent)
            => e.review \/ "never" \in n.policies
      BY <1>0, <3>1 DEF Routed, Alike
    <3>4. Routed(n)
      BY <3>1, <3>2, <3>3 DEF Routed, FilePlace
    <3> QED
      BY <1>2, <1>3, <1>8, <3>1, <3>4, SettingsSteps
  <2> QED
    BY <2>1, <2>2
<1>9. CASE Preview(c)
  <2>1. PICK n \in Req :
          /\ Step(c, n) /\ n.pc = "start" /\ Alike(n, r) /\ n.d.review = r.d.review
    BY <1>9, PreviewSteps
  <2>2. r.d # NoDecision
    <3>1. r.d \in Decision
      BY <1>9, PreviewSteps, Here DEF OnPath
    <3>2. r.d.mode \in Mode /\ NoDecision.mode = "none"
      BY <3>1 DEF Decision, NoDecision
    <3> QED
      BY <3>2 DEF Mode
  <2>3. Routed(n)
    BY <1>0, <2>1, <2>2 DEF Routed, FilePlace, Alike
  <2> QED
    BY <1>2, <1>3, <1>9, <2>1, <2>3, PreviewSteps
<1>10. CASE ReadSandbox(c)
  <2>1. CASE End(c)
    BY <1>1, <1>3, <1>10, <2>1, SandboxSteps
  <2>2. CASE ~End(c)
    <3>1. PICK n \in Req : /\ Step(c, n) /\ n.pc = "plan" /\ Alike(n, r) /\ n.d = r.d
                           /\ n.ask = r.ask
      BY <1>10, <2>2, SandboxSteps
    <3>2. r.pc = "sandbox"
      BY <1>10, SandboxSteps
    <3>3. Routed(n)
      BY <1>0, <3>1, <3>2 DEF Routed, FilePlace, Alike
    <3> QED
      BY <1>2, <1>3, <1>10, <3>1, <3>3, SandboxSteps
  <2> QED
    BY <2>1, <2>2
<1> QED
  BY <1>4, <1>5, <1>6, <1>7, <1>8, <1>9, <1>10

(* An agent that is not external leads to no other: it starts alone.       *)
LEMMA StartsAlone ==
  ASSUME NEW graph \in Snapshot, NEW start, Startable(graph, start),
         graph.agents[start] # CliBacked
  PROVE  LET plan == HandoffPlan(graph, start) IN
         DOMAIN plan = {1} /\ plan[1] = start
<1> DEFINE plan == HandoffPlan(graph, start)
<1>1. start \in DOMAIN graph.agents /\ Outgoing(graph, start) = {}
  BY DEF Startable
<1>2. IsFiniteSet(graph.edges)
  BY DEF Snapshot, Handoffs
<1>3. /\ plan \in Chains(graph, start) /\ Listing(plan, DOMAIN graph.agents)
      /\ plan[1] = start /\ plan # << >>
  BY <1>1, <1>2, HandoffPlanOnce
<1>4. \A i \in 1 .. Len(plan) - 1 : Outgoing(graph, plan[i]) # {}
  BY <1>3 DEF Chains
<1> HIDE DEF plan
<1>5. Len(plan) \in Nat /\ Len(plan) # 0 /\ DOMAIN plan = 1 .. Len(plan)
  BY <1>3, LenProperties, EmptySeq DEF Listing
<1>6. ~(1 \in 1 .. Len(plan) - 1)
  BY <1>1, <1>3, <1>4
<1>7. Len(plan) = 1
  BY <1>5, <1>6
<1>8. DOMAIN plan = {1}
  BY <1>5, <1>7
<1> QED
  BY <1>3, <1>8 DEF plan

LEMMA TaskPlanFirst ==
  ASSUME NEW graph \in Snapshot, NEW packed1, NEW start, NEW d,
         Startable(graph, start), graph.agents[start] # CliBacked, start \in Entrypoints,
         d.roles = << >>, "planner" \in DOMAIN graph.agents,
         NEW j \in DOMAIN TaskPlan(graph, packed1, start, d),
         TaskPlan(graph, packed1, start, d)[j] = "coder"
  PROVE  \E i \in 1 .. j - 1 : TaskPlan(graph, packed1, start, d)[i] = "planner"
<1> DEFINE roles == MatchRoles(graph, start, d)
           plan == TaskPlan(graph, packed1, start, d)
<1>1. start \in DOMAIN graph.agents
  BY DEF Startable
<1>2. plan = roles \/ plan = HandoffPlan(graph, start)
  BY DEF TaskPlan
<1>3. CASE plan = roles
  <2>1. 2 < j /\ roles[2] = "planner"
    BY <1>1, <1>3, PlannerBeforeCoder
  <2>2. << >> \in Seq(Ids)
    OBVIOUS
  <2>3. Listing(roles, DOMAIN graph.agents)
    BY <2>2, MatchRolesOnce
  <2> HIDE DEF roles
  <2>4. j \in Nat
    BY <1>3, <2>3, LenProperties DEF Listing
  <2>5. 2 \in 1 .. j - 1
    BY <2>1, <2>4
  <2> QED
    BY <1>3, <2>1, <2>5
<1>4. CASE plan = HandoffPlan(graph, start)
  <2>1. j = 1 /\ plan[j] = start
    BY <1>4, StartsAlone
  <2> QED
    BY <2>1 DEF Entrypoints
<1> QED
  BY <1>2, <1>3, <1>4

LEMMA SessionSteps ==
  ASSUME NEW c \in Clients, CreateSession(c)
  PROVE  LET r == req[c] IN
         /\ r.pc = "plan" /\ End(c) /\ UNCHANGED << file, graphs >>
         /\ \E s : /\ sessions' = sessions \union {s}
                   /\ s.graph = r.graph /\ s.start = r.start /\ s.agent = r.ask.agent
                   /\ s.tasks = TaskPlan(graphs[r.graph], packed, r.start, r.d)
                   /\ s.named = (r.d.roles # << >>) /\ s.review = r.d.review
                   /\ s.policies = r.policies /\ s.message = r.ask.message
                   /\ s.flow = r.ask.flow
<1> DEFINE r == req[c]
           plan == TaskPlan(graphs[r.graph], packed, r.start, r.d)
           named == r.d.roles # << >>
<1>1. r.pc = "plan" /\ End(c) /\ UNCHANGED << file, graphs >>
      /\ sessions' = sessions \union
           {[graph |-> r.graph, start |-> r.start, agent |-> r.ask.agent, tasks |-> plan,
             named |-> named, review |-> r.d.review, policies |-> r.policies,
             message |-> r.ask.message, flow |-> r.ask.flow]}
  BY DEF CreateSession, At, runVars
<1> HIDE DEF plan, named
<1>2. PICK s : s = [graph |-> r.graph, start |-> r.start, agent |-> r.ask.agent, tasks |-> plan,
             named |-> named, review |-> r.d.review, policies |-> r.policies,
             message |-> r.ask.message, flow |-> r.ask.flow]
  OBVIOUS
<1>3. /\ s.graph = r.graph /\ s.start = r.start /\ s.agent = r.ask.agent
      /\ s.tasks = plan /\ s.named = named /\ s.review = r.d.review
      /\ s.policies = r.policies /\ s.message = r.ask.message
      /\ s.flow = r.ask.flow
  BY <1>2
<1> QED
  BY <1>1, <1>2, <1>3 DEF plan, named

LEMMA SessionSide ==
  ASSUME TypeInv, RunsInv, NEW c \in Clients, CreateSession(c)
  PROVE  RunsInv'
<1> DEFINE r == req[c]
           graph == graphs[r.graph]
           plan == TaskPlan(graph, packed, r.start, r.d)
<1>1. r.pc = "plan" /\ End(c) /\ UNCHANGED << file, graphs >>
  BY SessionSteps
<1>2. PICK s : /\ sessions' = sessions \union {s}
               /\ s.graph = r.graph /\ s.start = r.start /\ s.agent = r.ask.agent
               /\ s.tasks = plan
               /\ s.named = (r.d.roles # << >>) /\ s.review = r.d.review
               /\ s.policies = r.policies /\ s.message = r.ask.message
               /\ s.flow = r.ask.flow
  BY SessionSteps
<1>3. r \in Req /\ r.d \in Decision /\ r.d.roles \in Seq(Ids) /\ r.graph \in DOMAIN graphs
      /\ graph \in Snapshot /\ Startable(graph, r.start) /\ r.start \in DOMAIN graph.agents
  BY <1>1, Here DEF OnPath, Held, Decision, Startable
<1>4. IsFiniteSet(graph.edges)
  BY <1>3 DEF Snapshot, Handoffs
<1>5. Listing(plan, DOMAIN graph.agents) /\ plan # << >>
  BY <1>3, <1>4, TaskPlanOnce
<1>6. Planned(s)
  <2> HIDE DEF plan
  <2>1. Cardinality(ToSet(plan)) = Len(plan)
    BY <1>5, ListingSize
  <2>2. ToSet(plan) \subseteq DOMAIN graph.agents
    BY <1>5, FiniteRange DEF Listing
  <2> QED
    BY <1>2, <1>3, <1>5, <2>1, <2>2 DEF Planned
<1>7. PlannedFirst(s)
  <2> SUFFICES ASSUME s.start \in Entrypoints, graphs[s.graph].agents[s.start] # CliBacked,
                      ~s.named, "planner" \in DOMAIN graphs[s.graph].agents,
                      NEW j \in DOMAIN s.tasks, s.tasks[j] = "coder"
               PROVE  \E i \in 1 .. j - 1 : s.tasks[i] = "planner"
    BY DEF PlannedFirst
  <2>1. r.d.roles = << >>
    BY <1>2
  <2> QED
    BY <1>2, <1>3, <2>1, TaskPlanFirst
<1>8. WillBeReviewed(s)
  <2>1. Routed(r)
    BY DEF RunsInv
  <2>2. r.d # NoDecision
    <3>1. r.d.mode \in Mode /\ NoDecision.mode = "none"
      BY <1>3 DEF Decision, NoDecision
    <3> QED
      BY <3>1 DEF Mode
  <2> QED
    BY <1>1, <1>2, <2>1, <2>2 DEF Routed, WillBeReviewed
<1>9. \A t \in sessions' : (Planned(t) /\ PlannedFirst(t) /\ WillBeReviewed(t))'
  <2>1. \A t \in sessions : (Planned(t) /\ PlannedFirst(t) /\ WillBeReviewed(t))'
    BY <1>1, GrowsSame, SessionsStay
  <2>2. (Planned(s) /\ PlannedFirst(s) /\ WillBeReviewed(s))'
    BY <1>1, <1>6, <1>7, <1>8 DEF Planned, PlannedFirst, WillBeReviewed
  <2> QED
    BY <1>2, <2>1, <2>2
<1>10. \A o \in Clients : Routed(req[o])'
  BY <1>1, RoutedOn, RoutedIdle DEF End
<1> QED
  BY <1>9, <1>10 DEF RunsInv

LEMMA RunsNext ==
  ASSUME TypeInv, RunsInv, NEW c \in Clients, ClientStep(c)
  PROVE  RunsInv'
<1>1. ASSUME sessions' = sessions, Grows, \E n : Step(c, n) /\ Routed(n)
      PROVE  RunsInv'
  <2>1. PICK n : Step(c, n) /\ Routed(n)
    BY <1>1
  <2>2. \A o \in Clients : Routed(req[o])'
    BY <2>1, RoutedOn
  <2>3. \A s \in sessions : (Planned(s) /\ PlannedFirst(s) /\ WillBeReviewed(s))'
    BY <1>1, SessionsStay
  <2> QED
    BY <1>1, <2>2, <2>3 DEF RunsInv
<1>2. CASE Give(c)
  <2>1. PICK ask \in Request, n \in Req :
          Step(c, n) /\ n.pc = Opens(ask.do) /\ n.d = NoDecision
    BY <1>2, GiveSteps
  <2>2. Routed(n)
    BY <2>1 DEF Routed, Opens
  <2>3. Grows /\ sessions' = sessions
    BY <1>2, GiveSteps, GrowsSame
  <2> QED
    BY <1>1, <2>1, <2>2, <2>3
<1>3. CASE CutOff(c)
  <2>1. End(c) /\ graphs' = graphs /\ file' = file /\ sessions' = sessions
    BY <1>3 DEF CutOff
  <2> QED
    BY <1>1, <2>1, GrowsSame, RoutedIdle DEF End
<1>4. CASE Publish(c)
  <2>1. End(c) /\ graphs' = Append(graphs, Compile(req[c].spec)) /\ file' = file
        /\ sessions' = sessions /\ req[c].pc = "publish"
    BY <1>4 DEF Publish, At
  <2>2. PICK g : g = Compile(req[c].spec)
    OBVIOUS
  <2>3. g \in Snapshot /\ Valid(g)
    BY <2>1, <2>2, Here, CompileOK DEF OnPath
  <2>4. Grows
    BY <2>1, <2>2, <2>3, Added
  <2> QED
    BY <1>1, <2>1, <2>4, RoutedIdle DEF End
<1>5. CASE \/ SaveProfile(c) \/ Read(c) \/ Load(c) \/ Truncate(c) \/ Write(c)
           \/ SavePackInstallation(c) \/ CompileFile(c)
  <2>1. UNCHANGED << graphs, sessions >> /\ \E n : Step(c, n) /\ Routed(n)
    BY <1>5, FileSide
  <2>2. \A s \in sessions : (Planned(s) /\ PlannedFirst(s) /\ WillBeReviewed(s))'
    BY <2>1 DEF RunsInv, Planned, PlannedFirst, WillBeReviewed
  <2>3. PICK n : Step(c, n) /\ Routed(n)
    BY <2>1
  <2>4. \A o \in Clients : Routed(req[o])'
    BY <2>3, RoutedOn
  <2> QED
    BY <2>1, <2>2, <2>4 DEF RunsInv
<1>6. CASE \/ RouteChat(c) \/ Answer(c) \/ StartRun(c) \/ CreateDefaultTeam(c)
           \/ ReadSettings(c) \/ Preview(c) \/ ReadSandbox(c)
  BY <1>1, <1>6, RunSide
<1>7. CASE CreateSession(c)
  BY <1>7, SessionSide
<1> QED
  BY <1>2, <1>3, <1>4, <1>5, <1>6, <1>7 DEF ClientStep

LEMMA RunsHold == Spec => []RunsInv
<1>1. Init => RunsInv
  <2> SUFFICES ASSUME Init PROVE RunsInv
    OBVIOUS
  <2>1. PICK n : n = Idle
    OBVIOUS
  <2>2. Routed(n) /\ (\A c \in Clients : req[c] = n) /\ sessions = {}
    BY <2>1, RoutedIdle DEF Init
  <2> QED
    BY <2>2 DEF RunsInv
<1>2. TypeInv /\ RunsInv /\ [Next]_vars => RunsInv'
  <2> SUFFICES ASSUME TypeInv, RunsInv, [Next]_vars PROVE RunsInv'
    OBVIOUS
  <2>1. CASE UNCHANGED vars
    BY <2>1 DEF vars, RunsInv, Routed, Planned, PlannedFirst, WillBeReviewed
  <2>2. CASE Next
    BY <2>2, RunsNext DEF Next
  <2> QED
    BY <2>1, <2>2
<1> QED
  BY <1>1, <1>2, Typed, PTL DEF Spec

(* The tasks of a run are agents of the snapshot it is pinned to, one or   *)
(* more, each once, whatever the model answered and the settings say       *)
(* (gateway/run_handler.go, ledgerTaskPlans).                              *)
THEOREM PlansRunHolds == Spec => []PlansRun
<1>1. RunsInv => PlansRun
  BY DEF RunsInv, Planned, PlansRun
<1> QED
  BY <1>1, RunsHold, PTL

(* The review that the rules ask for cannot be talked away by a model, and *)
(* only the settings' never removes it (orchestration/router.go,           *)
(* gateway/semantic_router.go).                                            *)
THEOREM ReviewedHolds == Spec => []Reviewed
<1>1. RunsInv => Reviewed
  BY DEF RunsInv, WillBeReviewed, Reviewed
<1> QED
  BY <1>1, RunsHold, PTL

(* In a team whose roles nobody named, the planner, whose plan is what is  *)
(* reviewed, comes before the coder, unless the run starts at an external  *)
(* agent (orchestration/router.go, defaultRoleIDs; gateway/run_handler.go, *)
(* ledgerTaskPlans).                                                       *)
THEOREM PlansFirstHolds == Spec => []PlansFirst
<1>1. RunsInv => PlansFirst
  BY DEF RunsInv, PlannedFirst, PlansFirst
<1> QED
  BY <1>1, RunsHold, PTL

-----------------------------------------------------------------------------
(* While requests come one after the other and none fails: what the latest *)
(* snapshot is, whether a request is at work or not.                       *)
Public(spec) ==
  \/ ~Valid(spec)
  \/ Latest = Compile(spec)
  \/ ~Runnable(Compile(spec)) /\ \E m \in Models : Latest = DefaultTeam(m)

(* What a request at work still has to do before it may stop.              *)
Due(r) ==
  /\ file = Torn <=> r.pc = "write"
  /\ r.pc \in RunPlace \union {"profile", "read"} => Public(Before)
  /\ r.pc = "load" => Public(Before) \/ Head(r.todo) \in {"put", "section"}
  /\ r.pc \in {"truncate", "write"} => Compiles(r.ask.do) \/ Public(r.spec)
  /\ r.pc = "row" => r.todo = << >> \/ Head(r.todo) \in {"put", "section"}
  /\ r.pc = "publish" => r.spec = file
  /\ r.pc = "team" => ~Runnable(Latest)

CalmInv ==
  calm =>
    /\ \A c, o \in Clients : At(c, "idle") \/ At(o, "idle") \/ c = o
    /\ (\A c \in Clients : At(c, "idle")) => file # Torn /\ Public(Before)
    /\ \A c \in Clients : At(c, "idle") \/ Due(req[c])


LEMMA SameGraph ==
  ASSUME NEW old \in Project, NEW new \in Project,
         new.agents = old.agents, new.refs = old.refs, new.edges = old.edges
  PROVE  Public(old) => Public(new)
<1>1. Valid(new) <=> Valid(old)
  BY DEF Valid
<1>2. Compile(new) = Compile(old)
  BY DEF Compile
<1> QED
  BY <1>1, <1>2 DEF Public

LEMMA CalmStep ==
  ASSUME TypeInv, CalmInv, calm, NEW c \in Clients, req[c].pc # "idle", NEW n, Step(c, n),
         n.pc = "idle" => (file # Torn /\ Public(Before))',
         n.pc # "idle" => Due(n)'
  PROVE  CalmInv'
<1>1. req'[c] = n /\ \A o \in Clients \ {c} : req'[o] = req[o]
  BY StepReq
<1>2. \A o \in Clients \ {c} : req[o].pc = "idle"
  BY DEF CalmInv, At
<1>3. \A o \in Clients \ {c} : req'[o].pc = "idle"
  BY <1>1, <1>2
<1>4. (\A a, o \in Clients : At(a, "idle") \/ At(o, "idle") \/ a = o)'
  BY <1>3 DEF At
<1>5. (\A o \in Clients : At(o, "idle"))' => (file # Torn /\ Public(Before))'
  BY <1>1 DEF At
<1>6. (\A o \in Clients : At(o, "idle") \/ Due(req[o]))'
  <2> SUFFICES ASSUME NEW o \in Clients PROVE (At(o, "idle") \/ Due(req[o]))'
    OBVIOUS
  <2>1. CASE o # c
    BY <1>3, <2>1 DEF At
  <2>2. CASE o = c
    BY <1>1, <2>2 DEF At, Due
  <2> QED
    BY <2>1, <2>2
<1> QED
  BY <1>4, <1>5, <1>6 DEF CalmInv

LEMMA CalmHere ==
  ASSUME TypeInv, CalmInv, calm, NEW c \in Clients, req[c].pc # "idle"
  PROVE  Due(req[c])
BY DEF CalmInv, At

LEMMA CalmEnds ==
  ASSUME TypeInv, CalmInv, calm, NEW c \in Clients, req[c].pc # "idle", End(c),
         (file # Torn /\ Public(Before))'
  PROVE  CalmInv'
<1>1. PICK n : n = Idle
  OBVIOUS
<1>2. Step(c, n) /\ n.pc = "idle"
  BY <1>1, IdleOK DEF End
<1> QED
  BY <1>2, CalmStep

LEMMA Steady ==
  ASSUME UNCHANGED << file, fileVars >>
  PROVE  calm' = calm /\ file' = file /\ Before' = Before /\ Latest' = Latest
         /\ (Public(Before)' <=> Public(Before))
<1>1. calm' = calm /\ file' = file /\ graphs' = graphs
  BY DEF fileVars
<1>2. Before' = Before /\ Latest' = Latest
  BY <1>1 DEF Before, Latest
<1> QED
  BY <1>1, <1>2 DEF Public

(* A step of a run that changes nothing but where it is.                   *)
LEMMA CalmRun ==
  ASSUME TypeInv, CalmInv, calm, NEW c \in Clients, req[c].pc \in RunPlace,
         UNCHANGED << file, fileVars >>,
         \/ End(c)
         \/ \E n \in Req : Step(c, n) /\ n.pc \in RunPlace
                           /\ (n.pc = "team" => ~Runnable(Latest))
  PROVE  CalmInv'
<1>1. Due(req[c]) /\ req[c].pc # "idle" /\ req[c].pc # "write"
  BY CalmHere DEF RunPlace
<1>2. file # Torn /\ Public(Before)
  BY <1>1 DEF Due
<1>3. (file # Torn /\ Public(Before))'
  BY <1>2, Steady
<1>4. CASE End(c)
  BY <1>1, <1>3, <1>4, CalmEnds
<1>5. CASE ~End(c)
  <2>1. PICK n \in Req : Step(c, n) /\ n.pc \in RunPlace /\ (n.pc = "team" => ~Runnable(Latest))
    BY <1>5
  <2>2. Due(n)'
    BY <1>3, <2>1, Steady DEF Due, RunPlace
  <2> QED
    BY <1>1, <2>1, <2>2, CalmStep DEF RunPlace
<1> QED
  BY <1>4, <1>5

LEMMA CalmRunSide ==
  ASSUME TypeInv, CalmInv, calm, NEW c \in Clients,
         \/ RouteChat(c) \/ Answer(c) \/ StartRun(c) \/ ReadSettings(c) \/ Preview(c)
         \/ ReadSandbox(c)
  PROVE  CalmInv'
<1> DEFINE r == req[c]
           Good == \E n \in Req : Step(c, n) /\ n.pc \in RunPlace
                           /\ (n.pc = "team" => ~Runnable(Latest))
<1>0. ASSUME NEW n \in Req, Step(c, n), n.pc \in RunPlace \ {"team"} PROVE Good
  BY <1>0
<1> HIDE DEF Good
<1> SUFFICES r.pc \in RunPlace /\ UNCHANGED << file, fileVars >> /\ (End(c) \/ Good)
  BY CalmRun DEF Good
<1>1. CASE RouteChat(c)
  BY <1>0, <1>1, RouteSteps DEF RunPlace
<1>2. CASE Answer(c)
  BY <1>0, <1>2, AnswerSteps DEF RunPlace
<1>3. CASE StartRun(c)
  <2>1. r.pc = "start" /\ UNCHANGED << file, fileVars >>
    BY <1>3, StartSteps
  <2>2. CASE ~End(c)
    <3>1. PICK n \in Req :
            /\ Step(c, n)
            /\ \/ n.pc = "settings"
               \/ n.pc = "team" /\ ~(graphs # << >> /\ Runnable(Latest))
      BY <1>3, <2>2, StartSteps
    <3>2. graphs = << >> => ~Runnable(Latest)
      BY NewSpecOK, CompileOK DEF Latest, Runnable
    <3>3. Good
      BY <3>1, <3>2 DEF Good, RunPlace
    <3> QED
      BY <2>1, <3>3 DEF RunPlace
  <2> QED
    BY <2>1, <2>2 DEF RunPlace
<1>4. CASE ReadSettings(c)
  BY <1>0, <1>4, SettingsSteps DEF RunPlace
<1>5. CASE Preview(c)
  BY <1>0, <1>5, PreviewSteps DEF RunPlace
<1>6. CASE ReadSandbox(c)
  BY <1>0, <1>6, SandboxSteps DEF RunPlace
<1> QED
  BY <1>1, <1>2, <1>3, <1>4, <1>5, <1>6

LEMMA CalmTeam ==
  ASSUME TypeInv, CalmInv, calm, NEW c \in Clients, CreateDefaultTeam(c)
  PROVE  CalmInv'
<1>1. req[c].pc = "team" /\ Due(req[c])
  BY TeamSteps, CalmHere
<1>2. PICK m \in Models : graphs' = Append(graphs, DefaultTeam(m))
  BY TeamSteps
<1>3. PICK n \in Req : Step(c, n) /\ n.pc = "settings"
  BY TeamSteps
<1>4. file' = file /\ calm' = calm
  BY TeamSteps DEF runVars
<1>5. PICK g \in Snapshot : g = DefaultTeam(m) /\ Valid(g)
  BY DefaultTeamOK
<1>6. Last(graphs') = g /\ graphs' # << >>
  BY <1>2, <1>4, <1>5, Added
<1>7. Latest' = g
  BY <1>6 DEF Latest
<1>8. file # Torn /\ Public(Before) /\ ~Runnable(Latest)
  BY <1>1 DEF Due, RunPlace
<1>9. Public(Before)'
  <2>1. Before' = Before
    BY <1>4 DEF Before
  <2>2. ~Valid(Before) \/ ~Runnable(Compile(Before))
    BY <1>8 DEF Public
  <2> QED
    BY <1>5, <1>7, <2>1, <2>2 DEF Public
<1>10. Due(n)'
  BY <1>3, <1>4, <1>8, <1>9 DEF Due, RunPlace
<1> QED
  BY <1>1, <1>3, <1>10, CalmStep

LEMMA CalmPublish ==
  ASSUME TypeInv, CalmInv, calm, NEW c \in Clients, Publish(c)
  PROVE  CalmInv'
<1>1. /\ req[c].pc = "publish" /\ graphs' = Append(graphs, Compile(req[c].spec)) /\ End(c)
      /\ file' = file
  BY DEF Publish, At
<1>2. Due(req[c])
  BY <1>1, CalmHere
<1>3. file # Torn /\ req[c].spec = file /\ file \in Project /\ Valid(file)
  BY <1>1, <1>2, Here DEF Due, OnPath
<1>4. PICK g : g = Compile(file)
  OBVIOUS
<1>5. g \in Snapshot /\ Valid(g)
  BY <1>3, <1>4, CompileOK
<1>6. Last(graphs') = g /\ graphs' # << >>
  BY <1>1, <1>3, <1>4, <1>5, Added
<1>7. Latest' = Compile(file)
  BY <1>4, <1>6 DEF Latest
<1>8. Before' = file
  BY <1>1, <1>3, SpecFields DEF Before
<1>9. Public(Before)'
  BY <1>7, <1>8 DEF Public
<1> QED
  BY <1>1, <1>3, <1>9, CalmEnds

LEMMA CalmGive ==
  ASSUME TypeInv, CalmInv, NEW c \in Clients, Give(c), calm'
  PROVE  CalmInv'
<1>1. calm /\ (\A o \in Clients : At(o, "idle")) /\ file' = file /\ graphs' = graphs
  BY GiveSteps
<1>2. PICK ask \in Request, n \in Req :
        Step(c, n) /\ n.ask = ask /\ n.pc = Opens(ask.do)
  BY GiveSteps
<1>3. n.pc \in {"profile", "read", "load", "route", "start"}
  BY <1>2 DEF Opens
<1>4. file # Torn /\ Public(Before)
  BY <1>1 DEF CalmInv
<1>5. (file # Torn /\ Public(Before))'
  BY <1>1, <1>4 DEF Public, Before, Latest
<1>6. Due(n)'
  BY <1>3, <1>5 DEF Due
<1>7. req'[c] = n /\ \A o \in Clients \ {c} : req'[o] = req[o]
  BY <1>2, StepReq
<1>8. \A o \in Clients \ {c} : req'[o].pc = "idle"
  BY <1>1, <1>7 DEF At
<1>9. (\A a, o \in Clients : At(a, "idle") \/ At(o, "idle") \/ a = o)'
  BY <1>8 DEF At
<1>10. (\A o \in Clients : At(o, "idle") \/ Due(req[o]))'
  <2> SUFFICES ASSUME NEW o \in Clients PROVE (At(o, "idle") \/ Due(req[o]))'
    OBVIOUS
  <2>1. CASE o # c
    BY <1>8, <2>1 DEF At
  <2>2. CASE o = c
    BY <1>6, <1>7, <2>2 DEF At, Due
  <2> QED
    BY <2>1, <2>2
<1> QED
  BY <1>5, <1>9, <1>10 DEF CalmInv

LEMMA SkillsOnly ==
  ASSUME NEW spec \in Project, NEW r \in Req, NEW edit \in FileEdit, Asks(edit, r.ask.do),
         ~Compiles(r.ask.do), Public(spec)
  PROVE  Public(Edit(edit, spec, r, r.back))
<1>1. r.ask.do \in SkillKinds
  BY DEF Compiles
<1>2. edit \in {"skill", "skill_off", "skill_delete"}
  BY <1>1 DEF Asks, FileEdit, SkillKinds, FlowKinds, SetupKinds
<1>3. PICK k \in Skill : Edit(edit, spec, r, r.back) = [spec EXCEPT !.skill = k]
  BY <1>2 DEF Edit, SetSkill, Skill
<1>4. PICK new : new = [spec EXCEPT !.skill = k]
  OBVIOUS
<1>5. new \in Project
  BY <1>4, SpecWith
<1>6. new.agents = spec.agents /\ new.refs = spec.refs /\ new.edges = spec.edges
  BY <1>4 DEF Project
<1> QED
  BY <1>3, <1>4, <1>5, <1>6, SameGraph

LEMMA CalmLoad ==
  ASSUME TypeInv, CalmInv, calm, NEW c \in Clients, Load(c)
  PROVE  CalmInv'
<1> DEFINE r == req[c]
           edit == Head(r.todo)
<1>1. r.pc = "load" /\ UNCHANGED << file, fileVars >>
  BY LoadSteps
<1>2. Due(r) /\ file # Torn /\ (Public(Before) \/ edit \in {"put", "section"})
  BY <1>1, CalmHere DEF Due
<1>3. r \in Req /\ r.todo # << >> /\ ToDo(r.todo, r.ask.do) /\ r.ask.do \in FileKinds
      /\ (r.ask.do \in AgentKinds => r.ask.agent \in Agents)
  BY <1>1, Here DEF OnPath, FilePlace
<1>4. edit \in FileEdit /\ Asks(edit, r.ask.do)
  BY <1>3, HeadFacts
<1>5. file' = file /\ calm' = calm /\ Before' = Before /\ Latest' = Latest
      /\ (Public(Before)' <=> Public(Before))
  BY <1>1, Steady
<1>6. CASE End(c)
  <2>1. Public(Before)
    <3>1. CASE edit \in {"put", "section"}
      <4>1. CanEdit(edit, Before, r, r.back)
        BY <3>1 DEF CanEdit
      <4>2. ~End(c)
        <5>1. PICK e : e = Edit(edit, Before, r, r.back)
          OBVIOUS
        <5>2. Step(c, [r EXCEPT !.pc = "truncate", !.spec = e])
          BY <1>2, <3>1, <4>1, <5>1 DEF Load, Before
        <5>3. PICK n : n = [r EXCEPT !.pc = "truncate", !.spec = e]
          OBVIOUS
        <5>4. Step(c, n) /\ n.pc = "truncate"
          BY <1>3, <5>2, <5>3 DEF Req
        <5>5. req'[c].pc = "truncate"
          BY <5>4, StepReq
        <5>6. ASSUME End(c) PROVE FALSE
          <6>1. PICK i : i = Idle
            OBVIOUS
          <6>2. Step(c, i) /\ i.pc = "idle"
            BY <5>6, <6>1, IdleOK DEF End
          <6> QED
            BY <5>5, <6>2, StepReq
        <5> QED
          BY <5>6
      <4> QED
        BY <1>6, <4>2
    <3> QED
      BY <1>2, <3>1
  <2> QED
    BY <1>1, <1>2, <1>5, <1>6, <2>1, CalmEnds
<1>7. CASE edit = "ensure" /\ Step(c, [r EXCEPT !.todo = Tail(r.todo)])
  <2> DEFINE t == Tail(r.todo)
  <2>1. Public(Before)
    BY <1>2, <1>7
  <2> HIDE DEF t
  <2>2. PICK n : n = [r EXCEPT !.todo = t]
    OBVIOUS
  <2>3. n.pc = "load" /\ Step(c, n)
    BY <1>1, <1>3, <1>7, <2>2 DEF Req, t
  <2>4. Due(n)'
    BY <1>2, <1>5, <2>1, <2>3 DEF Due, RunPlace
  <2> QED
    BY <1>1, <2>3, <2>4, CalmStep
<1>8. CASE /\ Before \in Project
           /\ Step(c, [r EXCEPT !.pc = "truncate", !.spec = Edit(edit, Before, r, r.back)])
  <2> DEFINE e == Edit(edit, Before, r, r.back)
  <2>1. Compiles(r.ask.do) \/ Public(e)
    <3>1. CASE edit \in {"put", "section"}
      BY <1>4, <3>1 DEF Compiles, Asks, SkillKinds, SetupKinds
    <3>2. CASE Public(Before)
      BY <1>3, <1>4, <1>8, <3>2, SkillsOnly
    <3> QED
      BY <1>2, <3>1, <3>2
  <2> HIDE DEF e
  <2>2. PICK n : n = [r EXCEPT !.pc = "truncate", !.spec = e]
    OBVIOUS
  <2>3. n.pc = "truncate" /\ n.spec = e /\ n.ask = r.ask /\ Step(c, n)
    BY <1>3, <1>8, <2>2 DEF Req, e
  <2>4. Compiles(n.ask.do) \/ Public(n.spec)'
    BY <1>5, <2>1, <2>3 DEF Public
  <2>5. Due(n)'
    BY <1>2, <1>5, <2>3, <2>4 DEF Due, RunPlace
  <2> QED
    BY <1>1, <2>3, <2>5, CalmStep
<1> QED
  BY <1>6, <1>7, <1>8, LoadSteps

LEMMA CalmTruncate ==
  ASSUME TypeInv, CalmInv, calm, NEW c \in Clients, Truncate(c)
  PROVE  CalmInv'
<1> DEFINE r == req[c]
<1>1. r.pc = "truncate" /\ file' = Torn /\ calm' = calm /\ graphs' = graphs
      /\ Step(c, [r EXCEPT !.pc = "write"])
  BY DEF Truncate, At, fileVars
<1>2. Due(r) /\ r \in Req
  BY <1>1, CalmHere, Here
<1>3. PICK n : n = [r EXCEPT !.pc = "write"]
  OBVIOUS
<1>4. Step(c, n) /\ n.pc = "write" /\ n.ask = r.ask /\ n.spec = r.spec
  BY <1>1, <1>2, <1>3 DEF Req
<1>5. Compiles(n.ask.do) \/ Public(n.spec)'
  BY <1>1, <1>2, <1>4 DEF Due, Public, Latest
<1>6. Due(n)'
  BY <1>1, <1>4, <1>5 DEF Due, RunPlace
<1> QED
  BY <1>1, <1>4, <1>6, CalmStep

LEMMA CalmWrite ==
  ASSUME TypeInv, CalmInv, calm, NEW c \in Clients, Write(c)
  PROVE  CalmInv'
<1> DEFINE r == req[c]
           rest == Tail(r.todo)
<1>1. r.pc = "write" /\ calm' = calm /\ graphs' = graphs
  BY WriteSteps
<1>2. Due(r) /\ r \in Req /\ r.spec \in Project /\ ToDo(r.todo, r.ask.do) /\ r.todo # << >>
  BY <1>1, CalmHere, Here DEF OnPath, FilePlace
<1>3. file' = r.spec
  BY <1>1, <1>2, WriteSteps DEF Due
<1>4. file' # Torn /\ Before' = r.spec
  BY <1>2, <1>3, SpecFields DEF Before
<1>5. rest \in Seq(FileEdit \union RunKinds) /\ \A i \in DOMAIN rest : rest[i] \in {"put", "section"}
  BY <1>2, HeadFacts
<1>6. rest = << >> \/ Head(rest) \in {"put", "section"}
  <2> HIDE DEF rest
  <2>1. CASE rest # << >>
    <3>1. 1 \in DOMAIN rest /\ Head(rest) = rest[1]
      BY <1>5, <2>1, EmptySeq, LenProperties
    <3> QED
      BY <1>5, <3>1
  <2> QED
    BY <2>1
<1>7. CASE End(c)
  <2>1. ~Compiles(r.ask.do)
    <3>1. PICK next \in {"row", "load", "compile"} :
            \/ ~Compiles(r.ask.do)
            \/ Step(c, [r EXCEPT !.pc = next, !.todo = rest, !.spec = NoFile])
      BY WriteSteps
    <3>2. CASE Step(c, [r EXCEPT !.pc = next, !.todo = rest, !.spec = NoFile])
      <4> HIDE DEF rest
      <4>1. PICK n : n = [r EXCEPT !.pc = next, !.todo = rest, !.spec = NoFile]
        OBVIOUS
      <4>2. Step(c, n) /\ n.pc = next
        BY <1>2, <3>2, <4>1 DEF Req
      <4>3. PICK i : i = Idle
        OBVIOUS
      <4>4. Step(c, i) /\ i.pc = "idle"
        BY <1>7, <4>3, IdleOK DEF End
      <4>5. req'[c] = n /\ req'[c] = i
        BY <4>2, <4>4, StepReq
      <4> QED
        BY <4>2, <4>4, <4>5
    <3> QED
      BY <3>1, <3>2
  <2>2. Public(r.spec)
    BY <1>1, <1>2, <2>1 DEF Due
  <2>3. Public(Before)'
    BY <1>1, <1>4, <2>2 DEF Public, Latest
  <2> QED
    BY <1>1, <1>4, <1>7, <2>3, CalmEnds
<1>8. CASE ~End(c)
  <2>1. PICK next \in {"row", "load", "compile"} :
          /\ next = "load" => rest # << >>
          /\ Step(c, [r EXCEPT !.pc = next, !.todo = rest, !.spec = NoFile])
    BY <1>8, WriteSteps
  <2> HIDE DEF rest
  <2>2. PICK n : n = [r EXCEPT !.pc = next, !.todo = rest, !.spec = NoFile]
    OBVIOUS
  <2>3. Step(c, n) /\ n.pc = next /\ n.todo = rest
    BY <1>2, <2>1, <2>2 DEF Req
  <2>4. Due(n)'
    BY <1>4, <1>6, <2>1, <2>3 DEF Due, RunPlace
  <2> QED
    BY <1>1, <2>3, <2>4, CalmStep
<1> QED
  BY <1>7, <1>8

LEMMA CalmFileSide ==
  ASSUME TypeInv, CalmInv, calm, NEW c \in Clients,
         SaveProfile(c) \/ Read(c) \/ SavePackInstallation(c) \/ CompileFile(c)
  PROVE  CalmInv'
<1> DEFINE r == req[c]
<1>0. r \in Req /\ Held(r)
  BY Here
<1>1. CASE SaveProfile(c)
  <2>1. PICK n \in Req : Step(c, n) /\ n.pc = "load"
    BY <1>1, ProfileSteps
  <2>2. r.pc = "profile" /\ file' = file /\ graphs' = graphs /\ calm' = calm
    BY <1>1, ProfileSteps
  <2>3. file # Torn /\ Public(Before)
    BY <2>2, CalmHere DEF Due
  <2>4. (file # Torn /\ Public(Before))'
    BY <2>2, <2>3 DEF Public, Before, Latest
  <2>5. Due(n)'
    BY <2>1, <2>4 DEF Due, RunPlace
  <2> QED
    BY <2>1, <2>2, <2>5, CalmStep
<1>2. CASE Read(c)
  <2>1. r.pc = "read" /\ UNCHANGED << file, fileVars >>
    BY <1>2, ReadSteps
  <2>2. file # Torn /\ Public(Before)
    BY <2>1, CalmHere DEF Due
  <2>3. (file # Torn /\ Public(Before))'
    BY <2>1, <2>2, Steady
  <2>4. CASE End(c)
    BY <2>1, <2>3, <2>4, CalmEnds
  <2>5. CASE ~End(c)
    <3>1. PICK n \in Req : Step(c, n) /\ n.pc = "load"
      BY <1>2, <2>5, ReadSteps
    <3>2. Due(n)'
      BY <3>1, <2>3 DEF Due, RunPlace
    <3> QED
      BY <2>1, <3>1, <3>2, CalmStep
  <2> QED
    BY <2>4, <2>5
<1>3. CASE SavePackInstallation(c)
  <2>1. r.pc = "row" /\ file' = file /\ calm' = calm
    BY <1>3, PackSteps
  <2>2. PICK n \in Req :
          /\ Step(c, n) /\ n.pc = IF n.todo = << >> THEN "compile" ELSE "load"
          /\ n.todo = r.todo
    BY <1>3, PackSteps
  <2>3. Due(r)
    BY <2>1, CalmHere
  <2>4. file # Torn /\ (r.todo = << >> \/ Head(r.todo) \in {"put", "section"})
    BY <2>1, <2>3 DEF Due
  <2>5. Due(n)'
    BY <2>1, <2>2, <2>4 DEF Due, RunPlace
  <2> QED
    BY <2>1, <2>2, <2>5, CalmStep
<1>4. CASE CompileFile(c)
  <2>1. r.pc = "compile" /\ UNCHANGED << file, fileVars >>
    BY <1>4, CompileSteps
  <2>2. file # Torn /\ file # NoFile
    BY <1>0, <2>1, CalmHere DEF Due, Held
  <2>3. file' = file /\ Before = file /\ (Public(Before)' <=> Public(Before))
    BY <2>1, <2>2, Steady DEF Before
  <2>4. CASE End(c) /\ ~(file # Torn /\ Valid(file))
    <3>1. Public(Before)
      BY <2>2, <2>3, <2>4 DEF Public
    <3> QED
      BY <2>1, <2>2, <2>3, <2>4, <3>1, CalmEnds
  <2>5. CASE ~(End(c) /\ ~(file # Torn /\ Valid(file)))
    <3>1. PICK n \in Req : Step(c, n) /\ n.pc = "publish" /\ n.spec = file
      BY <1>4, <2>5, CompileSteps
    <3>2. Due(n)'
      BY <2>2, <2>3, <3>1 DEF Due, RunPlace
    <3> QED
      BY <2>1, <3>1, <3>2, CalmStep
  <2> QED
    BY <2>4, <2>5
<1> QED
  BY <1>1, <1>2, <1>3, <1>4

LEMMA CalmNext ==
  ASSUME TypeInv, CalmInv, NEW c \in Clients, ClientStep(c)
  PROVE  CalmInv'
<1>1. CASE ~calm'
  BY <1>1 DEF CalmInv
<1>2. CASE calm'
  <2>1. CASE Give(c)
    BY <1>2, <2>1, CalmGive
  <2>2. CASE ~Give(c)
    <3>1. calm' = calm \/ ~calm'
      BY <2>2 DEF ClientStep, CutOff, SaveProfile, Read, Load, Truncate, Write,
         SavePackInstallation, CompileFile, Publish, RouteChat, Answer, StartRun,
         CreateDefaultTeam, ReadSettings, Preview, ReadSandbox, CreateSession, fileVars, runVars
    <3>2. calm
      BY <1>2, <3>1
    <3>3. ~CutOff(c)
      BY <1>2 DEF CutOff
    <3>4. CASE CreateSession(c)
      <4>1. req[c].pc = "plan" /\ End(c) /\ UNCHANGED << file, graphs >>
        BY <3>4, SessionSteps
      <4>2. file # Torn /\ Public(Before)
        BY <3>2, <4>1, CalmHere DEF Due, RunPlace
      <4>3. (file # Torn /\ Public(Before))'
        BY <4>1, <4>2 DEF Public, Before, Latest
      <4> QED
        BY <3>2, <4>1, <4>3, CalmEnds
    <3> QED
      BY <2>2, <3>2, <3>3, <3>4, CalmRunSide, CalmTeam, CalmPublish, CalmLoad, CalmTruncate,
         CalmWrite, CalmFileSide
         DEF ClientStep
  <2> QED
    BY <2>1, <2>2
<1> QED
  BY <1>1, <1>2

(* When requests come one after the other and none fails, the latest       *)
(* snapshot is the file's, or stands in for a file with nobody to run; a   *)
(* file that Validate refuses is all that is left out: every edit that     *)
(* changes the graph goes on to compile it (projectconfig/config.go,       *)
(* compileAndSave).                                                        *)
THEOREM PublishedHolds == Spec => []Published
<1>1. Init => CalmInv
  <2> SUFFICES ASSUME Init PROVE CalmInv
    OBVIOUS
  <2>1. PICK i : i = Idle
    OBVIOUS
  <2>2. \A c \in Clients : req[c] = i
    BY <2>1 DEF Init
  <2>3. \A c \in Clients : At(c, "idle")
    BY <2>1, <2>2, IdleOK DEF At
  <2>4. file # Torn
    BY FileFacts, SpecFields, ConfigsAssumption, InitType DEF Init
  <2>5. Public(Before)
    <3>1. CASE file = NoFile
      <4>1. graphs = << >> /\ Before = NewSpec
        BY <3>1 DEF Init, Before
      <4>2. Latest = Compile(NewSpec)
        BY <4>1 DEF Latest
      <4> QED
        BY <4>1, <4>2 DEF Public
    <3>2. CASE file # NoFile /\ Valid(file)
      <4>1. PICK g : g = Compile(file)
        OBVIOUS
      <4>2. graphs = << g >>
        BY <3>2, <4>1 DEF Init
      <4>3. Latest = g
        BY <4>2 DEF Latest, Last
      <4> QED
        BY <3>2, <4>1, <4>3 DEF Public, Before
    <3>3. CASE file # NoFile /\ ~Valid(file)
      BY <3>3 DEF Public, Before
    <3> QED
      BY <3>1, <3>2, <3>3
  <2> QED
    BY <2>3, <2>4, <2>5 DEF CalmInv
<1>2. TypeInv /\ CalmInv /\ [Next]_vars => CalmInv'
  <2> SUFFICES ASSUME TypeInv, CalmInv, [Next]_vars PROVE CalmInv'
    OBVIOUS
  <2>1. CASE UNCHANGED vars
    BY <2>1 DEF vars, CalmInv, Due, At, Public, Before, Latest
  <2>2. CASE Next
    BY <2>2, CalmNext DEF Next
  <2> QED
    BY <2>1, <2>2
<1>3. TypeInv /\ CalmInv => Published
  <2> SUFFICES ASSUME TypeInv, CalmInv, calm, file # NoFile, \A c \in Clients : At(c, "idle")
               PROVE  \/ ~Valid(file) \/ Latest.agents = file.agents
                      \/ ~Runnable(Compile(file)) /\ \E m \in Models : Latest = DefaultTeam(m)
    BY DEF Published
  <2>1. file # Torn /\ Public(Before) /\ Before = file
    BY DEF CalmInv, Before
  <2>2. Compile(file).agents = file.agents
    BY DEF Compile
  <2> QED
    BY <2>1, <2>2 DEF Public
<1> QED
  BY <1>1, <1>2, <1>3, Typed, PTL DEF Spec
=============================================================================
