---------------------------- MODULE WorkspaceRun ----------------------------
(***************************************************************************)
(* One run of the workspace: its session, its tasks, the goroutines that   *)
(* work on them and the HTTP handlers with which an operator starts,       *)
(* cancels, resumes and decides (internal/gateway, internal/runs,          *)
(* internal/blocked, internal/artifacts).                                  *)
(*                                                                         *)
(* Nothing but the database is shared, and no transaction joins two calls: *)
(* a step below is one call of a store that changes a status, with the     *)
(* local computation around it.  A trace append belongs to the call it     *)
(* follows, a worker's write of a task's metadata to the call next to it.  *)
(* A worker copies the rows of the tasks when it is launched and goes by   *)
(* this copy; the session's status is what it reads again.                 *)
(***************************************************************************)
EXTENDS Integers, Sequences, FiniteSets

CONSTANTS
  N,            (* number of tasks of the run, worked on in order           *)
  Planner,      (* the planner's task if its plan needs a review, else 0    *)
  Checked,      (* tasks whose role requires run_checks                     *)
  Workers,      (* bound: goroutines of startRunWorker alive at a time      *)
  Handlers,     (* bound: requests in flight at a time                      *)
  Requests,     (* kinds of request the operator makes                      *)
  Concurrent,   (* those the operator makes while the run is busy           *)
  MaxRequests,  (* bound: requests after the start                          *)
  MaxRounds,    (* maxModelToolRounds                                       *)
  Faults        (* subset of {"store", "timeout", "crash"}                  *)

ASSUME NAssumption == N \in Nat \ {0}
ASSUME PlannerAssumption == Planner \in 0 .. N
ASSUME CheckedAssumption == Checked \subseteq 1 .. N
ASSUME BoundsAssumption == MaxRequests \in Nat /\ MaxRounds \in Nat
ASSUME FaultsAssumption == Faults \subseteq {"store", "timeout", "crash"}

VARIABLES
  session,      (* status of the run's session                              *)
  status,       (* status[t] of task t                                      *)
  meta,         (* meta[t]: what the metadata of t says of its tool loop    *)
  sandbox,      (* cleanup status of the run's sandbox record               *)
  plans,        (* review states of the plan artifacts                      *)
  latest,       (* the plan artifact updated last, 0 if there is none       *)
  approvals,    (* statuses of the approvals of tool calls                  *)
  actions,      (* blocked actions, the review queue                        *)
  pc, work,     (* the workers: next call, and what they remember           *)
  hpc, req,     (* the handlers: next call, and what they remember          *)
  issued        (* requests made so far                                     *)

review == << plans, latest, approvals, actions >>
dbVars == << session, status, meta, sandbox, review >>
workerVars == << pc, work >>
handlerVars == << hpc, req, issued >>
vars == << dbVars, workerVars, handlerVars >>

Tasks == 1 .. N

(* needs_clarification is declared by runs/store.go and set by nobody.     *)
Paused == {"plan_review", "blocked"}
Terminal == {"cancelled", "failed", "completed"}
SessionStatus == {"none", "running"} \union Paused \union Terminal
TaskStatus == {"none", "queued", "running"} \union Paused \union Terminal

(* tool_loop_prompt, tool_loop_pending_json, output_preview: whether a     *)
(* tool loop was suspended, for which approval, and whether there is an    *)
(* answer of the model.                                                    *)
Meta == [loop : {"none", "prompt", "pending"}, ask : Nat, preview : BOOLEAN]
NoMeta == [loop |-> "none", ask |-> 0, preview |-> FALSE]

Action == [kind : {"plan", "approval", "retry"}, task : Tasks, plan : Nat,
           ask : Nat, status : {"open", "resolved", "rejected"}]

Work == [at : 1 .. (N + 1), phase : {"loop", "loop_resumed", "checks",
           "checks_resumed"}, round : 0 .. MaxRounds, ask : Nat,
         block : {"plan", "approval", "retry"},
         status : [Tasks -> TaskStatus], meta : [Tasks -> Meta]]
NoWork == [at |-> 1, phase |-> "loop", round |-> 0, ask |-> 0,
           block |-> "retry", status |-> [t \in Tasks |-> "none"],
           meta |-> [t \in Tasks |-> NoMeta]]

WorkerPC == {"idle", "next", "start", "retake", "pending", "loop", "model",
             "record", "artifact", "checks", "complete", "pause", "hold",
             "ask", "fail", "mark", "error", "ledger", "close", "cleanup",
             "finish"}
HandlerPC == {"idle", "create_tasks", "acquire", "launch_new", "cancel_tasks",
              "resolve_by_artifact", "resolve_by_approval", "skip",
              "skip_status", "stop_session", "stop_tasks", "resume", "launch"}
Kind == {"start", "cancel", "resume", "approve", "revise", "retry", "skip",
         "stop", "reject", "clarify", "grant", "deny"}
Req == [kind : Kind, target : Nat, meta : Meta]
NoReq == [kind |-> "start", target |-> 0, meta |-> NoMeta]

Init ==
  /\ session = "none"
  /\ status = [t \in Tasks |-> "none"]
  /\ meta = [t \in Tasks |-> NoMeta]
  /\ sandbox = "none"
  /\ plans = << >>
  /\ latest = 0
  /\ approvals = << >>
  /\ actions = << >>
  /\ pc = [w \in Workers |-> "idle"]
  /\ work = [w \in Workers |-> NoWork]
  /\ hpc = [h \in Handlers |-> "idle"]
  /\ req = [h \in Handlers |-> NoReq]
  /\ issued = 0

-----------------------------------------------------------------------------
(* The calls of the stores that change rows.                               *)

UpdateTaskStatus(t, s) == status' = [status EXCEPT ![t] = s]

(* Mutant of CompleteTasks: what is queued is forgotten. *)
CompleteRunningTasks(s) ==
  status' = [t \in Tasks |-> IF status[t] = "running" THEN s ELSE status[t]]

(* CompleteTasks: what is queued or running gets status s. *)
CompleteTasks(s) ==
  status' = [t \in Tasks |->
               IF status[t] \in {"queued", "running"} THEN s ELSE status[t]]

CancelTasks ==
  status' = [t \in Tasks |->
               IF status[t] \in {"queued", "running"} \union Paused
                 THEN "cancelled" ELSE status[t]]

(* updateTaskMetadata writes the whole metadata, from the worker's copy.   *)
UpdateTaskMetadata(w, t, m) ==
  /\ meta' = [meta EXCEPT ![t] = m]
  /\ work' = [work EXCEPT ![w].meta[t] = m]

(* blocked.setStatus: of the actions picked by P, those that are open.     *)
SetActions(P, s) ==
  actions' = [i \in DOMAIN actions |->
                IF i \in P /\ actions[i].status = "open"
                  THEN [actions[i] EXCEPT !.status = s] ELSE actions[i]]

-----------------------------------------------------------------------------
(* The worker: executeWorkspaceSession inside startRunWorker.              *)

(* Where an error returned at w's next call leads.  Only errors of a fresh *)
(* tool loop mark the task as failed.                                      *)
OnError(w) ==
  IF /\ work[w].phase = "loop"
     /\ pc[w] \in {"loop", "model", "pause", "hold", "ask"}
  THEN "fail" ELSE "error"

(* w goes on at p, unless a trace append fails after the call succeeded.   *)
Then(w, p) ==
  \E q \in {p} \union (IF "store" \in Faults THEN {OnError(w)} ELSE {}) :
    pc' = [pc EXCEPT ![w] = q]

Goto(w, p) == pc' = [pc EXCEPT ![w] = p]

Exit(w) == Goto(w, "idle") /\ work' = [work EXCEPT ![w] = NoWork]

At(w) == work[w].at
AtTask(w) == pc[w] = "next" /\ At(w) \in Tasks

(* Mutant of SkipCompleted: a blocked task is skipped as well. *)
SkipUnfinished(w) ==
  /\ AtTask(w)
  /\ work[w].status[At(w)] \in {"completed", "blocked"}
  /\ work' = [work EXCEPT ![w].at = @ + 1]
  /\ UNCHANGED << dbVars, pc, handlerVars >>

SkipCompleted(w) ==
  /\ AtTask(w)
  /\ work[w].status[At(w)] = "completed"
  /\ work' = [work EXCEPT ![w].at = @ + 1]
  /\ UNCHANGED << dbVars, pc, handlerVars >>

(* The task was cancelled or failed, or the session is not running.        *)
StopWorking(w) ==
  /\ AtTask(w)
  /\ \/ work[w].status[At(w)] \in {"cancelled", "failed"}
     \/ work[w].status[At(w)] # "completed" /\ session # "running"
  /\ Goto(w, "error")
  /\ UNCHANGED << dbVars, work, handlerVars >>

(* The branch for the task's status and metadata, as w remembers them.     *)
Branch(w, p, phase) ==
  /\ Goto(w, p)
  /\ work' = [work EXCEPT ![w].phase = phase, ![w].round = 0]

TakeTask(w) ==
  LET s == work[w].status[At(w)]
      m == work[w].meta[At(w)]
  IN
  /\ AtTask(w)
  /\ s \notin Terminal
  /\ session = "running"
  /\ \/ /\ s = "blocked" /\ m.loop # "none"
        /\ Branch(w, "retake", "loop_resumed")
     \/ /\ s = "plan_review"
        /\ Branch(w, "complete", "checks_resumed")
     \/ /\ s = "blocked" /\ m.loop = "none" /\ m.preview
        /\ Branch(w, "checks", "checks_resumed")
     \/ /\ s \notin Paused \/ (s = "blocked" /\ m.loop = "none" /\ ~ m.preview)
        /\ Branch(w, "start", "loop")
  /\ UNCHANGED << dbVars, handlerVars >>

StartTask(w) ==
  /\ pc[w] \in {"start", "retake"}
  /\ UpdateTaskStatus(At(w), "running")
  /\ IF pc[w] = "retake" /\ work[w].meta[At(w)].loop = "pending"
       THEN Goto(w, "pending")
       ELSE Then(w, "loop")
  /\ UNCHANGED << session, meta, sandbox, review, work, handlerVars >>

(* executePendingModelToolCalls: the approved call is executed.            *)
ExecutePending(w) ==
  LET ask == work[w].meta[At(w)].ask IN
  /\ pc[w] = "pending"
  /\ ask \in DOMAIN approvals
  /\ approvals[ask] \in {"granted", "used"}
  /\ approvals' = [approvals EXCEPT ![ask] = "used"]
  /\ \/ /\ UpdateTaskMetadata(w, At(w), [work[w].meta[At(w)] EXCEPT
                                          !.loop = "prompt", !.ask = 0])
        /\ Goto(w, "loop")
     \/ "store" \in Faults /\ Goto(w, "error") /\ UNCHANGED << meta, work >>
  /\ UNCHANGED << session, status, sandbox, plans, latest, actions,
                  handlerVars >>

(* The call still waits, or was denied: the record is waiting_approval.    *)
StillPending(w) ==
  LET ask == work[w].meta[At(w)].ask IN
  /\ pc[w] = "pending"
  /\ ask \in DOMAIN approvals
  /\ approvals[ask] \in {"pending", "denied"}
  /\ meta' = [meta EXCEPT ![At(w)] = work[w].meta[At(w)]]
  /\ work' = [work EXCEPT ![w].block = "approval", ![w].ask = ask]
  /\ Goto(w, "pause")
  /\ UNCHANGED << session, status, sandbox, review, handlerVars >>

(* The head of the tool loop: stopIfSessionRunnable. *)
LoopCheck(w) ==
  /\ pc[w] = "loop"
  /\ Goto(w, IF session = "running" THEN "model" ELSE OnError(w))
  /\ UNCHANGED << dbVars, work, handlerVars >>

(* The model answers without a tool call. *)
Answer(w) ==
  /\ pc[w] = "model"
  /\ Goto(w, "record")
  /\ work' = [work EXCEPT ![w].phase = IF @ = "loop" THEN "checks" ELSE @]
  /\ UNCHANGED << dbVars, handlerVars >>

(* Mutant of NextRound: no bound on the rounds. *)
NextRoundForEver(w) ==
  /\ pc[w] = "model"
  /\ Goto(w, "loop")
  /\ UNCHANGED << dbVars, work, handlerVars >>

(* The tools it asks for run, and the model is invoked again. *)
NextRound(w) ==
  /\ pc[w] = "model"
  /\ work[w].round < MaxRounds
  /\ Goto(w, "loop")
  /\ work' = [work EXCEPT ![w].round = @ + 1]
  /\ UNCHANGED << dbVars, handlerVars >>

NewAsk == Len(approvals) + 1

(* One of them needs an approval: the loop is saved in the metadata. *)
SuspendLoop(w) ==
  /\ pc[w] = "model"
  /\ work[w].round < MaxRounds
  /\ approvals' = Append(approvals, "pending")
  /\ meta' = [meta EXCEPT ![At(w)] =
                [loop |-> "pending", ask |-> NewAsk, preview |-> TRUE]]
  /\ work' = [work EXCEPT
       ![w].meta[At(w)] = [loop |-> "pending", ask |-> NewAsk, preview |-> TRUE],
       ![w].block = "approval", ![w].ask = NewAsk]
  /\ Goto(w, "pause")
  /\ UNCHANGED << session, status, sandbox, plans, latest, actions,
                  handlerVars >>

(* The round budget, a repeated failure, or a critical-risk command.       *)
Guardrail(w) ==
  /\ pc[w] = "model"
  /\ Goto(w, "pause")
  /\ work' = [work EXCEPT ![w].block = "retry", ![w].ask = 0]
  /\ UNCHANGED << dbVars, handlerVars >>

(* The model, the provider or the CLI agent fails. *)
ModelFails(w) ==
  /\ pc[w] = "model"
  /\ Goto(w, OnError(w))
  /\ UNCHANGED << dbVars, work, handlerVars >>

(* After the answer: the checks of the role unless the loop was resumed,   *)
(* then the plan review, then the task is complete.                        *)
PlanOrComplete(w) == IF At(w) = Planner THEN "pause" ELSE "complete"
ChecksOrNot(w) ==
  IF work[w].phase = "checks" /\ At(w) \in Checked
    THEN "checks" ELSE PlanOrComplete(w)

Record(w) ==
  LET m == work[w].meta[At(w)]
      saved == IF work[w].phase = "loop_resumed"
                 THEN [loop |-> "none", ask |-> 0, preview |-> TRUE]
                 ELSE [m EXCEPT !.preview = TRUE]
  IN
  /\ pc[w] = "record"
  /\ meta' = [meta EXCEPT ![At(w)] = saved]
  /\ work' = [work EXCEPT ![w].meta[At(w)] = saved, ![w].block = "plan",
                          ![w].ask = 0]
  /\ Goto(w, IF At(w) = Planner THEN "artifact" ELSE ChecksOrNot(w))
  /\ UNCHANGED << session, status, sandbox, review, handlerVars >>

(* createRoleArtifact, for the plan. *)
PlanArtifact(w) ==
  /\ pc[w] = "artifact"
  /\ plans' = Append(plans, "draft")
  /\ latest' = Len(plans) + 1
  /\ Then(w, ChecksOrNot(w))
  /\ UNCHANGED << session, status, meta, sandbox, approvals, actions, work,
                  handlerVars >>

(* executeRoleToolPreparation "post": run_checks is executed, ...          *)
Checks(w) ==
  /\ pc[w] = "checks"
  /\ meta' = [meta EXCEPT ![At(w)] = work[w].meta[At(w)]]
  /\ Goto(w, IF work[w].phase = "checks_resumed" THEN "complete"
                                                 ELSE PlanOrComplete(w))
  /\ UNCHANGED << session, status, sandbox, review, work, handlerVars >>

(* ... or needs an approval.                                               *)
ChecksWait(w) ==
  /\ pc[w] = "checks"
  /\ At(w) \in Checked
  /\ approvals' = Append(approvals, "pending")
  /\ work' = [work EXCEPT ![w].block = "approval", ![w].ask = NewAsk]
  /\ Goto(w, "pause")
  /\ UNCHANGED << session, status, meta, sandbox, plans, latest, actions,
                  handlerVars >>

(* The task is completed and its context snapshot is saved. *)
CompleteTask(w) ==
  /\ pc[w] = "complete"
  /\ UpdateTaskStatus(At(w), "completed")
  /\ \/ Goto(w, "next") /\ work' = [work EXCEPT ![w].at = @ + 1]
     \/ "store" \in Faults /\ Goto(w, "error") /\ UNCHANGED work
  /\ UNCHANGED << session, meta, sandbox, review, handlerVars >>

-----------------------------------------------------------------------------
(* blockForPlanReview, blockForToolApproval, blockForToolLoopGuardrail,    *)
(* blockForToolRiskReview: three calls.                                    *)

(* Mutant of PausedStatus: runs/store.go declares this status, unused. *)
PausedStatusAsDeclared(w) ==
  IF work[w].block = "plan" THEN "plan_review" ELSE "waiting_for_approval"

PausedStatus(w) == IF work[w].block = "plan" THEN "plan_review" ELSE "blocked"

(* Mutant of PauseSession: the sandbox is released as at the end of a run. *)
PauseAndRelease(w) ==
  /\ pc[w] = "pause"
  /\ session' = PausedStatus(w)
  /\ sandbox' = "released"
  /\ Goto(w, "hold")
  /\ UNCHANGED << status, meta, review, work, handlerVars >>

PauseSession(w) ==
  /\ pc[w] = "pause"
  /\ session' = PausedStatus(w)
  /\ Goto(w, "hold")
  /\ UNCHANGED << status, meta, sandbox, review, work, handlerVars >>

(* Mutant of SetTaskBlocked: the task stays as it is. *)
LeaveTaskRunning(w) ==
  /\ pc[w] = "hold"
  /\ Goto(w, "ask")
  /\ UNCHANGED << dbVars, work, handlerVars >>

SetTaskBlocked(w) ==
  /\ pc[w] = "hold"
  /\ UpdateTaskStatus(At(w), PausedStatus(w))
  /\ Goto(w, "ask")
  /\ UNCHANGED << session, meta, sandbox, review, work, handlerVars >>

CreateBlocked(w) ==
  /\ pc[w] = "ask"
  /\ actions' = Append(actions,
       [kind |-> work[w].block, task |-> At(w), ask |-> work[w].ask,
        plan |-> IF work[w].block = "plan" THEN latest ELSE 0,
        status |-> "open"])
  /\ \/ UNCHANGED meta
     \/ /\ work[w].block = "retry"
        /\ meta' = [meta EXCEPT ![At(w)] = work[w].meta[At(w)]]
  /\ \/ work[w].block = "plan" /\ Exit(w)
     \/ /\ work[w].block # "plan" \/ "store" \in Faults
        /\ Goto(w, OnError(w))
        /\ UNCHANGED work
  /\ UNCHANGED << session, status, sandbox, plans, latest, approvals,
                  handlerVars >>

-----------------------------------------------------------------------------
(* The end of a worker.                                                    *)

(* An error of a fresh tool loop: sessionIsPaused. *)
FailCheck(w) ==
  /\ pc[w] = "fail"
  /\ Goto(w, IF session \in Paused THEN "error" ELSE "mark")
  /\ UNCHANGED << dbVars, work, handlerVars >>

MarkTaskFailed(w) ==
  /\ pc[w] = "mark"
  /\ UpdateTaskStatus(At(w), "failed")
  /\ meta' = [meta EXCEPT ![At(w)] = work[w].meta[At(w)]]
  /\ Goto(w, "error")
  /\ UNCHANGED << session, sandbox, review, work, handlerVars >>

(* Mutant of GiveUp: an error never fails the run. *)
GiveUpAlways(w) ==
  /\ pc[w] = "error"
  /\ Exit(w)
  /\ UNCHANGED << dbVars, handlerVars >>

(* startRunWorker looks at the session before it fails the run. *)
GiveUp(w) ==
  /\ pc[w] = "error"
  /\ session \in Paused \union {"cancelled"}
  /\ Exit(w)
  /\ UNCHANGED << dbVars, handlerVars >>

FailRun(w) ==
  /\ pc[w] = "error"
  /\ session \notin Paused \union {"cancelled"}
  /\ Goto(w, "ledger")
  /\ UNCHANGED << dbVars, work, handlerVars >>

(* completeRunLedger. *)
FailTasks(w) ==
  /\ pc[w] = "ledger"
  /\ CompleteTasks("failed")
  /\ \/ Goto(w, "close") /\ UNCHANGED work
     \/ "store" \in Faults /\ Exit(w)
  /\ UNCHANGED << session, meta, sandbox, review, handlerVars >>

(* Mutant of FailSession: the session is closed without its sandbox. *)
FailSessionOnly(w) ==
  /\ pc[w] = "close"
  /\ session' = "failed"
  /\ Exit(w)
  /\ UNCHANGED << status, meta, sandbox, review, handlerVars >>

FailSession(w) ==
  /\ pc[w] = "close"
  /\ session' = "failed"
  /\ Goto(w, "cleanup")
  /\ UNCHANGED << status, meta, sandbox, review, work, handlerVars >>

Released == IF sandbox = "active" THEN "released" ELSE sandbox

FailRelease(w) ==
  /\ pc[w] = "cleanup"
  /\ sandbox' = Released
  /\ Exit(w)
  /\ UNCHANGED << session, status, meta, review, handlerVars >>

(* Mutant of ReleaseSandbox: the last task is not waited for. *)
ReleaseEarly(w) ==
  /\ pc[w] = "next"
  /\ At(w) >= N
  /\ sandbox' = Released
  /\ Then(w, "finish")
  /\ UNCHANGED << session, status, meta, review, work, handlerVars >>

(* completeSessionLifecycle. *)
ReleaseSandbox(w) ==
  /\ pc[w] = "next"
  /\ At(w) = N + 1
  /\ sandbox' = Released
  /\ Then(w, "finish")
  /\ UNCHANGED << session, status, meta, review, work, handlerVars >>

CompleteSession(w) ==
  /\ pc[w] = "finish"
  /\ session' = "completed"
  /\ Exit(w)
  /\ UNCHANGED << status, meta, sandbox, review, handlerVars >>

WorkerStep(w) ==
  \/ SkipCompleted(w) \/ StopWorking(w) \/ TakeTask(w) \/ StartTask(w)
  \/ ExecutePending(w) \/ StillPending(w) \/ LoopCheck(w) \/ Answer(w)
  \/ NextRound(w) \/ SuspendLoop(w) \/ Guardrail(w) \/ ModelFails(w)
  \/ Record(w) \/ PlanArtifact(w) \/ Checks(w) \/ ChecksWait(w)
  \/ CompleteTask(w) \/ PauseSession(w) \/ SetTaskBlocked(w)
  \/ CreateBlocked(w) \/ FailCheck(w) \/ MarkTaskFailed(w) \/ GiveUp(w)
  \/ FailRun(w) \/ FailTasks(w) \/ FailSession(w) \/ FailRelease(w)
  \/ ReleaseSandbox(w) \/ CompleteSession(w)

-----------------------------------------------------------------------------
(* What may go wrong with a worker.                                        *)

(* A call of a store returns an error and changes nothing. *)
StoreError(w) ==
  /\ "store" \in Faults
  /\ pc[w] # "idle"
  /\ ~ (AtTask(w) /\ work[w].status[At(w)] = "completed")
  /\ \/ /\ \/ pc[w] \in {"ledger", "close", "cleanup"}
           \/ pc[w] = "ask" /\ work[w].block = "plan"
        /\ Exit(w)
     \/ /\ pc[w] \in {"fail", "mark", "error"}
        /\ Goto(w, CASE pc[w] = "fail" -> "mark"
                     [] pc[w] = "mark" -> "error"
                     [] pc[w] = "error" -> "ledger")
        /\ UNCHANGED work
     \/ /\ pc[w] \notin {"fail", "mark", "error", "ledger", "close", "cleanup"}
        /\ Goto(w, OnError(w))
        /\ UNCHANGED work
  /\ UNCHANGED << dbVars, handlerVars >>

(* The 30 minutes of the worker's context are over.  Every call it still   *)
(* makes uses this context, the ones that would close the run included.    *)
Timeout(w) ==
  /\ "timeout" \in Faults
  /\ pc[w] # "idle"
  /\ Exit(w)
  /\ UNCHANGED << dbVars, handlerVars >>

-----------------------------------------------------------------------------
(* The handlers.                                                           *)

Busy == \/ \E w \in Workers : pc[w] # "idle"
        \/ \E h \in Handlers : hpc[h] # "idle"

(* Request k arrives at h and is carried on at p. *)
Request(h, k, p, target, m) ==
  /\ hpc[h] = "idle"
  /\ session # "none"
  /\ k \in Requests
  /\ issued < MaxRequests
  /\ k \in Concurrent \/ ~ Busy
  /\ issued' = issued + 1
  /\ hpc' = [hpc EXCEPT ![h] = p]
  /\ req' = [req EXCEPT ![h] = IF p = "idle" THEN NoReq
                                ELSE [kind |-> k, target |-> target, meta |-> m]]
  /\ UNCHANGED workerVars

Carry(h, p) ==
  /\ hpc' = [hpc EXCEPT ![h] = p]
  /\ req' = IF p = "idle" THEN [req EXCEPT ![h] = NoReq] ELSE req
  /\ UNCHANGED issued

(* startWorkspaceRunWithRoute: createRunLedger, then the worker. *)
CreateSession(h) ==
  /\ hpc[h] = "idle"
  /\ session = "none"
  /\ session' = "running"
  /\ hpc' = [hpc EXCEPT ![h] = "create_tasks"]
  /\ UNCHANGED << status, meta, sandbox, review, workerVars, req, issued >>

CreateTasks(h) ==
  /\ hpc[h] = "create_tasks"
  /\ status' = [t \in Tasks |-> "queued"]
  /\ Carry(h, "acquire")
  /\ UNCHANGED << session, meta, sandbox, review, workerVars >>

AcquireSandbox(h) ==
  /\ hpc[h] = "acquire"
  /\ sandbox' = "active"
  /\ Carry(h, "launch_new")
  /\ UNCHANGED << session, status, meta, review, workerVars >>

(* A goroutine gets the tasks with status s and metadata m. *)
StartRunWorker(w, s, m) ==
  /\ pc[w] = "idle"
  /\ pc' = [pc EXCEPT ![w] = "next"]
  /\ work' = [work EXCEPT ![w] = [NoWork EXCEPT !.status = s, !.meta = m]]

(* The new run's worker has the tasks as they were created, ...            *)
LaunchNew(h) ==
  /\ hpc[h] = "launch_new"
  /\ \E w \in Workers :
       StartRunWorker(w, [t \in Tasks |-> "queued"], [t \in Tasks |-> NoMeta])
  /\ Carry(h, "idle")
  /\ UNCHANGED dbVars

(* ... a resumed run's worker as they are now: resumeWorkspaceWorker.      *)
Launch(h) ==
  /\ hpc[h] = "launch"
  /\ \E w \in Workers : StartRunWorker(w, status, meta)
  /\ Carry(h, "idle")
  /\ UNCHANGED dbVars

(* Mutant of ResumeSession: checked before, not in the UPDATE. *)
ResumeUnchecked(h) ==
  /\ hpc[h] = "resume"
  /\ session' = "running"
  /\ Carry(h, "launch")
  /\ UNCHANGED << status, meta, sandbox, review, workerVars >>

(* The compare-and-set on the session that every resume goes through.      *)
ResumeSession(h) ==
  /\ hpc[h] = "resume"
  /\ IF session \in Paused
       THEN /\ session' = "running"
            /\ \/ Carry(h, "launch")
               \/ /\ "store" \in Faults
                  /\ req[h].kind \in {"resume", "approve"}
                  /\ Carry(h, "idle")
       ELSE Carry(h, "idle") /\ UNCHANGED session
  /\ UNCHANGED << status, meta, sandbox, review, workerVars >>

(* sessionResumeHandler: a plan under review must be approved first.       *)
PlanApproved == latest # 0 /\ plans[latest] = "approved"

(* Mutant of Resume: plan_review is resumed like blocked. *)
ResumeUnreviewed(h) ==
  /\ Request(h, "resume", "resume", 0, NoMeta)
  /\ UNCHANGED dbVars

Resume(h) ==
  /\ session = "plan_review" => PlanApproved
  /\ Request(h, "resume", "resume", 0, NoMeta)
  /\ UNCHANGED dbVars

(* Mutant of Cancel: whatever the session's status. *)
CancelAnyway(h) ==
  /\ Request(h, "cancel", "cancel_tasks", 0, NoMeta)
  /\ session' = "cancelled"
  /\ UNCHANGED << status, meta, sandbox, review >>

(* sessionCancelHandler. *)
Cancel(h) ==
  /\ session \in Paused \union {"running"}
  /\ Request(h, "cancel", "cancel_tasks", 0, NoMeta)
  /\ session' = "cancelled"
  /\ UNCHANGED << status, meta, sandbox, review >>

CancelTheTasks(h) ==
  /\ hpc[h] = "cancel_tasks"
  /\ CancelTasks
  /\ Carry(h, "idle")
  /\ UNCHANGED << session, meta, sandbox, review, workerVars >>

(* sessionPlanApproveHandler, for any plan artifact of the session.        *)
ApprovePlan(h, p) ==
  /\ Request(h, "approve", "resolve_by_artifact", p, NoMeta)
  /\ plans' = [plans EXCEPT ![p] = "approved"]
  /\ latest' = p
  /\ UNCHANGED << session, status, meta, sandbox, approvals, actions >>

ResolveByArtifact(h) ==
  /\ hpc[h] = "resolve_by_artifact"
  /\ SetActions({i \in DOMAIN actions : actions[i].plan = req[h].target},
                "resolved")
  /\ Carry(h, "resume")
  /\ UNCHANGED << session, status, meta, sandbox, plans, latest, approvals,
                  workerVars >>

(* sessionPlanReviseHandler. *)
RevisePlan(h, p) ==
  /\ Request(h, "revise", "idle", p, NoMeta)
  /\ plans' = [plans EXCEPT ![p] = "revised"]
  /\ latest' = p
  /\ UNCHANGED << session, status, meta, sandbox, approvals, actions >>

(* approvalGrantHandler and approvalDenyHandler. *)
Decide(h, k, a) ==
  /\ approvals[a] = "pending"
  /\ Request(h, k, "resolve_by_approval", a, NoMeta)
  /\ approvals' = [approvals EXCEPT ![a] = IF k = "grant" THEN "granted"
                                                          ELSE "denied"]
  /\ UNCHANGED << session, status, meta, sandbox, plans, latest, actions >>

ResolveByApproval(h) ==
  /\ hpc[h] = "resolve_by_approval"
  /\ SetActions({i \in DOMAIN actions : actions[i].ask = req[h].target},
                IF req[h].kind = "grant" THEN "resolved" ELSE "rejected")
  /\ Carry(h, "idle")
  /\ UNCHANGED << session, status, meta, sandbox, plans, latest, approvals,
                  workerVars >>

(* sessionBlockedActionResolveHandler.  A decision on an action that was   *)
(* already decided leaves it as it is and goes on by its status.           *)
ResumeIfResolved(i) ==
  {"idle"} \union (IF actions'[i].status = "resolved" THEN {"resume"} ELSE {})

ResolveBlocked(h, k, i) ==
  /\ SetActions({i}, IF k \in {"stop", "reject"} THEN "rejected" ELSE "resolved")
  /\ \E p \in CASE k = "skip" -> {"skip"}
              [] k = "stop" -> {"stop_session"}
              [] k \in {"retry", "reject"} -> ResumeIfResolved(i)
              [] k = "clarify" -> {"resume"} :
       Request(h, k, p, i, meta[actions[i].task])
  /\ UNCHANGED << session, status, meta, sandbox, plans, latest, approvals >>

(* "skip": the metadata read before is written back, the task completed.   *)
SkipMetadata(h) ==
  /\ hpc[h] = "skip"
  /\ meta' = [meta EXCEPT ![actions[req[h].target].task] = req[h].meta]
  /\ Carry(h, "skip_status")
  /\ UNCHANGED << session, status, sandbox, review, workerVars >>

SkipTask(h) ==
  /\ hpc[h] = "skip_status"
  /\ UpdateTaskStatus(actions[req[h].target].task, "completed")
  /\ UNCHANGED actions
  /\ \E p \in ResumeIfResolved(req[h].target) : Carry(h, p)
  /\ UNCHANGED << session, meta, sandbox, plans, latest, approvals,
                  workerVars >>

(* "stop": the session and then the tasks are cancelled.                   *)
StopSession(h) ==
  /\ hpc[h] = "stop_session"
  /\ session' = IF session \in Paused \union {"running"} THEN "cancelled"
                                                        ELSE session
  /\ Carry(h, "stop_tasks")
  /\ UNCHANGED << status, meta, sandbox, review, workerVars >>

StopTasks(h) ==
  /\ hpc[h] = "stop_tasks"
  /\ CancelTasks
  /\ UNCHANGED actions
  /\ \E p \in ResumeIfResolved(req[h].target) : Carry(h, p)
  /\ UNCHANGED << session, meta, sandbox, plans, latest, approvals,
                  workerVars >>

(* A store fails: the handlers ignore it where a decision is carried out   *)
(* and return an error elsewhere.                                          *)
HandlerError(h) ==
  /\ "store" \in Faults
  /\ hpc[h] # "idle"
  /\ UNCHANGED << dbVars, workerVars >>
  /\ \E p \in CASE hpc[h] = "resolve_by_artifact" -> {"resume"}
              [] hpc[h] = "skip" -> {"skip_status"}
              [] hpc[h] = "stop_session" -> {"stop_tasks"}
              [] hpc[h] \in {"skip_status", "stop_tasks"} ->
                   ResumeIfResolved(req[h].target)
              [] OTHER -> {"idle"} :
       Carry(h, p)

HandlerStep(h) ==
  \/ CreateTasks(h) \/ AcquireSandbox(h) \/ LaunchNew(h) \/ Launch(h)
  \/ ResumeSession(h) \/ CancelTheTasks(h) \/ ResolveByArtifact(h)
  \/ ResolveByApproval(h) \/ SkipMetadata(h) \/ SkipTask(h)
  \/ StopSession(h) \/ StopTasks(h)

Operator(h) ==
  \/ CreateSession(h) \/ Resume(h) \/ Cancel(h)
  \/ \E p \in DOMAIN plans : ApprovePlan(h, p) \/ RevisePlan(h, p)
  \/ \E a \in DOMAIN approvals : Decide(h, "grant", a) \/ Decide(h, "deny", a)
  \/ \E i \in DOMAIN actions :
       \E k \in {"retry", "skip", "stop", "reject", "clarify"} :
         ResolveBlocked(h, k, i)

(* The gateway stops and is started again: nothing of the run is in memory *)
(* any more, and nothing at start looks for runs it was working on.        *)
Crash ==
  /\ "crash" \in Faults
  /\ Busy
  /\ pc' = [w \in Workers |-> "idle"]
  /\ work' = [w \in Workers |-> NoWork]
  /\ hpc' = [h \in Handlers |-> "idle"]
  /\ req' = [h \in Handlers |-> NoReq]
  /\ UNCHANGED << dbVars, issued >>

Next ==
  \/ \E w \in Workers : WorkerStep(w) \/ StoreError(w) \/ Timeout(w)
  \/ \E h \in Handlers : Operator(h) \/ HandlerStep(h) \/ HandlerError(h)
  \/ Crash

Spec == Init /\ [][Next]_vars

(* Goroutines and handlers are scheduled, the model answers or fails.      *)
Fairness ==
  /\ \A w \in Workers : WF_vars(WorkerStep(w))
  /\ \A h \in Handlers : WF_vars(HandlerStep(h))

FairSpec == Spec /\ Fairness

-----------------------------------------------------------------------------
LedgerOK ==
  /\ session \in SessionStatus
  /\ status \in [Tasks -> TaskStatus]
  /\ meta \in [Tasks -> Meta]
  /\ sandbox \in {"none", "active", "released"}

ReviewOK ==
  /\ plans \in Seq({"draft", "revised", "approved"})
  /\ latest \in 0 .. Len(plans)
  /\ approvals \in Seq({"pending", "granted", "denied", "used"})
  /\ actions \in Seq(Action)

WorkersOK ==
  /\ pc \in [Workers -> WorkerPC]
  /\ work \in [Workers -> Work]

HandlersOK ==
  /\ hpc \in [Handlers -> HandlerPC]
  /\ req \in [Handlers -> Req]
  /\ issued \in 0 .. MaxRequests

TypeOK == LedgerOK /\ ReviewOK /\ WorkersOK /\ HandlersOK

(* A run that is "running" is being worked on: by a goroutine that has not *)
(* yet paused or closed it, or by a handler about to launch one.  It is    *)
(* never left running with nobody to finish it, however cancels, resumes   *)
(* and several goroutines of the run interleave (startRunWorker,           *)
(* executeWorkspaceSession, the resuming handlers).                        *)
AtWork(w) == pc[w] \notin {"idle", "hold", "ask", "cleanup"}
AboutToLaunch(h) ==
  hpc[h] \in {"create_tasks", "acquire", "launch_new", "launch"}
Driven ==
  session = "running" =>
    \/ \E w \in Workers : AtWork(w)
    \/ \E h \in Handlers : AboutToLaunch(h)

(* The tasks of a run are worked on by one goroutine at a time, from its   *)
(* launch until it pauses the run or gives up, and by none while the run   *)
(* is paused: of all requests that resume a paused run one wins the        *)
(* compare-and-set of ResumeSession.                                       *)
Driving(w) == pc[w] \notin {"idle", "hold", "ask", "fail", "mark", "error",
                            "ledger", "close", "cleanup"}
OneDriver ==
  /\ \A v, w \in Workers : Driving(v) /\ Driving(w) => v = w
  /\ \A g, h \in Handlers : AboutToLaunch(g) /\ AboutToLaunch(h) => g = h
  /\ \A w \in Workers, h \in Handlers : ~ (Driving(w) /\ AboutToLaunch(h))
  /\ session \in Paused =>
       /\ \A w \in Workers : ~ Driving(w)
       /\ \A h \in Handlers : ~ AboutToLaunch(h)

(* docs/design/long-horizon-capability-roadmap.md: a run can pause and     *)
(* resume.  Nobody else fails it while a goroutine works on its tasks.     *)
(* Refuted, see the README.                                                *)
ResumedRunGoesOn ==
  [][(session # "failed" /\ session' = "failed")
       => \A w \in Workers : ~ Driving(w)]_vars

(* Tasks are worked on strictly in order: nothing was begun behind a task  *)
(* that is not completed (executeWorkspaceSession).                        *)
Sequential ==
  \A t, u \in Tasks :
    t < u /\ status[u] \in {"running", "completed"} \union Paused
      => status[t] = "completed"

(* A completed run has completed all of its tasks (completeSessionLifecycle *)
(* does not look at them), and a run at rest in a terminal status has no   *)
(* task that still waits or runs.                                          *)
LedgerAgrees ==
  /\ session = "completed" => \A t \in Tasks : status[t] = "completed"
  /\ session = "failed" /\ ~ Busy => \A t \in Tasks : status[t] \in Terminal

(* A tool or a model never works in a sandbox that is gone.                *)
SandboxInUse ==
  \A w \in Workers :
    pc[w] \in {"pending", "model", "artifact", "checks"} => sandbox = "active"

(* A run closed by its worker has released its sandbox.                    *)
SandboxReleased ==
  session \in {"completed", "failed"} /\ ~ Busy => sandbox = "released"

(* A paused run has something in the review queue that says why, and its   *)
(* task waits with it.                                                     *)
Reviewable ==
  session \in Paused /\ ~ Busy =>
    \E i \in DOMAIN actions :
      /\ status[actions[i].task] = session
      /\ actions[i].kind = "plan" <=> session = "plan_review"

(* docs/design/run-task-trace.md: completed, failed and cancelled are      *)
(* terminal states.                                                        *)
TerminalIsFinal == [][(session \in Terminal) => UNCHANGED session]_vars

(* The planner's task is completed only when its plan is approved, so no   *)
(* later task starts before (Sequential): resume asks for it, and approve  *)
(* is the only other way on.                                               *)
PlanGate ==
  [][\A t \in Tasks : t = Planner /\ status[t] # "completed"
                       /\ status'[t] = "completed" => PlanApproved]_vars

(* A denied approval is not asked for again: docs/design/                  *)
(* system-composition.md has the run resumed with the denied decision.     *)
(* Refuted, see the README.                                                *)
DenialStands ==
  \A i, j \in DOMAIN actions :
    i < j /\ actions[i].ask = actions[j].ask /\ actions[i].ask # 0
      => actions[i].status # "rejected"

(* The run as RunLifecycle sees it. *)
Lifecycle == INSTANCE RunLifecycle WITH
  phase <- IF session \in Paused THEN "paused" ELSE session,
  done <- Cardinality({t \in Tasks : status[t] = "completed"})

ImplementsLifecycle == Lifecycle!LifecycleSpec

(* The run is not stuck: whatever the operator does, it comes to an end or *)
(* to a point where the operator is asked.                                 *)
Settles == session = "running" ~> session # "running"
=============================================================================
