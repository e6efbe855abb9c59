--------------------------- MODULE RunLedgerProofs ---------------------------
(***************************************************************************)
(* What the rows of a run say of it, when the requests that may bring a    *)
(* goroutine to it come while it is at rest (Patient), as the console      *)
(* offers them: its tasks are begun in order, its status, tasks, sandbox   *)
(* and review queue agree, a run that has ended stays as it is, a plan is  *)
(* approved before it is built on, and all of it implements RunLifecycle.  *)
(*                                                                         *)
(* All of this rests on OneActor: a goroutine, or a handler on its way to  *)
(* start one, is alone.  Requests that only write (cancel, revise, grant,  *)
(* deny) may race with it unless a theorem says otherwise.                 *)
(***************************************************************************)
EXTENDS WorkspaceRunProofs, FiniteSetTheorems

(* Requests that bring no goroutine to the run.                            *)
Gentle == {"cancel", "revise", "grant", "deny"}
Patient == Concurrent \subseteq Gentle

(* A step of worker w, or one of handler h.                                *)
WorkerActs(w) == WorkerStep(w) \/ StoreError(w) \/ Timeout(w)
HandlerActs(h) == Operator(h) \/ HandlerStep(h) \/ HandlerError(h)

-----------------------------------------------------------------------------
(* Whoever works on the run, or is about to have it worked on, is alone.   *)
Serious(h) == hpc[h] \notin {"idle", "cancel_tasks", "resolve_by_approval"}
Rest ==
  /\ \A w \in Workers : pc[w] = "idle"
  /\ \A h \in Handlers : hpc[h] = "idle"
OneActor ==
  /\ \A v, w \in Workers : pc[v] # "idle" /\ pc[w] # "idle" => v = w
  /\ \A g, h \in Handlers : Serious(g) /\ Serious(h) => g = h
  /\ \A w \in Workers, h \in Handlers : pc[w] # "idle" => ~ Serious(h)
  /\ session = "none" => Rest

LEMMA WorkerLocal ==
  ASSUME TypeInv, NEW w \in Workers, WorkerActs(w)
  PROVE  /\ pc[w] # "idle"
         /\ \A v \in Workers : v # w => pc'[v] = pc[v] /\ work'[v] = work[v]
         /\ UNCHANGED handlerVars
<1>1. UNCHANGED handlerVars
  BY WorkerFrame DEF WorkerActs
<1>2. pc[w] # "idle"
  BY DEF WorkerActs, WorkerStep, StoreError, Timeout, AtTask,
         SkipCompleted, StopWorking, TakeTask, StartTask, ExecutePending,
         StillPending, LoopCheck, Answer, NextRound, SuspendLoop, Guardrail,
         ModelFails, Record, PlanArtifact, Checks, ChecksWait, CompleteTask,
         PauseSession, SetTaskBlocked, CreateBlocked, FailCheck,
         MarkTaskFailed, GiveUp, FailRun, FailTasks, FailSession, FailRelease,
         ReleaseSandbox, CompleteSession
<1>3. \A v \in Workers : v # w => pc'[v] = pc[v] /\ work'[v] = work[v]
  BY DEF WorkerActs, TypeInv, TypeOK, WorkersOK,
         Exit, Goto, Then, Branch, UpdateTaskMetadata, WorkerStep, StoreError, Timeout,
         SkipCompleted, StopWorking, TakeTask, StartTask, ExecutePending,
         StillPending, LoopCheck, Answer, NextRound, SuspendLoop, Guardrail,
         ModelFails, Record, PlanArtifact, Checks, ChecksWait, CompleteTask,
         PauseSession, SetTaskBlocked, CreateBlocked, FailCheck,
         MarkTaskFailed, GiveUp, FailRun, FailTasks, FailSession, FailRelease,
         ReleaseSandbox, CompleteSession
<1> QED
  BY <1>1, <1>2, <1>3

LEMMA WorkerActor ==
  ASSUME TypeInv, OneActor, NEW w \in Workers, WorkerActs(w)
  PROVE  OneActor'
<1>1. /\ pc[w] # "idle"
      /\ \A v \in Workers : pc'[v] # "idle" => pc[v] # "idle"
      /\ UNCHANGED hpc
  BY WorkerLocal DEF handlerVars
<1>2. session' # "none"
  BY <1>1, WorkerDrives DEF WorkerActs, OneActor, Rest, Terminal, Paused
<1> QED
  BY <1>1, <1>2 DEF OneActor, Serious

(* A request is made when nobody is at work on the run, or is gentle.      *)
LEMMA RequestActor ==
  ASSUME TypeInv, Patient, NEW h \in Handlers, Operator(h), ~ CreateSession(h)
  PROVE  /\ UNCHANGED workerVars
         /\ hpc[h] = "idle" /\ session # "none"
         /\ session' \in {session, "cancelled"}
         /\ \A g \in Handlers : g # h => hpc'[g] = hpc[g] /\ req'[g] = req[g]
         /\ \/ Rest
            \/ hpc'[h] \in {"idle", "cancel_tasks", "resolve_by_approval"}
<1> USE DEF TypeInv, TypeOK, HandlersOK
<1>0. Rest \/ Busy
  BY DEF Rest, Busy
<1>1. CASE Resume(h) \/ Cancel(h)
  BY <1>0, <1>1 DEF Resume, Cancel, Request, Patient, Gentle, dbVars
<1>2. ASSUME NEW p \in DOMAIN plans, ApprovePlan(h, p) \/ RevisePlan(h, p)
      PROVE  /\ UNCHANGED workerVars
             /\ hpc[h] = "idle" /\ session # "none"
             /\ session' \in {session, "cancelled"}
             /\ \A g \in Handlers : g # h => hpc'[g] = hpc[g] /\ req'[g] = req[g]
             /\ \/ Rest
                \/ hpc'[h] \in {"idle", "cancel_tasks", "resolve_by_approval"}
  BY <1>0, <1>2 DEF ApprovePlan, RevisePlan, Request, Patient, Gentle
<1>3. ASSUME NEW a \in DOMAIN approvals, Decide(h, "grant", a) \/ Decide(h, "deny", a)
      PROVE  /\ UNCHANGED workerVars
             /\ hpc[h] = "idle" /\ session # "none"
             /\ session' \in {session, "cancelled"}
             /\ \A g \in Handlers : g # h => hpc'[g] = hpc[g] /\ req'[g] = req[g]
             /\ hpc'[h] = "resolve_by_approval"
  BY <1>3 DEF Decide, Request
<1>4. ASSUME NEW i \in DOMAIN actions,
             NEW k \in {"retry", "skip", "stop", "reject", "clarify"},
             ResolveBlocked(h, k, i)
      PROVE  /\ UNCHANGED workerVars
             /\ hpc[h] = "idle" /\ session # "none"
             /\ session' \in {session, "cancelled"}
             /\ \A g \in Handlers : g # h => hpc'[g] = hpc[g] /\ req'[g] = req[g]
             /\ Rest
  <2>1. PICK p : Request(h, k, p, i, meta[actions[i].task])
    BY <1>4 DEF ResolveBlocked
  <2>2. k \notin Concurrent
    BY DEF Patient, Gentle
  <2> QED
    BY <1>0, <1>4, <2>1, <2>2 DEF ResolveBlocked, Request
<1> QED
  BY <1>1, <1>2, <1>3, <1>4 DEF Operator

(* What a request has its handler do next.                                 *)
LEMMA RequestKinds ==
  ASSUME TypeInv, NEW h \in Handlers, Operator(h), ~ CreateSession(h)
  PROVE  /\ hpc'[h] \in {"idle", "resume", "cancel_tasks", "resolve_by_artifact",
                         "resolve_by_approval", "skip", "stop_session"}
         /\ hpc'[h] = "skip" => "skip" \in Requests
<1> USE DEF TypeInv, TypeOK, HandlersOK
<1>1. CASE Resume(h) \/ Cancel(h)
  BY <1>1 DEF Resume, Cancel, Request
<1>2. ASSUME NEW p \in DOMAIN plans, ApprovePlan(h, p) \/ RevisePlan(h, p)
      PROVE  hpc'[h] \in {"idle", "resolve_by_artifact"}
  BY <1>2 DEF ApprovePlan, RevisePlan, Request
<1>3. ASSUME NEW a \in DOMAIN approvals, Decide(h, "grant", a) \/ Decide(h, "deny", a)
      PROVE  hpc'[h] = "resolve_by_approval"
  BY <1>3 DEF Decide, Request
<1>4. ASSUME NEW i \in DOMAIN actions,
             NEW k \in {"retry", "skip", "stop", "reject", "clarify"},
             ResolveBlocked(h, k, i)
      PROVE  /\ hpc'[h] \in {"idle", "resume", "skip", "stop_session"}
             /\ hpc'[h] = "skip" => "skip" \in Requests
  BY <1>4 DEF ResolveBlocked, ResumeIfResolved, Request
<1> QED
  BY <1>1, <1>2, <1>3, <1>4 DEF Operator

LEMMA HandlerActor ==
  ASSUME TypeInv, OneActor, Patient, NEW h \in Handlers, HandlerActs(h)
  PROVE  OneActor'
<1> USE DEF TypeInv, TypeOK, WorkersOK, HandlersOK
<1>1. CASE CreateSession(h)
  BY <1>1 DEF CreateSession, OneActor, Rest, Serious, workerVars
<1>2. CASE Operator(h) /\ ~ CreateSession(h)
  <2>1. /\ UNCHANGED pc
        /\ session' # "none"
        /\ \A g \in Handlers : Serious(g)' => Serious(g) \/ (g = h /\ Rest)
    BY <1>2, RequestActor DEF Serious, workerVars
  <2> QED
    BY <2>1 DEF OneActor, Rest, Serious
<1>3. CASE LaunchNew(h) \/ Launch(h)
  <2>1. PICK w \in Workers : pc[w] = "idle" /\ pc' = [pc EXCEPT ![w] = "next"]
    BY <1>3 DEF LaunchNew, Launch, StartRunWorker
  <2>2. /\ Serious(h) /\ ~ Serious(h)'
        /\ \A g \in Handlers : Serious(g)' => Serious(g)
        /\ UNCHANGED session
    BY <1>3 DEF LaunchNew, Launch, Carry, Serious, dbVars
  <2> QED
    BY <2>1, <2>2 DEF OneActor, Rest, Serious
<1>4. CASE (HandlerStep(h) \/ HandlerError(h)) /\ ~ LaunchNew(h) /\ ~ Launch(h)
  <2>1. /\ UNCHANGED pc /\ hpc[h] # "idle"
        /\ session' = "none" => session = "none"
    BY <1>4 DEF HandlerStep, HandlerError, CreateTasks, AcquireSandbox, ResumeSession,
                CancelTheTasks, ResolveByArtifact, ResolveByApproval, SkipMetadata,
                SkipTask, StopSession, StopTasks, workerVars, dbVars
  <2>2. \A g \in Handlers : Serious(g)' => Serious(g)
    BY <1>4 DEF HandlerStep, HandlerError, CreateTasks, AcquireSandbox, ResumeSession,
                CancelTheTasks, ResolveByArtifact, ResolveByApproval, SkipMetadata,
                SkipTask, StopSession, StopTasks, ResumeIfResolved, Carry, Serious
  <2> QED
    BY <2>1, <2>2 DEF OneActor, Rest
<1> QED
  BY <1>1, <1>2, <1>3, <1>4 DEF HandlerActs, HandlerStep

LEMMA NextActor ==
  ASSUME Patient
  PROVE  TypeInv /\ OneActor /\ [Next]_vars => OneActor'
<1> SUFFICES ASSUME TypeInv, OneActor, [Next]_vars PROVE OneActor'
  OBVIOUS
<1>1. CASE Crash
  BY <1>1 DEF Crash, OneActor, Rest, Serious
<1>2. CASE UNCHANGED vars
  BY <1>2 DEF vars, dbVars, workerVars, handlerVars, OneActor, Rest, Serious
<1> QED
  BY <1>1, <1>2, WorkerActor, HandlerActor DEF Next, WorkerActs, HandlerActs

-----------------------------------------------------------------------------
(* Tasks are begun in order: what a worker has behind it is completed, and *)
(* of what it has before it, it remembers rightly whether it is.           *)
Begun == {"running", "completed"} \union Paused
InHand(w) == pc[w] \in TaskPC \union {"next"}
Progress(w) ==
  InHand(w) =>
    /\ \A t \in Tasks : t < At(w) => status[t] = "completed"
    /\ \A t \in Tasks : t >= At(w) =>
         (status[t] = "completed" <=> work[w].status[t] = "completed")
    /\ pc[w] \in TaskPC => status[At(w)] # "completed"

(* The tasks of a new run are not begun before its worker is launched.     *)
Creating(h) == hpc[h] \in {"create_tasks", "acquire", "launch_new"}
Untouched == \A t \in Tasks : status[t] \notin Begun
Fresh ==
  /\ session = "none" => Untouched
  /\ \A h \in Handlers : Creating(h) => Untouched

NoSkip == \A h \in Handlers : hpc[h] \notin {"skip", "skip_status"}

OrderInv ==
  /\ Sequential /\ Fresh /\ NoSkip
  /\ \A w \in Workers : Progress(w)

(* No task is begun, completed or uncompleted.                             *)
KeepsDone ==
  \A t \in Tasks : /\ status'[t] = "completed" <=> status[t] = "completed"
                   /\ status'[t] \in Begun => status[t] \in Begun

LEMMA KeptOrder ==
  ASSUME TypeInv, KeepsDone
  PROVE  /\ Sequential => Sequential'
         /\ \A w \in Workers : Progress(w) /\ UNCHANGED << pc[w], work[w] >> => Progress(w)'
<1>1. Sequential => Sequential'
  BY DEF KeepsDone, Sequential, Begun
<1>2. ASSUME NEW w \in Workers, Progress(w), UNCHANGED << pc[w], work[w] >>
      PROVE  Progress(w)'
  <2>1. pc'[w] = pc[w] /\ work'[w] = work[w]
    BY <1>2
  <2>2. \A t \in Tasks : status'[t] = "completed" <=> status[t] = "completed"
    BY DEF KeepsDone
  <2>3. CASE InHand(w)
    <3>1. pc[w] \in TaskPC => At(w) \in Tasks
      BY DEF TypeInv, OnTask
    <3> QED
      BY <1>2, <2>1, <2>2, <2>3, <3>1 DEF Progress, InHand, At
  <2> QED
    BY <2>1, <2>3 DEF Progress, InHand
<1> QED
  BY <1>1, <1>2

(* How a worker writes tasks: its own, or all that wait when it gives up.  *)
LEMMA WorkerStatus ==
  ASSUME TypeInv, NEW w \in Workers, WorkerActs(w)
  PROVE  \/ KeepsDone
         \/ /\ pc[w] \in TaskPC
            /\ \A t \in Tasks : t # At(w) => status'[t] = status[t]
            /\ status'[At(w)] = "completed" => pc[w] = "complete"
<1> USE DEF TypeInv, TypeOK, LedgerOK
<1>1. CASE UNCHANGED status
  BY <1>1 DEF KeepsDone
<1>2. CASE FailTasks(w)
  BY <1>2 DEF FailTasks, CompleteTasks, KeepsDone, Begun, Paused
<1>3. CASE StartTask(w) \/ CompleteTask(w) \/ SetTaskBlocked(w) \/ MarkTaskFailed(w)
  BY <1>3 DEF StartTask, CompleteTask, SetTaskBlocked, MarkTaskFailed, UpdateTaskStatus,
              PausedStatus, TaskPC, OnTask
<1> QED
  BY <1>1, <1>2, <1>3
     DEF WorkerActs, WorkerStep, StoreError, Timeout, dbVars,
         SkipCompleted, StopWorking, TakeTask, ExecutePending,
         StillPending, LoopCheck, Answer, NextRound, SuspendLoop, Guardrail,
         ModelFails, Record, PlanArtifact, Checks, ChecksWait,
         PauseSession, CreateBlocked, FailCheck, GiveUp, FailRun,
         FailSession, FailRelease, ReleaseSandbox, CompleteSession

(* What a worker still has in hand after a step.                           *)
LEMMA WorkerHand ==
  ASSUME TypeInv, NEW w \in Workers, WorkerActs(w), InHand(w)'
  PROVE  \/ SkipCompleted(w) \/ TakeTask(w) \/ CompleteTask(w)
         \/ /\ pc[w] \in TaskPC /\ pc'[w] \in TaskPC
            /\ work'[w].at = work[w].at
            /\ work'[w].status = work[w].status
            /\ pc[w] # "complete"
<1> USE DEF TypeInv, TypeOK, WorkersOK, InHand, TaskPC, At, Goto, Exit
<1>1. CASE \/ StopWorking(w) \/ StartTask(w) \/ LoopCheck(w) \/ ModelFails(w)
           \/ PlanArtifact(w) \/ Checks(w) \/ PauseSession(w) \/ SetTaskBlocked(w)
           \/ FailCheck(w) \/ MarkTaskFailed(w)
  BY <1>1 DEF StopWorking, StartTask, LoopCheck, ModelFails, PlanArtifact, Checks,
              PauseSession, SetTaskBlocked, FailCheck, MarkTaskFailed, Then, OnError,
              ChecksOrNot, PlanOrComplete
<1>2. CASE Answer(w) \/ NextRound(w) \/ Guardrail(w) \/ ChecksWait(w)
  BY <1>2, WorkFields DEF Answer, NextRound, Guardrail, ChecksWait, Work
<1>3. CASE ExecutePending(w) \/ StillPending(w) \/ SuspendLoop(w) \/ Record(w)
  <2>1. CASE ExecutePending(w)
    BY <2>1, WorkFields DEF ExecutePending, Work, UpdateTaskMetadata
  <2>2. CASE StillPending(w)
    BY <2>2, WorkFields DEF StillPending, Work
  <2>3. CASE SuspendLoop(w)
    BY <2>3, WorkFields DEF SuspendLoop, Work
  <2>4. CASE Record(w)
    BY <2>4, WorkFields DEF Record, Work, ChecksOrNot, PlanOrComplete
  <2> QED
    BY <1>3, <2>1, <2>2, <2>3, <2>4
<1>4. CASE CreateBlocked(w)
  BY <1>4 DEF CreateBlocked, OnError
<1>5. CASE \/ GiveUp(w) \/ FailRun(w) \/ FailTasks(w) \/ FailSession(w) \/ FailRelease(w)
           \/ ReleaseSandbox(w) \/ CompleteSession(w) \/ Timeout(w)
  BY <1>5 DEF GiveUp, FailRun, FailTasks, FailSession, FailRelease, ReleaseSandbox,
              CompleteSession, Timeout, Then, OnError
<1>6. CASE StoreError(w)
  BY <1>6 DEF StoreError, OnError
<1> QED
  BY <1>1, <1>2, <1>3, <1>4, <1>5, <1>6 DEF WorkerActs, WorkerStep

LEMMA WorkerProgress ==
  ASSUME TypeInv, NEW w \in Workers, Progress(w), WorkerActs(w)
  PROVE  Progress(w)'
<1> USE DEF TypeInv, TypeOK, WorkersOK, LedgerOK
<1> SUFFICES ASSUME InHand(w)' PROVE Progress(w)'
  BY DEF Progress
<1>1. CASE SkipCompleted(w)
  <2>1. /\ pc[w] = "next" /\ pc' = pc /\ status' = status
        /\ At(w) \in Tasks /\ work[w].status[At(w)] = "completed"
        /\ At(w)' = At(w) + 1 /\ work'[w].status = work[w].status
    BY <1>1, WorkFields DEF SkipCompleted, AtTask, dbVars, At, Work
  <2>2. \A t \in Tasks : t < At(w) + 1 => status[t] = "completed"
    BY <2>1 DEF Progress, InHand, Tasks
  <2> QED
    BY <2>1, <2>2 DEF Progress, InHand, Tasks, TaskPC
<1>2. CASE TakeTask(w)
  <2>1. /\ pc[w] = "next" /\ status' = status
        /\ At(w) \in Tasks /\ work[w].status[At(w)] # "completed"
        /\ At(w)' = At(w) /\ work'[w].status = work[w].status
    BY <1>2, WorkFields DEF TakeTask, AtTask, Branch, dbVars, At, Terminal, Work
  <2> QED
    BY <2>1 DEF Progress, InHand, Tasks
<1>3. CASE CompleteTask(w)
  <2>1. /\ pc[w] = "complete" /\ At(w) \in Tasks
        /\ status' = [status EXCEPT ![At(w)] = "completed"]
    BY <1>3 DEF CompleteTask, UpdateTaskStatus, OnTask, TaskPC
  <2>2. /\ pc'[w] = "next" /\ At(w)' = At(w) + 1
        /\ work'[w].status = work[w].status
    BY <1>3, WorkFields DEF CompleteTask, Goto, InHand, TaskPC, At, Work
  <2> QED
    BY <2>1, <2>2 DEF Progress, InHand, Tasks, TaskPC
<1>4. CASE /\ pc[w] \in TaskPC /\ pc'[w] \in TaskPC
           /\ work'[w].at = work[w].at
           /\ work'[w].status = work[w].status
           /\ pc[w] # "complete"
  <2>1. At(w)' = At(w) /\ At(w) \in Tasks
    BY <1>4 DEF At, OnTask
  <2>2. CASE KeepsDone
    BY <1>4, <2>1, <2>2 DEF Progress, KeepsDone, InHand, Tasks
  <2>3. CASE /\ \A t \in Tasks : t # At(w) => status'[t] = status[t]
             /\ status'[At(w)] = "completed" => pc[w] = "complete"
    <3>1. /\ \A t \in Tasks : t < At(w) => status'[t] = "completed"
          /\ status'[At(w)] # "completed" /\ status[At(w)] # "completed"
      BY <1>4, <2>1, <2>3 DEF Progress, InHand, Tasks
    <3>2. \A t \in Tasks : t >= At(w) =>
             (status'[t] = "completed" <=> work[w].status[t] = "completed")
      BY <1>4, <2>1, <2>3, <3>1 DEF Progress, InHand, Tasks
    <3> QED
      BY <1>4, <2>1, <3>1, <3>2 DEF Progress
  <2> QED
    BY <2>2, <2>3, WorkerStatus
<1> QED
  BY <1>1, <1>2, <1>3, <1>4, WorkerHand

LEMMA WorkerOrder ==
  ASSUME TypeInv, OneActor, OrderInv, NEW w \in Workers, WorkerActs(w)
  PROVE  OrderInv'
<1>1. /\ pc[w] # "idle" /\ UNCHANGED hpc
      /\ \A v \in Workers : v # w => pc'[v] = "idle"
  BY WorkerLocal DEF OneActor, handlerVars
<1>2. NoSkip' /\ Fresh'
  <2>1. session' # "none"
    BY WorkerActor, <1>1, WorkerDrives DEF WorkerActs, OneActor, Rest, Terminal, Paused
  <2> QED
    BY <1>1, <2>1 DEF OrderInv, NoSkip, Fresh, OneActor, Creating, Serious
<1>3. \A v \in Workers : Progress(v)'
  <2>1. \A v \in Workers : v # w => ~ InHand(v)'
    BY <1>1 DEF InHand, TaskPC
  <2> QED
    BY <2>1, WorkerProgress DEF OrderInv, Progress
<1>4. Sequential'
  <2>1. CASE KeepsDone
    BY <2>1, KeptOrder DEF OrderInv
  <2>2. CASE /\ pc[w] \in TaskPC
             /\ \A t \in Tasks : t # At(w) => status'[t] = status[t]
    <3>1. /\ At(w) \in Tasks
          /\ status[At(w)] # "completed"
          /\ \A t \in Tasks : t < At(w) => status[t] = "completed"
      BY <2>2 DEF OrderInv, Progress, InHand, TypeInv, OnTask
    <3> QED
      BY <2>2, <3>1 DEF OrderInv, Sequential, Tasks
  <2> QED
    BY <2>1, <2>2, WorkerStatus
<1> QED
  BY <1>2, <1>3, <1>4 DEF OrderInv

(* Handlers only create tasks and cancel them, unless one is skipped.      *)
LEMMA HandlerKeepsDone ==
  ASSUME TypeInv, OrderInv, NEW h \in Handlers, HandlerActs(h)
  PROVE  KeepsDone
<1> USE DEF TypeInv, TypeOK, LedgerOK
<1>1. CASE UNCHANGED status
  BY <1>1 DEF KeepsDone
<1>2. CASE CancelTheTasks(h) \/ StopTasks(h)
  BY <1>2 DEF CancelTheTasks, StopTasks, CancelTasks, KeepsDone, Begun, Paused
<1>3. CASE CreateTasks(h)
  BY <1>3 DEF CreateTasks, OrderInv, Fresh, Creating, Untouched, KeepsDone, Begun, Paused
<1>4. ~ SkipTask(h)
  BY DEF SkipTask, OrderInv, NoSkip
<1>5. CASE Operator(h)
  BY <1>1, <1>5 DEF Operator, CreateSession, Resume, Cancel, ApprovePlan, RevisePlan, Decide,
                    ResolveBlocked, dbVars
<1> QED
  BY <1>1, <1>2, <1>3, <1>4, <1>5
     DEF HandlerActs, HandlerStep, HandlerError, AcquireSandbox, LaunchNew, Launch,
         ResumeSession, ResolveByArtifact, ResolveByApproval, SkipMetadata, StopSession,
         dbVars

(* A worker that is launched has all tasks before it.                      *)
LEMMA LaunchProgress ==
  ASSUME TypeInv, OrderInv, NEW h \in Handlers, LaunchNew(h) \/ Launch(h), NEW v \in Workers
  PROVE  Progress(v)'
<1> USE DEF TypeInv, TypeOK, LedgerOK, WorkersOK
<1>1. status' = status
  BY DEF LaunchNew, Launch, dbVars
<1>2. PICK w, s, m :
        /\ w \in Workers
        /\ StartRunWorker(w, s, m)
        /\ \A t \in Tasks : status[t] = "completed" <=> s[t] = "completed"
  <2>1. CASE Launch(h)
    BY <2>1 DEF Launch
  <2>2. CASE LaunchNew(h)
    <3>1. \A t \in Tasks : status[t] # "completed"
      BY <2>2 DEF LaunchNew, OrderInv, Fresh, Creating, Untouched, Begun
    <3>2. PICK w \in Workers :
            StartRunWorker(w, [t \in Tasks |-> "queued"], [t \in Tasks |-> NoMeta])
      BY <2>2 DEF LaunchNew
    <3>3. \A t \in Tasks : [u \in Tasks |-> "queued"][t] # "completed"
      OBVIOUS
    <3> QED
      BY <3>1, <3>2, <3>3
  <2> QED
    BY <2>1, <2>2
<1>3. CASE v = w
  <2>1. pc'[w] = "next" /\ work'[w].at = 1 /\ work'[w].status = s
    BY <1>2 DEF StartRunWorker, NoWork
  <2> QED
    BY <1>1, <1>2, <1>3, <2>1 DEF Progress, At, Tasks, TaskPC
<1>4. CASE v # w
  <2>1. pc'[v] = pc[v] /\ work'[v] = work[v]
    BY <1>2, <1>4 DEF StartRunWorker
  <2> QED
    BY <1>1, <2>1 DEF OrderInv, Progress, InHand, At
<1> QED
  BY <1>3, <1>4

LEMMA HandlerOrder ==
  ASSUME TypeInv, OneActor, OrderInv, Patient, "skip" \notin Requests,
         NEW h \in Handlers, HandlerActs(h)
  PROVE  OrderInv'
<1> USE DEF TypeInv, TypeOK, HandlersOK
<1>1. Sequential'
  BY HandlerKeepsDone, KeptOrder DEF OrderInv
<1>2. \A v \in Workers : Progress(v)'
  <2>1. CASE UNCHANGED workerVars
    BY <2>1, HandlerKeepsDone, KeptOrder DEF OrderInv, workerVars
  <2>2. CASE LaunchNew(h) \/ Launch(h)
    BY <2>2, LaunchProgress
  <2>3. CASE Operator(h)
    BY <2>1, <2>3, RequestActor DEF CreateSession
  <2> QED
    BY <2>1, <2>2, <2>3
       DEF HandlerActs, HandlerStep, HandlerError, CreateTasks, AcquireSandbox,
           ResumeSession, CancelTheTasks, ResolveByArtifact, ResolveByApproval,
           SkipMetadata, SkipTask, StopSession, StopTasks
<1>3. Fresh'
  <2>1. Untouched => Untouched'
    BY HandlerKeepsDone DEF KeepsDone, Untouched
  <2>2. CASE CreateSession(h)
    BY <2>1, <2>2 DEF CreateSession, OrderInv, OneActor, Rest, Fresh, Creating
  <2>3. CASE Operator(h) /\ ~ CreateSession(h)
    <3>1. \A g \in Handlers : Creating(g)' => Creating(g)
      BY <2>3, RequestKinds, RequestActor DEF Creating
    <3> QED
      BY <2>1, <2>3, <3>1, RequestActor DEF OrderInv, Fresh
  <2>4. CASE HandlerStep(h) \/ HandlerError(h)
    <3>1. \A g \in Handlers : Creating(g)' => Creating(g)
      BY <2>4 DEF HandlerStep, HandlerError, CreateTasks, AcquireSandbox, LaunchNew, Launch,
                  ResumeSession, CancelTheTasks, ResolveByArtifact, ResolveByApproval,
                  SkipMetadata, SkipTask, StopSession, StopTasks, ResumeIfResolved, Carry,
                  Creating
    <3>2. session' = "none" => session = "none"
      BY <2>4 DEF HandlerStep, HandlerError, CreateTasks, AcquireSandbox, LaunchNew, Launch,
                  ResumeSession, CancelTheTasks, ResolveByArtifact, ResolveByApproval,
                  SkipMetadata, SkipTask, StopSession, StopTasks, dbVars
    <3> QED
      BY <2>1, <3>1, <3>2 DEF OrderInv, Fresh
  <2> QED
    BY <2>2, <2>3, <2>4 DEF HandlerActs
<1>4. NoSkip'
  <2>1. CASE CreateSession(h)
    BY <2>1 DEF CreateSession, OrderInv, NoSkip
  <2>2. CASE Operator(h) /\ ~ CreateSession(h)
    BY <2>2, RequestKinds, RequestActor DEF OrderInv, NoSkip
  <2>3. CASE HandlerStep(h) \/ HandlerError(h)
    BY <2>3 DEF HandlerStep, HandlerError, CreateTasks, AcquireSandbox, LaunchNew, Launch,
                ResumeSession, CancelTheTasks, ResolveByArtifact, ResolveByApproval,
                SkipMetadata, SkipTask, StopSession, StopTasks, ResumeIfResolved, Carry,
                OrderInv, NoSkip
  <2> QED
    BY <2>1, <2>2, <2>3 DEF HandlerActs
<1> QED
  BY <1>1, <1>2, <1>3, <1>4 DEF OrderInv

LEMMA NextOrder ==
  ASSUME Patient, "skip" \notin Requests
  PROVE  TypeInv /\ OneActor /\ OrderInv /\ [Next]_vars => OrderInv'
<1> SUFFICES ASSUME TypeInv, OneActor, OrderInv, [Next]_vars PROVE OrderInv'
  OBVIOUS
<1>1. CASE Crash
  BY <1>1 DEF Crash, dbVars, OrderInv, Sequential, Fresh, Creating, Untouched, NoSkip,
              Progress, InHand, TaskPC
<1>2. CASE UNCHANGED vars
  BY <1>2 DEF vars, dbVars, workerVars, handlerVars, OrderInv, Sequential, Fresh, Creating,
              Untouched, NoSkip, Progress, InHand, At
<1> QED
  BY <1>1, <1>2, WorkerOrder, HandlerOrder DEF Next, WorkerActs, HandlerActs

LEMMA InitOrder == Init => OneActor /\ OrderInv
BY DEF Init, OneActor, Rest, Serious, OrderInv, Sequential, Fresh, Creating, Untouched, Begun,
       Paused, NoSkip, Progress, InHand, TaskPC

(* What holds always, to be cited below.                                   *)
LEMMA TypeAlways == Spec => []TypeInv
BY InitType, NextType, PTL DEF Spec

LEMMA DriverAlways == Spec => []DriverInv
BY TypeAlways, InitDriver, NextDriver, PTL DEF Spec

LEMMA ActorAlways ==
  ASSUME Patient
  PROVE  Spec => []OneActor
BY TypeAlways, InitOrder, NextActor, PTL DEF Spec

LEMMA OrderAlways ==
  ASSUME Patient, "skip" \notin Requests
  PROVE  Spec => []OrderInv
BY TypeAlways, ActorAlways, InitOrder, NextOrder, PTL DEF Spec

(* Nothing is begun behind a task that is not completed, whatever fails on *)
(* the way and whichever gentle requests race with the worker              *)
(* (executeWorkspaceSession, completeRunLedger, the resuming handlers).    *)
THEOREM SequentialHolds ==
  ASSUME Patient, "skip" \notin Requests
  PROVE  Spec => []Sequential
<1>1. OrderInv => Sequential
  BY DEF OrderInv
<1> QED
  BY <1>1, OrderAlways, PTL

-----------------------------------------------------------------------------
(* The session: who changes it, and what it is while somebody is at work.  *)
LEMMA WorkerSession ==
  ASSUME TypeInv, NEW w \in Workers, WorkerActs(w)
  PROVE  /\ \/ UNCHANGED session /\ pc'[w] # "cleanup"
            \/ pc[w] = "pause" /\ session' = PausedStatus(w) /\ pc'[w] = "hold"
            \/ pc[w] = "close" /\ session' = "failed" /\ pc'[w] = "cleanup"
            \/ pc[w] = "finish" /\ session' = "completed" /\ pc'[w] = "idle"
         /\ pc[w] = "cleanup" => pc'[w] = "idle" /\ UNCHANGED session
         /\ PausedStatus(w) \in Paused
<1> USE DEF TypeInv, TypeOK, WorkersOK
<1>1. CASE PauseSession(w)
  BY <1>1 DEF PauseSession, PausedStatus, Paused, Goto
<1>2. CASE FailSession(w) \/ CompleteSession(w)
  BY <1>2 DEF FailSession, CompleteSession, Goto, Exit, PausedStatus, Paused
<1>3. CASE ~ PauseSession(w) /\ ~ FailSession(w) /\ ~ CompleteSession(w)
  <2>1. UNCHANGED session
    BY <1>3
       DEF WorkerActs, WorkerStep, StoreError, Timeout, dbVars, Goto, Exit,
           SkipCompleted, StopWorking, TakeTask, StartTask, ExecutePending,
           StillPending, LoopCheck, Answer, NextRound, SuspendLoop, Guardrail,
           ModelFails, Record, PlanArtifact, Checks, ChecksWait, CompleteTask,
           SetTaskBlocked, CreateBlocked, FailCheck, MarkTaskFailed, GiveUp,
           FailRun, FailTasks, FailRelease, ReleaseSandbox
  <2>2. pc'[w] # "cleanup" /\ (pc[w] = "cleanup" => pc'[w] = "idle")
    BY <1>3
       DEF WorkerActs, WorkerPC,
           Exit, Goto, Then, OnError, Branch, AtTask, ChecksOrNot,
           PlanOrComplete, WorkerStep, StoreError, Timeout,
           SkipCompleted, StopWorking, TakeTask, StartTask, ExecutePending,
           StillPending, LoopCheck, Answer, NextRound, SuspendLoop, Guardrail,
           ModelFails, Record, PlanArtifact, Checks, ChecksWait, CompleteTask,
           SetTaskBlocked, CreateBlocked, FailCheck, MarkTaskFailed, GiveUp,
           FailRun, FailTasks, FailRelease, ReleaseSandbox
  <2> QED
    BY <2>1, <2>2 DEF PausedStatus, Paused
<1> QED
  BY <1>1, <1>2, <1>3

LEMMA HandlerSession ==
  ASSUME TypeInv, NEW h \in Handlers, HandlerActs(h)
  PROVE  /\ \/ UNCHANGED session
            \/ session \in Paused \union {"running"} /\ session' = "cancelled"
            \/ session = "none" /\ session' = "running" /\ CreateSession(h)
            \/ session \in Paused /\ session' = "running" /\ ResumeSession(h)
         /\ \A g \in Handlers :
              AboutToLaunch(g)' =>
                \/ AboutToLaunch(g)
                \/ session = "none" /\ session' = "running"
                \/ session \in Paused /\ session' = "running"
<1> USE DEF TypeInv, TypeOK, HandlersOK
<1>1. CASE CreateSession(h)
  BY <1>1 DEF CreateSession
<1>2. CASE ResumeSession(h)
  BY <1>2 DEF ResumeSession, Carry, AboutToLaunch
<1>3. CASE Operator(h) /\ ~ CreateSession(h)
  <2>1. \A g \in Handlers : AboutToLaunch(g)' => AboutToLaunch(g)
    <3>1. \A g \in Handlers : g # h => hpc'[g] = hpc[g]
      BY <1>3 DEF Operator, Resume, Cancel, ApprovePlan, RevisePlan, Decide, ResolveBlocked,
                  Request
    <3> QED
      BY <1>3, <3>1, RequestKinds DEF AboutToLaunch
  <2>2. \/ UNCHANGED session
        \/ session \in Paused \union {"running"} /\ session' = "cancelled"
    BY <1>3 DEF Operator, Resume, Cancel, ApprovePlan, RevisePlan, Decide, ResolveBlocked, dbVars
  <2> QED
    BY <2>1, <2>2
<1>4. CASE (HandlerStep(h) \/ HandlerError(h)) /\ ~ ResumeSession(h)
  <2>1. \A g \in Handlers : AboutToLaunch(g)' => AboutToLaunch(g)
    BY <1>4 DEF HandlerStep, HandlerError, CreateTasks, AcquireSandbox, LaunchNew, Launch,
                CancelTheTasks, ResolveByArtifact, ResolveByApproval, SkipMetadata, SkipTask,
                StopSession, StopTasks, ResumeIfResolved, Carry, AboutToLaunch
  <2>2. \/ UNCHANGED session
        \/ session \in Paused \union {"running"} /\ session' = "cancelled"
    BY <1>4 DEF HandlerStep, HandlerError, CreateTasks, AcquireSandbox, LaunchNew, Launch,
                CancelTheTasks, ResolveByArtifact, ResolveByApproval, SkipMetadata, SkipTask,
                StopSession, StopTasks, dbVars
  <2> QED
    BY <2>1, <2>2
<1> QED
  BY <1>1, <1>2, <1>3, <1>4 DEF HandlerActs, HandlerStep

(* Handlers change the program counters of workers only by a launch.       *)
LEMMA HandlerPCs ==
  ASSUME TypeInv, NEW h \in Handlers, HandlerActs(h)
  PROVE  \/ UNCHANGED workerVars
         \/ /\ AboutToLaunch(h) /\ hpc[h] \in {"launch_new", "launch"}
            /\ LaunchNew(h) \/ Launch(h)
            /\ UNCHANGED dbVars
            /\ \E w \in Workers : pc' = [pc EXCEPT ![w] = "next"]
<1>1. CASE LaunchNew(h) \/ Launch(h)
  BY <1>1 DEF LaunchNew, Launch, StartRunWorker, AboutToLaunch
<1>2. CASE Operator(h)
  BY <1>2 DEF Operator, CreateSession, Resume, Cancel, ApprovePlan, RevisePlan, Decide,
              ResolveBlocked, Request
<1> QED
  BY <1>1, <1>2
     DEF HandlerActs, HandlerStep, HandlerError, CreateTasks, AcquireSandbox, ResumeSession,
         CancelTheTasks, ResolveByArtifact, ResolveByApproval, SkipMetadata, SkipTask,
         StopSession, StopTasks

SessionInv ==
  /\ \A w \in Workers :
       /\ pc[w] \notin {"idle", "cleanup"} => session \in {"running", "cancelled"} \union Paused
       /\ pc[w] = "cleanup" => session = "failed"
  /\ \A h \in Handlers : AboutToLaunch(h) => session \in {"running", "cancelled"}

LEMMA NextSession ==
  ASSUME Patient
  PROVE  TypeInv /\ OneActor /\ SessionInv /\ [Next]_vars => SessionInv'
<1> SUFFICES ASSUME TypeInv, OneActor, SessionInv, [Next]_vars PROVE SessionInv'
  OBVIOUS
<1> USE DEF TypeInv, TypeOK, WorkersOK, HandlersOK
<1>1. ASSUME NEW w \in Workers, WorkerActs(w) PROVE SessionInv'
  <2>1. /\ \A v \in Workers : v # w => pc'[v] = "idle"
        /\ \A h \in Handlers : ~ AboutToLaunch(h)'
    BY <1>1, WorkerLocal DEF OneActor, handlerVars, Serious, AboutToLaunch
  <2>2. /\ pc'[w] \notin {"idle", "cleanup"} => session' \in {"running", "cancelled"} \union Paused
        /\ pc'[w] = "cleanup" => session' = "failed"
    BY <1>1, WorkerSession, WorkerLocal DEF SessionInv
  <2> QED
    BY <2>1, <2>2 DEF SessionInv
<1>2. ASSUME NEW h \in Handlers, HandlerActs(h) PROVE SessionInv'
  <2>1. \A g \in Handlers : AboutToLaunch(g)' => session' \in {"running", "cancelled"}
    BY <1>2, HandlerSession DEF SessionInv, Paused
  <2>2. CASE UNCHANGED workerVars
    <3>1. CASE UNCHANGED session \/ (session' = "cancelled" /\ session # "failed")
      BY <2>1, <2>2, <3>1 DEF SessionInv, workerVars
    <3>2. CASE session \in Paused \union {"none"} /\ session' = "running"
      BY <2>1, <2>2, <3>2 DEF SessionInv, workerVars, Paused
    <3>3. \/ UNCHANGED session \/ (session' = "cancelled" /\ session # "failed")
          \/ session \in Paused \union {"none"} /\ session' = "running"
      BY <1>2, HandlerSession DEF Paused
    <3> QED
      BY <3>1, <3>2, <3>3
  <2>3. CASE /\ AboutToLaunch(h) /\ UNCHANGED dbVars
             /\ \E w \in Workers : pc' = [pc EXCEPT ![w] = "next"]
    <3>1. session \in {"running", "cancelled"} /\ session' = session
      BY <2>3 DEF SessionInv, dbVars
    <3>2. \A v \in Workers : pc[v] = "idle"
      BY <2>3 DEF OneActor, Serious, AboutToLaunch
    <3> QED
      BY <2>1, <2>3, <3>1, <3>2 DEF SessionInv
  <2> QED
    BY <1>2, <2>2, <2>3, HandlerPCs
<1>3. CASE Crash
  BY <1>3 DEF Crash, SessionInv, AboutToLaunch
<1>4. CASE UNCHANGED vars
  BY <1>4 DEF vars, dbVars, workerVars, handlerVars, SessionInv, AboutToLaunch
<1> QED
  BY <1>1, <1>2, <1>3, <1>4 DEF Next, WorkerActs, HandlerActs

LEMMA SessionAlways ==
  ASSUME Patient
  PROVE  Spec => []SessionInv
<1>1. Init => SessionInv
  BY DEF Init, SessionInv, AboutToLaunch
<1> QED
  BY <1>1, TypeAlways, ActorAlways, NextSession, PTL DEF Spec

(* When a run cannot be cancelled under its worker, nobody is at work on   *)
(* it any more once it has ended.                                          *)
EndInv ==
  session \in Terminal =>
    /\ \A w \in Workers : pc[w] \in {"idle", "cleanup"}
    /\ \A h \in Handlers : ~ AboutToLaunch(h)

LEMMA NextEnd ==
  ASSUME Patient, "cancel" \notin Concurrent
  PROVE  TypeInv /\ OneActor /\ EndInv /\ [Next]_vars
           => EndInv' /\ (session \in Terminal => UNCHANGED session)
<1> SUFFICES ASSUME TypeInv, OneActor, EndInv, [Next]_vars
             PROVE  EndInv' /\ (session \in Terminal => UNCHANGED session)
  OBVIOUS
<1> USE DEF TypeInv, TypeOK, WorkersOK, HandlersOK
<1>1. ASSUME NEW w \in Workers, WorkerActs(w)
      PROVE  EndInv' /\ (session \in Terminal => UNCHANGED session)
  <2>1. /\ \A v \in Workers : v # w => pc'[v] = "idle"
        /\ \A h \in Handlers : ~ AboutToLaunch(h)'
        /\ pc[w] # "idle"
    BY <1>1, WorkerLocal DEF OneActor, handlerVars, Serious, AboutToLaunch
  <2>2. CASE session \in Terminal
    BY <1>1, <2>1, <2>2, WorkerSession DEF EndInv
  <2>3. CASE session \notin Terminal
    BY <1>1, <2>1, <2>3, WorkerSession DEF EndInv, Terminal, Paused
  <2> QED
    BY <2>2, <2>3
<1>2. ASSUME NEW h \in Handlers, HandlerActs(h)
      PROVE  EndInv' /\ (session \in Terminal => UNCHANGED session)
  <2>1. session \in Terminal => UNCHANGED session
    BY <1>2, HandlerSession DEF Paused, Terminal
  <2>2. CASE Cancel(h)
    <3>1. Rest
      BY <2>2 DEF Cancel, Request, Busy, Rest
    <3>2. UNCHANGED pc /\ \A g \in Handlers : ~ AboutToLaunch(g)'
      BY <2>2, <3>1 DEF Cancel, Request, workerVars, Rest, AboutToLaunch
    <3> QED
      BY <2>1, <3>1, <3>2 DEF EndInv, Rest
  <2>3. CASE StopSession(h)
    <3>1. /\ \A w \in Workers : pc[w] = "idle"
          /\ \A g \in Handlers : ~ AboutToLaunch(g)
      BY <2>3 DEF StopSession, OneActor, Serious, AboutToLaunch
    <3>2. UNCHANGED pc /\ \A g \in Handlers : ~ AboutToLaunch(g)'
      BY <2>3, <3>1 DEF StopSession, Carry, workerVars, AboutToLaunch
    <3> QED
      BY <2>1, <3>1, <3>2 DEF EndInv
  <2>4. CASE ~ Cancel(h) /\ ~ StopSession(h)
    <3>1. session' \in Terminal => UNCHANGED session
      BY <1>2, <2>4
         DEF HandlerActs, HandlerStep, HandlerError, Operator, CreateSession, Resume,
             ApprovePlan, RevisePlan, Decide, ResolveBlocked, CreateTasks, AcquireSandbox,
             LaunchNew, Launch, ResumeSession, CancelTheTasks, ResolveByArtifact,
             ResolveByApproval, SkipMetadata, SkipTask, StopTasks, dbVars, Terminal
    <3>2. ASSUME session' \in Terminal
          PROVE  /\ \A w \in Workers : pc'[w] \in {"idle", "cleanup"}
                 /\ \A g \in Handlers : ~ AboutToLaunch(g)'
      <4>1. session \in Terminal /\ session' # "running"
        BY <3>1, <3>2 DEF Terminal
      <4>2. \A g \in Handlers : ~ AboutToLaunch(g)'
        BY <1>2, <4>1, HandlerSession DEF EndInv
      <4>3. UNCHANGED pc
        BY <1>2, <4>1, HandlerPCs DEF EndInv, workerVars
      <4> QED
        BY <4>1, <4>2, <4>3 DEF EndInv
    <3> QED
      BY <2>1, <3>2 DEF EndInv
  <2> QED
    BY <2>2, <2>3, <2>4
<1>3. CASE Crash
  BY <1>3 DEF Crash, dbVars, EndInv, AboutToLaunch
<1>4. CASE UNCHANGED vars
  BY <1>4 DEF vars, dbVars, workerVars, handlerVars, EndInv, AboutToLaunch
<1> QED
  BY <1>1, <1>2, <1>3, <1>4 DEF Next, WorkerActs, HandlerActs

LEMMA EndAlways ==
  ASSUME Patient, "cancel" \notin Concurrent
  PROVE  Spec => []EndInv
<1>1. Init => EndInv
  BY DEF Init, EndInv, Terminal
<1> QED
  BY <1>1, TypeAlways, ActorAlways, NextEnd, PTL DEF Spec

(* A run that is cancelled, failed or completed stays so, whatever fails   *)
(* and whatever an operator asks of it afterwards (startRunWorker,         *)
(* runs.ResumeSession, runs.CancelSession), if it is not cancelled under   *)
(* its worker: that is what run_cancel refutes.                            *)
THEOREM TerminalIsFinalHolds ==
  ASSUME Patient, "cancel" \notin Concurrent
  PROVE  Spec => TerminalIsFinal
<1>1. TypeInv /\ OneActor /\ EndInv /\ [Next]_vars
        => [(session \in Terminal) => UNCHANGED session]_vars
  BY NextEnd
<1> QED
  BY <1>1, TypeAlways, ActorAlways, EndAlways, PTL DEF Spec, TerminalIsFinal

-----------------------------------------------------------------------------
(* The sandbox: active from before the first launch until the run is       *)
(* closed, through every pause.                                            *)
Launching(h) == hpc[h] \in {"launch_new", "launch"}
SandboxInv ==
  /\ session \in Paused => sandbox = "active"
  /\ \A w \in Workers : Driving(w) /\ pc[w] # "finish" => sandbox = "active"
  /\ \A h \in Handlers : Launching(h) => sandbox = "active"

(* A worker releases it after the last task or after a failure.            *)
LEMMA WorkerSandbox ==
  ASSUME TypeInv, NEW w \in Workers, WorkerActs(w)
  PROVE  /\ \/ UNCHANGED sandbox /\ pc'[w] # "finish"
            \/ pc[w] = "cleanup" /\ sandbox' = Released /\ pc'[w] = "idle"
            \/ pc[w] = "next" /\ sandbox' = Released /\ pc'[w] \in {"finish", "error"}
         /\ pc[w] = "finish" => pc'[w] \in {"idle", "error"}
<1> USE DEF TypeInv, TypeOK, WorkersOK
<1>1. CASE FailRelease(w)
  BY <1>1 DEF FailRelease, Exit, Goto
<1>2. CASE ReleaseSandbox(w)
  BY <1>2 DEF ReleaseSandbox, Then, OnError
<1>3. CASE ~ FailRelease(w) /\ ~ ReleaseSandbox(w)
  <2>1. UNCHANGED sandbox
    BY <1>3
       DEF WorkerActs, WorkerStep, StoreError, Timeout, dbVars,
           SkipCompleted, StopWorking, TakeTask, StartTask, ExecutePending,
           StillPending, LoopCheck, Answer, NextRound, SuspendLoop, Guardrail,
           ModelFails, Record, PlanArtifact, Checks, ChecksWait, CompleteTask,
           PauseSession, SetTaskBlocked, CreateBlocked, FailCheck, MarkTaskFailed,
           GiveUp, FailRun, FailTasks, FailSession, CompleteSession
  <2>2. pc'[w] # "finish" /\ (pc[w] = "finish" => pc'[w] \in {"idle", "error"})
    BY <1>3
       DEF WorkerActs, WorkerPC,
           Exit, Goto, Then, OnError, Branch, AtTask, ChecksOrNot,
           PlanOrComplete, WorkerStep, StoreError, Timeout,
           SkipCompleted, StopWorking, TakeTask, StartTask, ExecutePending,
           StillPending, LoopCheck, Answer, NextRound, SuspendLoop, Guardrail,
           ModelFails, Record, PlanArtifact, Checks, ChecksWait, CompleteTask,
           PauseSession, SetTaskBlocked, CreateBlocked, FailCheck, MarkTaskFailed,
           GiveUp, FailRun, FailTasks, FailSession, CompleteSession
  <2> QED
    BY <2>1, <2>2
<1> QED
  BY <1>1, <1>2, <1>3

LEMMA HandlerSandbox ==
  ASSUME TypeInv, NEW h \in Handlers, HandlerActs(h)
  PROVE  /\ \/ UNCHANGED sandbox
            \/ hpc[h] = "acquire" /\ UNCHANGED session /\ sandbox' = "active"
         /\ \A g \in Handlers :
              Launching(g)' => \/ Launching(g)
                               \/ sandbox' = "active"
                               \/ session \in Paused
<1> USE DEF TypeInv, TypeOK, HandlersOK
<1>1. CASE CreateSession(h)
  BY <1>1 DEF CreateSession, Launching
<1>2. CASE Operator(h) /\ ~ CreateSession(h)
  <2>1. \A g \in Handlers : g # h => hpc'[g] = hpc[g]
    BY <1>2 DEF Operator, Resume, Cancel, ApprovePlan, RevisePlan, Decide, ResolveBlocked,
                Request
  <2>2. UNCHANGED sandbox
    BY <1>2 DEF Operator, Resume, Cancel, ApprovePlan, RevisePlan, Decide, ResolveBlocked, dbVars
  <2> QED
    BY <1>2, <2>1, <2>2, RequestKinds DEF Launching
<1>3. CASE HandlerStep(h) \/ HandlerError(h)
  BY <1>3 DEF HandlerStep, HandlerError, CreateTasks, AcquireSandbox, LaunchNew, Launch,
              ResumeSession, CancelTheTasks, ResolveByArtifact, ResolveByApproval,
              SkipMetadata, SkipTask, StopSession, StopTasks, ResumeIfResolved, Carry,
              Launching, dbVars
<1> QED
  BY <1>1, <1>2, <1>3 DEF HandlerActs

LEMMA NextSandbox ==
  ASSUME Patient
  PROVE  TypeInv /\ OneActor /\ DriverInv /\ SessionInv /\ SandboxInv /\ [Next]_vars
           => SandboxInv'
<1> SUFFICES ASSUME TypeInv, OneActor, DriverInv, SessionInv, SandboxInv, [Next]_vars
             PROVE  SandboxInv'
  OBVIOUS
<1>1. ASSUME NEW w \in Workers, WorkerActs(w) PROVE SandboxInv'
  <2>1. /\ pc[w] # "idle"
        /\ \A v \in Workers : v # w => ~ Driving(v)'
        /\ \A h \in Handlers : ~ Launching(h)'
    BY <1>1, WorkerLocal DEF OneActor, handlerVars, Serious, Launching, Driving
  <2>2. Driving(w)' /\ pc'[w] # "finish" => sandbox' = "active"
    BY <1>1, WorkerDrives, WorkerSandbox DEF WorkerActs, SandboxInv, Driving
  <2>3. session' \in Paused => sandbox' = "active"
    <3>1. CASE session \in Paused /\ UNCHANGED session
      <4>1. pc[w] \notin {"next", "cleanup"}
        BY <3>1, <2>1 DEF DriverInv, OneDriver, Driving, SessionInv, Paused
      <4> QED
        BY <1>1, <3>1, <4>1, WorkerSandbox DEF SandboxInv
    <3>2. CASE pc[w] = "pause"
      BY <1>1, <3>2, WorkerSandbox DEF SandboxInv, Driving
    <3> QED
      BY <1>1, <3>1, <3>2, WorkerSession DEF Paused
  <2> QED
    BY <2>1, <2>2, <2>3 DEF SandboxInv
<1>2. ASSUME NEW h \in Handlers, HandlerActs(h) PROVE SandboxInv'
  <2>1. sandbox = "active" => sandbox' = "active"
    BY <1>2, HandlerSandbox
  <2>2. session' \in Paused => session \in Paused
    BY <1>2, HandlerSession DEF Paused
  <2>3. \A g \in Handlers : Launching(g)' => sandbox' = "active"
    BY <1>2, <2>1, HandlerSandbox DEF SandboxInv
  <2>4. CASE UNCHANGED workerVars
    BY <2>1, <2>2, <2>3, <2>4 DEF SandboxInv, workerVars, Driving
  <2>5. CASE hpc[h] \in {"launch_new", "launch"}
    BY <2>1, <2>2, <2>3, <2>5 DEF SandboxInv, Launching
  <2> QED
    BY <1>2, <2>4, <2>5, HandlerPCs
<1>3. CASE Crash
  BY <1>3 DEF Crash, dbVars, SandboxInv, Driving, Launching
<1>4. CASE UNCHANGED vars
  BY <1>4 DEF vars, dbVars, workerVars, handlerVars, SandboxInv, Driving, Launching
<1> QED
  BY <1>1, <1>2, <1>3, <1>4 DEF Next, WorkerActs, HandlerActs

LEMMA SandboxAlways ==
  ASSUME Patient
  PROVE  Spec => []SandboxInv
<1>1. Init => SandboxInv
  BY DEF Init, SandboxInv, Driving, Launching, Paused
<1> QED
  BY <1>1, TypeAlways, ActorAlways, DriverAlways, SessionAlways, NextSandbox, PTL DEF Spec

(* A tool or a model works in an active sandbox, whatever fails and however *)
(* often the run was paused and resumed before (acquireSandbox,            *)
(* completeSessionLifecycle, failSessionLifecycle).                        *)
THEOREM SandboxInUseHolds ==
  ASSUME Patient
  PROVE  Spec => []SandboxInUse
<1>1. SandboxInv => SandboxInUse
  BY DEF SandboxInv, SandboxInUse, Driving
<1> QED
  BY <1>1, SandboxAlways, PTL

(* Released before a run is completed, and right after it has failed.      *)
ReleasedInv ==
  /\ session = "completed" => sandbox = "released"
  /\ session = "failed" =>
       sandbox = "released" \/ \E w \in Workers : pc[w] = "cleanup"
  /\ \A w \in Workers : /\ pc[w] = "finish" => sandbox = "released"
                        /\ pc[w] # "idle" => sandbox # "none"

LEMMA NextReleased ==
  ASSUME Patient, Faults = {}
  PROVE  TypeInv /\ OneActor /\ SessionInv /\ SandboxInv /\ ReleasedInv /\ [Next]_vars
           => ReleasedInv'
<1> SUFFICES ASSUME TypeInv, OneActor, SessionInv, SandboxInv, ReleasedInv, [Next]_vars
             PROVE  ReleasedInv'
  OBVIOUS
<1> USE DEF TypeInv, TypeOK, LedgerOK, WorkersOK
<1>1. ASSUME NEW w \in Workers, WorkerActs(w) PROVE ReleasedInv'
  <2>1. /\ pc[w] # "idle" /\ sandbox # "none"
        /\ \A v \in Workers : v # w => pc[v] = "idle" /\ pc'[v] = "idle"
    BY <1>1, WorkerLocal DEF OneActor, ReleasedInv
  <2>2. Released = "released"
    BY <2>1 DEF Released
  <2>3. sandbox = "released" => sandbox' = "released"
    BY <1>1, <2>2, WorkerSandbox
  <2>4. pc'[w] = "finish" => sandbox' = "released"
    BY <1>1, <2>2, WorkerSandbox
  <2>5. sandbox' # "none"
    BY <1>1, <2>1, <2>2, WorkerSandbox
  <2>6. session' = "completed" => sandbox' = "released"
    BY <1>1, <2>3, WorkerSession DEF ReleasedInv, Paused
  <2>7. session' = "failed" => sandbox' = "released" \/ pc'[w] = "cleanup"
    <3>1. CASE UNCHANGED session /\ pc[w] # "cleanup"
      BY <2>1, <2>3, <3>1 DEF ReleasedInv
    <3>2. CASE pc[w] = "cleanup"
      <4>1. ~ Timeout(w) /\ ~ StoreError(w)
        BY DEF Timeout, StoreError
      <4>2. FailRelease(w)
        BY <1>1, <3>2, <4>1
           DEF WorkerActs, WorkerStep, AtTask,
               SkipCompleted, StopWorking, TakeTask, StartTask, ExecutePending,
               StillPending, LoopCheck, Answer, NextRound, SuspendLoop, Guardrail,
               ModelFails, Record, PlanArtifact, Checks, ChecksWait, CompleteTask,
               PauseSession, SetTaskBlocked, CreateBlocked, FailCheck, MarkTaskFailed,
               GiveUp, FailRun, FailTasks, FailSession, ReleaseSandbox, CompleteSession
      <4> QED
        BY <2>2, <4>2 DEF FailRelease
    <3> QED
      BY <1>1, <3>1, <3>2, WorkerSession DEF Paused
  <2> QED
    BY <2>1, <2>4, <2>5, <2>6, <2>7 DEF ReleasedInv
<1>2. ASSUME NEW h \in Handlers, HandlerActs(h) PROVE ReleasedInv'
  <2>1. session' \in {"completed", "failed"} => UNCHANGED session
    BY <1>2, HandlerSession
  <2>2. CASE UNCHANGED workerVars /\ UNCHANGED sandbox
    BY <2>1, <2>2 DEF ReleasedInv, workerVars
  <2>3. CASE hpc[h] = "acquire" /\ UNCHANGED session /\ sandbox' = "active"
    <3>1. session \in {"running", "cancelled"}
      BY <2>3 DEF SessionInv, AboutToLaunch
    <3>2. \A v \in Workers : pc[v] = "idle"
      BY <2>3 DEF OneActor, Serious
    <3>3. UNCHANGED workerVars
      BY <1>2, <2>3, HandlerPCs
    <3> QED
      BY <2>3, <3>1, <3>2, <3>3 DEF ReleasedInv, workerVars
  <2>4. CASE /\ AboutToLaunch(h) /\ hpc[h] \in {"launch_new", "launch"} /\ UNCHANGED dbVars
             /\ \E w \in Workers : pc' = [pc EXCEPT ![w] = "next"]
    <3>1. session \in {"running", "cancelled"} /\ sandbox' = "active" /\ session' = session
      BY <2>4 DEF SessionInv, SandboxInv, Launching, dbVars
    <3>2. \A v \in Workers : pc'[v] # "finish"
      BY <2>4 DEF OneActor, Serious
    <3> QED
      BY <3>1, <3>2 DEF ReleasedInv
  <2> QED
    BY <1>2, <2>2, <2>3, <2>4, HandlerPCs, HandlerSandbox
<1>3. ~ Crash
  BY DEF Crash
<1>4. CASE UNCHANGED vars
  BY <1>4 DEF vars, dbVars, workerVars, ReleasedInv
<1> QED
  BY <1>1, <1>2, <1>3, <1>4 DEF Next, WorkerActs, HandlerActs

(* A run that its worker has closed, as completed or as failed, has no     *)
(* sandbox left: completeSessionLifecycle releases it before it completes  *)
(* the session, startRunWorker after it has failed the session.  With a    *)
(* store that fails it may leak, so Faults is empty here.                  *)
THEOREM SandboxReleasedHolds ==
  ASSUME Patient, Faults = {}
  PROVE  Spec => []SandboxReleased
<1>1. Init => ReleasedInv
  BY DEF Init, ReleasedInv
<1>2. ReleasedInv => SandboxReleased
  BY DEF ReleasedInv, SandboxReleased, Busy
<1> QED
  BY <1>1, <1>2, TypeAlways, ActorAlways, SessionAlways, SandboxAlways, NextReleased, PTL
     DEF Spec

-----------------------------------------------------------------------------
(* The ledger: a run is completed when all of its tasks are.               *)
AllDone == \A t \in Tasks : status[t] = "completed"
DoneInv ==
  /\ session = "completed" => AllDone
  /\ \A w \in Workers : pc[w] = "finish" => AllDone

LEMMA NextDone ==
  ASSUME Patient, "skip" \notin Requests
  PROVE  TypeInv /\ OneActor /\ OrderInv /\ DoneInv /\ [Next]_vars => DoneInv'
<1> SUFFICES ASSUME TypeInv, OneActor, OrderInv, DoneInv, [Next]_vars PROVE DoneInv'
  OBVIOUS
<1>1. ASSUME NEW w \in Workers, WorkerActs(w) PROVE DoneInv'
  <2>1. /\ pc[w] # "idle"
        /\ \A v \in Workers : v # w => pc'[v] = "idle"
    BY <1>1, WorkerLocal DEF OneActor
  <2>2. AllDone => AllDone'
    <3>1. AllDone => pc[w] \notin TaskPC
      BY DEF OrderInv, Progress, InHand, AllDone, TypeInv, OnTask
    <3> QED
      BY <1>1, <3>1, WorkerStatus DEF AllDone, KeepsDone
  <2>3. pc'[w] = "finish" => AllDone'
    <3>1. CASE pc[w] = "next" /\ pc'[w] = "finish"
      <4>1. ReleaseSandbox(w)
        BY <1>1, <3>1
           DEF WorkerActs, WorkerStep, StoreError, Timeout, TypeInv, TypeOK, WorkersOK,
               Goto, Exit, Branch, OnError,
               SkipCompleted, StopWorking, TakeTask, StartTask, ExecutePending,
               StillPending, LoopCheck, Answer, NextRound, SuspendLoop, Guardrail,
               ModelFails, Record, PlanArtifact, Checks, ChecksWait, CompleteTask,
               PauseSession, SetTaskBlocked, CreateBlocked, FailCheck, MarkTaskFailed,
               GiveUp, FailRun, FailTasks, FailSession, FailRelease, CompleteSession
      <4>2. At(w) = N + 1
        BY <4>1 DEF ReleaseSandbox
      <4>3. \A t \in Tasks : t < N + 1
        BY NAssumption DEF Tasks
      <4>4. AllDone
        BY <3>1, <4>2, <4>3 DEF OrderInv, Progress, InHand, AllDone
      <4> QED
        BY <2>2, <4>4
    <3> QED
      BY <1>1, <3>1, WorkerSandbox
  <2>4. session' = "completed" => AllDone'
    BY <1>1, <2>2, WorkerSession DEF DoneInv, Paused
  <2> QED
    BY <2>1, <2>3, <2>4 DEF DoneInv
<1>2. ASSUME NEW h \in Handlers, HandlerActs(h) PROVE DoneInv'
  <2>1. AllDone => AllDone'
    BY <1>2, HandlerKeepsDone DEF AllDone, KeepsDone
  <2>2. session' = "completed" => session = "completed"
    BY <1>2, HandlerSession
  <2>3. \A v \in Workers : pc'[v] = "finish" => pc[v] = "finish"
    BY <1>2, HandlerPCs DEF workerVars, TypeInv, TypeOK, WorkersOK
  <2> QED
    BY <2>1, <2>2, <2>3 DEF DoneInv
<1>3. CASE Crash
  BY <1>3 DEF Crash, dbVars, DoneInv, AllDone
<1>4. CASE UNCHANGED vars
  BY <1>4 DEF vars, dbVars, workerVars, DoneInv, AllDone
<1> QED
  BY <1>1, <1>2, <1>3, <1>4 DEF Next, WorkerActs, HandlerActs

LEMMA DoneAlways ==
  ASSUME Patient, "skip" \notin Requests
  PROVE  Spec => []DoneInv
<1>1. Init => DoneInv
  BY DEF Init, DoneInv
<1> QED
  BY <1>1, TypeAlways, ActorAlways, OrderAlways, NextDone, PTL DEF Spec

(* A run is failed when all of its tasks have ended: that needs to know    *)
(* where a task that waits may be when a worker gives up.                  *)
AllEnded == \A t \in Tasks : status[t] \in Terminal
NoneWaits == \A t \in Tasks : status[t] \notin Paused
Created == \A t \in Tasks : status[t] # "none"
Broken == {"failed", "cancelled"}

LedgerOf(w) ==
  /\ pc[w] = "close" => AllEnded
  /\ pc[w] = "ledger" => NoneWaits
  /\ pc[w] = "error" /\ session = "running" => NoneWaits
  /\ pc[w] \in {"fail", "mark"} /\ session = "running" => status[At(w)] \notin Paused
  /\ pc[w] \in {"loop", "model", "pending"} => status[At(w)] \notin Paused
  /\ pc[w] \in {"hold", "ask"} => session # "running"
  /\ pc[w] # "idle" => Created

(* A worker knows which of the tasks before it were cancelled or failed.   *)
Known(w) ==
  InHand(w) =>
    \A t \in Tasks :
      (/\ t >= At(w) /\ work[w].status[t] \in Broken
       /\ pc[w] \in TaskPC => t # At(w))
        => status[t] = work[w].status[t]

LedgerInv ==
  /\ session = "failed" => AllEnded
  /\ session \in Paused => Created
  /\ \A w \in Workers : LedgerOf(w) /\ Known(w)
  /\ \A h \in Handlers : hpc[h] \in {"acquire", "launch_new", "launch"} => Created

(* Where a worker comes from when no store fails.                          *)
LEMMA WorkerTurns ==
  ASSUME TypeInv, "store" \notin Faults, NEW w \in Workers, WorkerActs(w)
  PROVE  /\ pc'[w] \in {"loop", "model", "pending"} =>
              StartTask(w) \/ (pc[w] \in {"loop", "model", "pending"} /\ UNCHANGED status)
         /\ pc'[w] \in {"fail", "mark"} =>
              /\ UNCHANGED << session, status >>
              /\ pc[w] \in {"loop", "model", "ask", "fail"}
         /\ pc'[w] = "error" =>
              \/ StopWorking(w)
              \/ MarkTaskFailed(w)
              \/ /\ UNCHANGED << session, status >>
                 /\ pc[w] \in {"loop", "model", "ask"}
              \/ /\ UNCHANGED << session, status >>
                 /\ pc[w] = "fail" /\ session \in Paused
         /\ pc'[w] = "ledger" => FailRun(w)
         /\ pc'[w] = "close" => FailTasks(w)
         /\ pc'[w] \in {"hold", "ask"} => PauseSession(w) \/ SetTaskBlocked(w)
<1> USE DEF TypeInv, TypeOK, WorkersOK, Goto, Exit, OnError
<1>1. CASE \/ SkipCompleted(w) \/ TakeTask(w) \/ ExecutePending(w) \/ StillPending(w)
           \/ Answer(w) \/ NextRound(w) \/ SuspendLoop(w) \/ Guardrail(w)
  BY <1>1 DEF SkipCompleted, TakeTask, AtTask, Branch, ExecutePending, StillPending, Answer,
              NextRound, SuspendLoop, Guardrail, dbVars
<1>2. CASE \/ StopWorking(w) \/ StartTask(w) \/ LoopCheck(w) \/ ModelFails(w) \/ FailCheck(w)
           \/ MarkTaskFailed(w) \/ GiveUp(w) \/ FailRun(w) \/ FailTasks(w) \/ FailSession(w)
           \/ FailRelease(w) \/ CompleteSession(w) \/ PauseSession(w) \/ SetTaskBlocked(w)
           \/ Timeout(w)
  BY <1>2 DEF StopWorking, StartTask, LoopCheck, ModelFails, FailCheck, MarkTaskFailed, GiveUp,
              FailRun, FailTasks, FailSession, FailRelease, CompleteSession, PauseSession,
              SetTaskBlocked, Timeout, Then, dbVars
<1>3. CASE \/ Record(w) \/ PlanArtifact(w) \/ Checks(w) \/ ChecksWait(w) \/ CompleteTask(w)
           \/ CreateBlocked(w) \/ ReleaseSandbox(w)
  BY <1>3 DEF Record, PlanArtifact, Checks, ChecksWait, CompleteTask, CreateBlocked,
              ReleaseSandbox, Then, ChecksOrNot, PlanOrComplete
<1>4. ~ StoreError(w)
  BY DEF StoreError
<1> QED
  BY <1>1, <1>2, <1>3, <1>4 DEF WorkerActs, WorkerStep

(* A worker neither has a task wait, but at "hold", nor uncreates it.      *)
LEMMA WorkerWrites ==
  ASSUME TypeInv, NEW w \in Workers, WorkerActs(w)
  PROVE  /\ pc[w] # "hold" => \A t \in Tasks : status'[t] \in Paused => status[t] \in Paused
         /\ Created => Created'
<1> USE DEF TypeInv, TypeOK, LedgerOK
<1>1. CASE UNCHANGED status
  BY <1>1 DEF Created
<1>2. CASE FailTasks(w)
  BY <1>2 DEF FailTasks, CompleteTasks, Paused, Created
<1>3. CASE StartTask(w) \/ CompleteTask(w) \/ SetTaskBlocked(w) \/ MarkTaskFailed(w)
  BY <1>3 DEF StartTask, CompleteTask, SetTaskBlocked, MarkTaskFailed, UpdateTaskStatus,
              PausedStatus, Paused, Created
<1> QED
  BY <1>1, <1>2, <1>3
     DEF WorkerActs, WorkerStep, StoreError, Timeout, dbVars,
         SkipCompleted, StopWorking, TakeTask, ExecutePending,
         StillPending, LoopCheck, Answer, NextRound, SuspendLoop, Guardrail,
         ModelFails, Record, PlanArtifact, Checks, ChecksWait,
         PauseSession, CreateBlocked, FailCheck, GiveUp, FailRun,
         FailSession, FailRelease, ReleaseSandbox, CompleteSession

LEMMA WorkerKnown ==
  ASSUME TypeInv, NEW w \in Workers, Known(w), WorkerActs(w)
  PROVE  Known(w)'
<1> USE DEF TypeInv, TypeOK, WorkersOK, LedgerOK
<1> SUFFICES ASSUME InHand(w)' PROVE Known(w)'
  BY DEF Known
<1>1. CASE SkipCompleted(w)
  <2>1. /\ pc[w] = "next" /\ pc' = pc /\ status' = status
        /\ At(w) \in Tasks /\ At(w)' = At(w) + 1 /\ work'[w].status = work[w].status
    BY <1>1, WorkFields DEF SkipCompleted, AtTask, dbVars, At, Work
  <2> QED
    BY <2>1 DEF Known, InHand, Tasks, TaskPC
<1>2. CASE TakeTask(w)
  <2>1. /\ pc[w] = "next" /\ status' = status
        /\ At(w)' = At(w) /\ work'[w].status = work[w].status
    BY <1>2, WorkFields DEF TakeTask, AtTask, Branch, dbVars, At, Work
  <2> QED
    BY <2>1 DEF Known, InHand, TaskPC
<1>3. CASE CompleteTask(w)
  <2>1. /\ pc[w] = "complete" /\ At(w) \in Tasks
        /\ status' = [status EXCEPT ![At(w)] = "completed"]
    BY <1>3 DEF CompleteTask, UpdateTaskStatus, OnTask, TaskPC
  <2>2. /\ pc'[w] = "next" /\ At(w)' = At(w) + 1
        /\ work'[w].status = work[w].status
    BY <1>3, WorkFields DEF CompleteTask, Goto, InHand, TaskPC, At, Work
  <2> QED
    BY <2>1, <2>2 DEF Known, InHand, Tasks, TaskPC
<1>4. CASE /\ pc[w] \in TaskPC /\ pc'[w] \in TaskPC
           /\ work'[w].at = work[w].at
           /\ work'[w].status = work[w].status
  <2>1. At(w)' = At(w) /\ At(w) \in Tasks
    BY <1>4 DEF At, OnTask
  <2>2. \A t \in Tasks : t # At(w) => status'[t] = status[t]
    <3>1. ~ FailTasks(w)
      BY <1>4 DEF FailTasks, TaskPC
    <3> QED
      BY <3>1
         DEF WorkerActs, WorkerStep, StoreError, Timeout, dbVars, UpdateTaskStatus,
             SkipCompleted, StopWorking, TakeTask, StartTask, ExecutePending,
             StillPending, LoopCheck, Answer, NextRound, SuspendLoop, Guardrail,
             ModelFails, Record, PlanArtifact, Checks, ChecksWait, CompleteTask,
             PauseSession, SetTaskBlocked, CreateBlocked, FailCheck, MarkTaskFailed,
             GiveUp, FailRun, FailSession, FailRelease, ReleaseSandbox, CompleteSession
  <2> QED
    BY <1>4, <2>1, <2>2 DEF Known, InHand
<1> QED
  BY <1>1, <1>2, <1>3, <1>4, WorkerHand

(* Nothing behind the task of a worker was begun, so no other task waits.  *)
LEMMA OthersDoNotWait ==
  ASSUME TypeInv, OrderInv, NEW w \in Workers, InHand(w), At(w) \in Tasks,
         status[At(w)] # "completed"
  PROVE  \A t \in Tasks : t # At(w) => status[t] \notin Paused
<1>1. \A t \in Tasks : t < At(w) => status[t] = "completed"
  BY DEF OrderInv, Progress
<1>2. \A t \in Tasks : t > At(w) => status[t] \notin Begun
  BY DEF OrderInv, Sequential, Begun
<1>3. At(w) \in Int /\ \A t \in Tasks : t \in Int
  BY DEF Tasks
<1> QED
  BY <1>1, <1>2, <1>3 DEF Begun, Paused

LEMMA WorkerLedgerOf ==
  ASSUME TypeInv, SessionInv, OneActor, OrderInv, "store" \notin Faults,
         NEW w \in Workers, LedgerOf(w), Known(w), WorkerActs(w)
  PROVE  LedgerOf(w)'
<1> USE DEF TypeInv, TypeOK, WorkersOK, LedgerOK
<1>0. pc[w] # "idle" /\ Created'
  BY WorkerLocal, WorkerWrites DEF LedgerOf
<1>1. pc'[w] = "close" => AllEnded'
  <2>1. SUFFICES ASSUME FailTasks(w) PROVE AllEnded'
    BY WorkerTurns
  <2>2. Created /\ NoneWaits /\ \A t \in Tasks : status[t] \in TaskStatus
    BY <2>1 DEF LedgerOf, FailTasks
  <2> QED
    BY <2>1, <2>2 DEF FailTasks, CompleteTasks, AllEnded, Created, NoneWaits, TaskStatus,
                      Terminal, Paused
<1>2. pc'[w] = "ledger" => NoneWaits'
  <2>1. SUFFICES ASSUME FailRun(w) PROVE NoneWaits'
    BY WorkerTurns
  <2>2. session = "running"
    BY <2>1 DEF FailRun, SessionInv
  <2> QED
    BY <2>1, <2>2 DEF FailRun, LedgerOf, dbVars, NoneWaits
<1>3. pc'[w] = "error" /\ session' = "running" => NoneWaits'
  <2>1. ASSUME StopWorking(w), session = "running" PROVE NoneWaits'
    <3>1. /\ At(w) \in Tasks /\ pc[w] = "next" /\ status' = status
          /\ work[w].status[At(w)] \in Broken
      BY <2>1 DEF StopWorking, AtTask, Broken, dbVars
    <3>2. status[At(w)] = work[w].status[At(w)]
      BY <3>1 DEF Known, InHand, TaskPC, Tasks
    <3>3. status[At(w)] \in Broken
      BY <3>1, <3>2
    <3> QED
      BY <3>1, <3>3, OthersDoNotWait DEF NoneWaits, InHand, Broken, Paused
  <2>2. ASSUME MarkTaskFailed(w) PROVE NoneWaits'
    <3>1. /\ pc[w] = "mark" /\ At(w) \in Tasks /\ InHand(w)
          /\ status[At(w)] # "completed"
          /\ status' = [status EXCEPT ![At(w)] = "failed"]
      BY <2>2 DEF MarkTaskFailed, UpdateTaskStatus, OnTask, TaskPC, InHand, OrderInv, Progress
    <3> QED
      BY <3>1, OthersDoNotWait DEF NoneWaits, Paused
  <2>3. ASSUME pc[w] \in {"loop", "model"}, status' = status PROVE NoneWaits'
    <3>1. /\ At(w) \in Tasks /\ InHand(w) /\ status[At(w)] \notin Paused
          /\ status[At(w)] # "completed"
      BY <2>3 DEF OnTask, TaskPC, InHand, LedgerOf, OrderInv, Progress
    <3> QED
      BY <2>3, <3>1, OthersDoNotWait DEF NoneWaits
  <2>4. session = "running" => pc[w] # "ask"
    BY DEF LedgerOf
  <2>5. StopWorking(w) => session' = session
    BY DEF StopWorking, dbVars
  <2> QED
    BY <2>1, <2>2, <2>3, <2>4, <2>5, WorkerTurns DEF Paused
<1>4. pc'[w] \in {"fail", "mark"} /\ session' = "running" => status'[At(w)'] \notin Paused
  <2>1. SUFFICES ASSUME pc'[w] \in {"fail", "mark"}, session' = "running"
                 PROVE  status'[At(w)'] \notin Paused
    OBVIOUS
  <2>2. /\ session' = session /\ status' = status
        /\ pc[w] \in {"loop", "model", "ask", "fail"}
    BY <2>1, WorkerTurns
  <2>3. At(w)' = At(w)
    BY <2>1, <2>2, WorkerHand DEF InHand, TaskPC, At, SkipCompleted, TakeTask, AtTask, CompleteTask
  <2> QED
    BY <2>1, <2>2, <2>3 DEF LedgerOf
<1>5. pc'[w] \in {"loop", "model", "pending"} => status'[At(w)'] \notin Paused
  <2>1. SUFFICES ASSUME pc'[w] \in {"loop", "model", "pending"}
                 PROVE  status'[At(w)'] \notin Paused
    OBVIOUS
  <2>2. CASE StartTask(w)
    <3>1. /\ At(w) \in Tasks /\ status' = [status EXCEPT ![At(w)] = "running"]
          /\ At(w)' = At(w)
      BY <2>2 DEF StartTask, UpdateTaskStatus, OnTask, TaskPC, At
    <3> QED
      BY <3>1 DEF Paused
  <2>3. CASE pc[w] \in {"loop", "model", "pending"} /\ UNCHANGED status
    <3>1. At(w)' = At(w)
      BY <2>1, <2>3, WorkerHand DEF InHand, TaskPC, At, SkipCompleted, TakeTask, AtTask, CompleteTask
    <3> QED
      BY <2>3, <3>1 DEF LedgerOf
  <2> QED
    BY <2>1, <2>2, <2>3, WorkerTurns
<1>6. pc'[w] \in {"hold", "ask"} => session' # "running"
  <2>1. PauseSession(w) => session' # "running"
    BY WorkerSession DEF PauseSession, Paused
  <2>2. SetTaskBlocked(w) => session' # "running"
    BY DEF SetTaskBlocked, LedgerOf
  <2> QED
    BY <2>1, <2>2, WorkerTurns
<1> QED
  BY <1>0, <1>1, <1>2, <1>3, <1>4, <1>5, <1>6 DEF LedgerOf

LEMMA WorkerLedgerInv ==
  ASSUME TypeInv, SessionInv, OneActor, OrderInv, LedgerInv, "store" \notin Faults,
         NEW w \in Workers, WorkerActs(w)
  PROVE  LedgerInv'
<1>1. /\ pc[w] # "idle" /\ UNCHANGED hpc
      /\ \A v \in Workers : v # w => pc'[v] = "idle"
  BY WorkerLocal DEF OneActor, handlerVars
<1>2. LedgerOf(w)' /\ Known(w)'
  BY WorkerLedgerOf, WorkerKnown DEF LedgerInv
<1>3. Created' /\ (Created => Created')
  BY <1>1, WorkerWrites DEF LedgerInv, LedgerOf
<1>4. session' = "failed" => AllEnded'
  <2>1. pc[w] \in {"close", "cleanup"} => UNCHANGED status
    BY DEF WorkerActs, WorkerStep, StoreError, Timeout, dbVars, AtTask,
           SkipCompleted, StopWorking, TakeTask, StartTask, ExecutePending,
           StillPending, LoopCheck, Answer, NextRound, SuspendLoop, Guardrail,
           ModelFails, Record, PlanArtifact, Checks, ChecksWait, CompleteTask,
           PauseSession, SetTaskBlocked, CreateBlocked, FailCheck, MarkTaskFailed,
           GiveUp, FailRun, FailTasks, FailSession, FailRelease, ReleaseSandbox,
           CompleteSession
  <2>2. session = "failed" => pc[w] = "cleanup"
    BY <1>1 DEF SessionInv, Paused
  <2>3. session' = "failed" => session = "failed" \/ pc[w] = "close"
    BY WorkerSession DEF Paused
  <2> QED
    BY <2>1, <2>2, <2>3 DEF LedgerInv, LedgerOf, AllEnded
<1>5. \A v \in Workers : v # w => LedgerOf(v)' /\ Known(v)'
  BY <1>1 DEF LedgerOf, Known, InHand, TaskPC
<1> QED
  BY <1>1, <1>2, <1>3, <1>4, <1>5 DEF LedgerInv

(* Handlers write the status of all tasks, to create or to cancel them.    *)
LEMMA HandlerWrites ==
  ASSUME TypeInv, OrderInv, NEW h \in Handlers, HandlerActs(h)
  PROVE  /\ \/ UNCHANGED status
            \/ CreateTasks(h)
            \/ CancelTasks /\ UNCHANGED workerVars
         /\ \A g \in Handlers :
              hpc'[g] \in {"acquire", "launch_new", "launch"} =>
                \/ hpc[g] \in {"acquire", "launch_new", "launch"}
                \/ CreateTasks(h)
                \/ session \in Paused
<1> USE DEF TypeInv, TypeOK, HandlersOK
<1>1. CASE CreateSession(h)
  BY <1>1 DEF CreateSession
<1>2. CASE Operator(h) /\ ~ CreateSession(h)
  <2>1. \A g \in Handlers : g # h => hpc'[g] = hpc[g]
    BY <1>2 DEF Operator, Resume, Cancel, ApprovePlan, RevisePlan, Decide, ResolveBlocked,
                Request
  <2>2. UNCHANGED status
    BY <1>2 DEF Operator, Resume, Cancel, ApprovePlan, RevisePlan, Decide, ResolveBlocked, dbVars
  <2> QED
    BY <1>2, <2>1, <2>2, RequestKinds
<1>3. CASE HandlerStep(h) \/ HandlerError(h)
  <2>1. ~ SkipTask(h)
    BY DEF SkipTask, OrderInv, NoSkip
  <2> QED
    BY <1>3, <2>1
       DEF HandlerStep, HandlerError, CreateTasks, AcquireSandbox, LaunchNew, Launch,
           ResumeSession, CancelTheTasks, ResolveByArtifact, ResolveByApproval,
           SkipMetadata, StopSession, StopTasks, ResumeIfResolved, Carry, dbVars
<1> QED
  BY <1>1, <1>2, <1>3 DEF HandlerActs

(* What cancelling the tasks leaves true of them.                          *)
LEMMA CancelWrites ==
  ASSUME TypeInv, CancelTasks
  PROVE  /\ \A t \in Tasks :
              /\ status'[t] \notin Paused
              /\ status[t] \in Terminal => status'[t] = status[t]
         /\ Created => Created'
BY DEF TypeInv, TypeOK, LedgerOK, CancelTasks, Paused, Terminal, Created

LEMMA HandlerLedgerInv ==
  ASSUME TypeInv, SessionInv, OneActor, OrderInv, LedgerInv, Patient,
         NEW h \in Handlers, HandlerActs(h)
  PROVE  LedgerInv'
<1> USE DEF TypeInv, TypeOK, LedgerOK, WorkersOK
<1>1. /\ session' = "failed" => session = "failed"
      /\ session' \in Paused => session \in Paused
      /\ session' = "running" =>
           session = "running" \/ \A v \in Workers : pc[v] = "idle"
  <2>1. CreateSession(h) => \A v \in Workers : pc[v] = "idle"
    BY DEF CreateSession, OneActor, Rest
  <2>2. ResumeSession(h) => \A v \in Workers : pc[v] = "idle"
    BY DEF ResumeSession, OneActor, Serious
  <2> QED
    BY <2>1, <2>2, HandlerSession DEF Paused
<1>2. CASE UNCHANGED status /\ UNCHANGED workerVars
  <2>1. \A v \in Workers : LedgerOf(v)' /\ Known(v)'
    BY <1>1, <1>2 DEF LedgerInv, LedgerOf, Known, InHand, At, AllEnded, NoneWaits, Created,
                      workerVars
  <2>2. \A g \in Handlers : hpc'[g] \in {"acquire", "launch_new", "launch"} => Created'
    <3>1. ~ CreateTasks(h) \/ Created'
      BY DEF CreateTasks, Created
    <3> QED
      BY <1>2, <3>1, HandlerWrites DEF LedgerInv, Created
  <2> QED
    BY <1>1, <1>2, <2>1, <2>2 DEF LedgerInv, AllEnded, Created
<1>3. CASE CreateTasks(h)
  <2>1. /\ \A v \in Workers : pc'[v] = "idle"
        /\ session' = session /\ session \in {"running", "cancelled"}
        /\ Created'
    BY <1>3 DEF CreateTasks, OneActor, Serious, SessionInv, AboutToLaunch, workerVars, Created
  <2> QED
    BY <2>1 DEF LedgerInv, LedgerOf, Known, InHand, TaskPC, Paused
<1>4. CASE CancelTasks /\ UNCHANGED workerVars
  <2>1. ASSUME NEW v \in Workers PROVE LedgerOf(v)' /\ Known(v)'
    <3>1. /\ AllEnded => AllEnded'
          /\ NoneWaits'
          /\ Created => Created'
      BY <1>4, CancelWrites DEF AllEnded, NoneWaits
    <3>2. pc'[v] = pc[v] /\ work'[v] = work[v] /\ At(v)' = At(v)
      BY <1>4 DEF workerVars, At
    <3>3. pc[v] \in TaskPC => status'[At(v)] \notin Paused
      BY <1>4, CancelWrites DEF OnTask
    <3>4. LedgerOf(v)'
      BY <1>1, <3>1, <3>2, <3>3 DEF LedgerInv, LedgerOf, TaskPC
    <3>5. Known(v)'
      BY <1>4, <3>2, CancelWrites DEF LedgerInv, Known, InHand, Broken, Terminal
    <3> QED
      BY <3>4, <3>5
  <2>2. /\ AllEnded => AllEnded'
        /\ Created => Created'
    BY <1>4, CancelWrites DEF AllEnded
  <2>3. \A g \in Handlers : hpc'[g] \in {"acquire", "launch_new", "launch"} => Created'
    <3>1. ~ CreateTasks(h) \/ Created'
      BY DEF CreateTasks, Created
    <3> QED
      BY <2>2, <3>1, HandlerWrites DEF LedgerInv
  <2> QED
    BY <1>1, <2>1, <2>2, <2>3 DEF LedgerInv
<1>5. CASE LaunchNew(h) \/ Launch(h)
  <2>1. /\ status' = status /\ session' = session /\ Created
        /\ \A v \in Workers : pc[v] = "idle"
        /\ \A g \in Handlers : hpc'[g] \in {"acquire", "launch_new", "launch"} => Created
    BY <1>5, HandlerWrites DEF LaunchNew, Launch, dbVars, LedgerInv, OneActor, Serious, CreateTasks
  <2>2. PICK w, s, m :
          /\ w \in Workers
          /\ StartRunWorker(w, s, m)
          /\ \A t \in Tasks : s[t] \in Broken => status[t] = s[t]
    <3>1. CASE Launch(h)
      BY <3>1 DEF Launch
    <3>2. CASE LaunchNew(h)
      <4>1. PICK w \in Workers :
              StartRunWorker(w, [t \in Tasks |-> "queued"], [t \in Tasks |-> NoMeta])
        BY <3>2 DEF LaunchNew
      <4>2. \A t \in Tasks : [u \in Tasks |-> "queued"][t] \notin Broken
        BY DEF Broken
      <4> QED
        BY <4>1, <4>2
    <3> QED
      BY <1>5, <3>1, <3>2
  <2>3. /\ pc'[w] = "next" /\ work'[w].at = 1 /\ work'[w].status = s
        /\ \A v \in Workers : v # w => pc'[v] = "idle"
    BY <2>1, <2>2 DEF StartRunWorker, NoWork
  <2>4. Known(w)' /\ LedgerOf(w)'
    BY <2>1, <2>2, <2>3 DEF Known, LedgerOf, InHand, At, TaskPC, Created
  <2>5. \A v \in Workers : v # w => LedgerOf(v)' /\ Known(v)'
    BY <2>3 DEF LedgerOf, Known, InHand, TaskPC
  <2> QED
    BY <2>1, <2>4, <2>5 DEF LedgerInv, AllEnded, Created
<1>6. UNCHANGED status => UNCHANGED workerVars \/ LaunchNew(h) \/ Launch(h)
  BY HandlerPCs
<1> QED
  BY <1>2, <1>3, <1>4, <1>5, <1>6, HandlerWrites

LEMMA NextLedger ==
  ASSUME Patient, "skip" \notin Requests, "store" \notin Faults
  PROVE  TypeInv /\ SessionInv /\ OneActor /\ OrderInv /\ LedgerInv /\ [Next]_vars
           => LedgerInv'
<1> SUFFICES ASSUME TypeInv, SessionInv, OneActor, OrderInv, LedgerInv, [Next]_vars
             PROVE  LedgerInv'
  OBVIOUS
<1>1. CASE Crash
  BY <1>1 DEF Crash, dbVars, LedgerInv, LedgerOf, Known, InHand, TaskPC, AllEnded, Created
<1>2. CASE UNCHANGED vars
  BY <1>2 DEF vars, dbVars, workerVars, handlerVars, LedgerInv, LedgerOf, Known, InHand, At,
              AllEnded, Created, NoneWaits
<1> QED
  BY <1>1, <1>2, WorkerLedgerInv, HandlerLedgerInv DEF Next, WorkerActs, HandlerActs

LEMMA LedgerAlways ==
  ASSUME Patient, "skip" \notin Requests, "store" \notin Faults
  PROVE  Spec => []LedgerInv
<1>1. Init => LedgerInv
  BY DEF Init, LedgerInv, LedgerOf, Known, InHand, TaskPC, Paused
<1> QED
  BY <1>1, TypeAlways, ActorAlways, SessionAlways, OrderAlways, NextLedger, PTL DEF Spec

(* A completed run has completed all of its tasks, though                  *)
(* completeSessionLifecycle does not look at them, and no task of a failed *)
(* run still waits or runs: completeRunLedger ends those that were left.   *)
(* No store fails here: a worker that cannot read the session fails it     *)
(* over a task that waits.                                                 *)
THEOREM LedgerAgreesHolds ==
  ASSUME Patient, "skip" \notin Requests, "store" \notin Faults
  PROVE  Spec => []LedgerAgrees
<1>1. DoneInv /\ LedgerInv => LedgerAgrees
  BY DEF DoneInv, LedgerInv, LedgerAgrees, AllDone, AllEnded
<1> QED
  BY <1>1, DoneAlways, LedgerAlways, PTL

-----------------------------------------------------------------------------
(* The review queue: a paused run has an action that says why, unless its  *)
(* worker is about to write it.                                            *)
Explains(i) ==
  /\ status[actions[i].task] = session
  /\ actions[i].kind = "plan" <=> session = "plan_review"
Explained == \E i \in DOMAIN actions : Explains(i)

ReviewOf(w) ==
  /\ pc[w] = "hold" => session = PausedStatus(w)
  /\ pc[w] = "ask" => session = PausedStatus(w) /\ status[At(w)] = session
  /\ pc[w] \in {"mark", "ledger", "close"} => session \notin Paused

ReviewInv ==
  /\ session \in Paused => Explained \/ \E w \in Workers : pc[w] \in {"hold", "ask"}
  /\ \A w \in Workers : ReviewOf(w)
  /\ \A h \in Handlers : hpc[h] \in {"cancel_tasks", "stop_tasks"} => session \in Terminal

LEMMA WorkerReviewOf ==
  ASSUME TypeInv, Faults = {}, NEW w \in Workers, ReviewOf(w), WorkerActs(w)
  PROVE  ReviewOf(w)'
<1> USE DEF TypeInv, TypeOK, WorkersOK, LedgerOK
<1>0. "store" \notin Faults
  OBVIOUS
<1>1. pc'[w] = "hold" => session' = PausedStatus(w)'
  <2>1. SetTaskBlocked(w) => pc'[w] = "ask"
    BY DEF SetTaskBlocked, Goto
  <2>2. PauseSession(w) => session' = PausedStatus(w)'
    BY DEF PauseSession, PausedStatus
  <2> QED
    BY <1>0, <2>1, <2>2, WorkerTurns
<1>2. pc'[w] = "ask" => session' = PausedStatus(w)' /\ status'[At(w)'] = session'
  <2>1. PauseSession(w) => pc'[w] = "hold"
    BY DEF PauseSession, Goto
  <2>2. SetTaskBlocked(w) => session' = PausedStatus(w)' /\ status'[At(w)'] = session'
    BY DEF SetTaskBlocked, UpdateTaskStatus, ReviewOf, PausedStatus, At, OnTask, TaskPC
  <2> QED
    BY <1>0, <2>1, <2>2, WorkerTurns
<1>3. pc'[w] \in {"mark", "ledger", "close"} => session' \notin Paused
  <2>1. pc'[w] = "mark" => FailCheck(w) /\ session \notin Paused
    BY DEF WorkerActs, WorkerStep, StoreError, Timeout, Goto, Exit, Then, OnError, Branch,
           ChecksOrNot, PlanOrComplete,
           SkipCompleted, StopWorking, TakeTask, StartTask, ExecutePending,
           StillPending, LoopCheck, Answer, NextRound, SuspendLoop, Guardrail,
           ModelFails, Record, PlanArtifact, Checks, ChecksWait, CompleteTask,
           PauseSession, SetTaskBlocked, CreateBlocked, FailCheck, MarkTaskFailed,
           GiveUp, FailRun, FailTasks, FailSession, FailRelease, ReleaseSandbox,
           CompleteSession, AtTask
  <2>2. FailCheck(w) => session' = session
    BY DEF FailCheck, dbVars
  <2>3. FailRun(w) => session' = session /\ session \notin Paused
    BY DEF FailRun, dbVars
  <2>4. FailTasks(w) => session' = session /\ session \notin Paused
    BY DEF FailTasks, ReviewOf
  <2> QED
    BY <1>0, <2>1, <2>2, <2>3, <2>4, WorkerTurns
<1> QED
  BY <1>1, <1>2, <1>3 DEF ReviewOf

(* The action a worker leaves behind explains the pause it has made.       *)
LEMMA WorkerExplains ==
  ASSUME TypeInv, DriverInv, SessionInv, OneActor, Faults = {},
         NEW w \in Workers, WorkerActs(w), ReviewInv, session' \in Paused
  PROVE  Explained' \/ pc'[w] \in {"hold", "ask"}
<1> USE DEF TypeInv, TypeOK, WorkersOK, LedgerOK
<1>1. CASE pc[w] = "pause" /\ pc'[w] = "hold"
  BY <1>1
<1>2. CASE session' = session /\ session \in Paused
  <2>1. pc[w] \in {"hold", "ask", "fail", "error"}
    BY <1>2, WorkerLocal
       DEF DriverInv, OneDriver, Driving, ReviewInv, ReviewOf, SessionInv, Paused, WorkerPC
  <2>2. ~ StoreError(w) /\ ~ Timeout(w)
    BY DEF StoreError, Timeout
  <2>3. CASE SetTaskBlocked(w)
    BY <2>3 DEF SetTaskBlocked, Goto
  <2>4. CASE CreateBlocked(w)
    <3> DEFINE a == [kind |-> work[w].block, task |-> At(w), ask |-> work[w].ask,
                     plan |-> IF work[w].block = "plan" THEN latest ELSE 0,
                     status |-> "open"]
    <3>1. /\ actions' = Append(actions, a)
          /\ status' = status
          /\ pc[w] = "ask"
      BY <2>4 DEF CreateBlocked
    <3>2. actions \in Seq(Action)
      BY DEF ReviewOK
    <3>3. a.task = At(w) /\ a.kind = work[w].block
      OBVIOUS
    <3> HIDE DEF a
    <3>4. /\ Len(actions) + 1 \in DOMAIN actions'
          /\ actions'[Len(actions) + 1] = a
      BY <3>1, <3>2
    <3>5. /\ status[At(w)] = session
          /\ work[w].block = "plan" <=> session = "plan_review"
      BY <3>1 DEF ReviewInv, ReviewOf, PausedStatus
    <3> QED
      BY <1>2, <3>1, <3>3, <3>4, <3>5 DEF Explained, Explains
  <2>5. CASE FailCheck(w) \/ GiveUp(w) \/ FailRun(w)
    <3>1. UNCHANGED << session, status, actions >> /\ pc[w] \notin {"hold", "ask"}
      BY <2>5 DEF FailCheck, GiveUp, FailRun, dbVars, review
    <3>2. Explained
      BY <1>2, <3>1, WorkerLocal DEF ReviewInv, OneActor
    <3> QED
      BY <3>1, <3>2 DEF Explained, Explains
  <2> QED
    BY <2>1, <2>2, <2>3, <2>4, <2>5
       DEF WorkerActs, WorkerStep, AtTask,
           SkipCompleted, StopWorking, TakeTask, StartTask, ExecutePending,
           StillPending, LoopCheck, Answer, NextRound, SuspendLoop, Guardrail,
           ModelFails, Record, PlanArtifact, Checks, ChecksWait, CompleteTask,
           PauseSession, MarkTaskFailed, FailTasks, FailSession, FailRelease,
           ReleaseSandbox, CompleteSession
<1> QED
  BY <1>1, <1>2, WorkerSession DEF Paused

(* Handlers change the status of an action and nothing else of it.         *)
LEMMA SetActionsKeeps ==
  ASSUME actions \in Seq(Action), NEW P,
         NEW s \in {"open", "resolved", "rejected"}, SetActions(P, s)
  PROVE  \A i \in DOMAIN actions :
           /\ i \in DOMAIN actions'
           /\ actions'[i].task = actions[i].task
           /\ actions'[i].kind = actions[i].kind
<1>1. \A i \in DOMAIN actions : actions[i] \in Action
  OBVIOUS
<1>2. ASSUME NEW i \in DOMAIN actions
      PROVE  /\ [actions[i] EXCEPT !.status = s].task = actions[i].task
             /\ [actions[i] EXCEPT !.status = s].kind = actions[i].kind
  BY <1>1 DEF Action
<1>3. /\ DOMAIN actions' = DOMAIN actions
      /\ \A i \in DOMAIN actions :
           \/ actions'[i] = actions[i]
           \/ actions'[i] = [actions[i] EXCEPT !.status = s]
  BY SetActionsType DEF SetActions
<1> QED
  BY <1>2, <1>3

LEMMA HandlerActions ==
  ASSUME TypeInv, NEW h \in Handlers, HandlerActs(h)
  PROVE  \A i \in DOMAIN actions :
           /\ i \in DOMAIN actions'
           /\ actions'[i].task = actions[i].task
           /\ actions'[i].kind = actions[i].kind
<1>0. actions \in Seq(Action)
  BY DEF TypeInv, TypeOK, ReviewOK
<1>1. CASE UNCHANGED actions
  BY <1>1
<1>2. CASE ResolveByArtifact(h)
  BY <1>0, <1>2, SetActionsKeeps DEF ResolveByArtifact
<1>3. CASE ResolveByApproval(h)
  <2>1. PICK P, s : s \in {"resolved", "rejected"} /\ SetActions(P, s)
    BY <1>3 DEF ResolveByApproval
  <2> QED
    BY <1>0, <2>1, SetActionsKeeps
<1>4. ASSUME NEW i \in DOMAIN actions,
             NEW k \in {"retry", "skip", "stop", "reject", "clarify"},
             ResolveBlocked(h, k, i)
      PROVE  \A j \in DOMAIN actions :
               /\ j \in DOMAIN actions'
               /\ actions'[j].task = actions[j].task
               /\ actions'[j].kind = actions[j].kind
  <2>1. PICK P, s : s \in {"resolved", "rejected"} /\ SetActions(P, s)
    BY <1>4 DEF ResolveBlocked
  <2> QED
    BY <1>0, <2>1, SetActionsKeeps
<1>5. CASE HandlerStep(h) \/ HandlerError(h)
  BY <1>1, <1>2, <1>3, <1>5
     DEF HandlerStep, HandlerError, CreateTasks, AcquireSandbox, LaunchNew, Launch,
         ResumeSession, CancelTheTasks, SkipMetadata, SkipTask, StopSession, StopTasks,
         dbVars, review
<1> QED
  BY <1>1, <1>4, <1>5
     DEF HandlerActs, Operator, CreateSession, Resume, Cancel, ApprovePlan, RevisePlan, Decide,
         dbVars, review

(* A run at work changes its session only by its worker's steps.           *)
LEMMA QuietSession ==
  ASSUME TypeInv, OneActor, "cancel" \notin Concurrent, NEW h \in Handlers, HandlerActs(h)
  PROVE  UNCHANGED session \/ \A v \in Workers : pc[v] = "idle"
<1>1. CreateSession(h) => \A v \in Workers : pc[v] = "idle"
  BY DEF CreateSession, OneActor, Rest
<1>2. ResumeSession(h) \/ StopSession(h) => \A v \in Workers : pc[v] = "idle"
  BY DEF ResumeSession, StopSession, OneActor, Serious
<1>3. Cancel(h) => \A v \in Workers : pc[v] = "idle"
  BY DEF Cancel, Request, Busy
<1> QED
  BY <1>1, <1>2, <1>3
     DEF HandlerActs, HandlerStep, HandlerError, Operator, Resume, ApprovePlan, RevisePlan,
         Decide, ResolveBlocked, CreateTasks, AcquireSandbox, LaunchNew, Launch,
         CancelTheTasks, ResolveByArtifact, ResolveByApproval, SkipMetadata, SkipTask,
         StopTasks, dbVars

(* The tasks are cancelled after the session.                              *)
LEMMA CancelsLate ==
  ASSUME TypeInv, OneActor, Faults = {}, NEW h \in Handlers, HandlerActs(h),
         NEW g \in Handlers, hpc'[g] \in {"cancel_tasks", "stop_tasks"}
  PROVE  hpc[g] \in {"cancel_tasks", "stop_tasks"} \/ session' \in Terminal
<1> USE DEF TypeInv, TypeOK, LedgerOK, HandlersOK
<1>1. CASE CreateSession(h)
  BY <1>1 DEF CreateSession
<1>2. CASE Cancel(h)
  BY <1>2 DEF Cancel, Terminal
<1>3. CASE Operator(h) /\ ~ CreateSession(h) /\ ~ Cancel(h)
  <2>1. ASSUME g # h PROVE hpc'[g] = hpc[g]
    BY <1>3, <2>1, RequestActor DEF Operator, Resume, ApprovePlan, RevisePlan, Decide,
                                    ResolveBlocked, Request
  <2>2. hpc'[h] # "cancel_tasks" /\ hpc'[h] # "stop_tasks"
    <3> DEFINE Late == hpc'[h] \in {"cancel_tasks", "stop_tasks"}
    <3>1. Resume(h) => ~ Late
      BY DEF Resume, Request
    <3>2. ASSUME NEW p, ApprovePlan(h, p) \/ RevisePlan(h, p) PROVE ~ Late
      BY <3>2 DEF ApprovePlan, RevisePlan, Request
    <3>3. ASSUME NEW k, NEW a, Decide(h, k, a) PROVE ~ Late
      BY <3>3 DEF Decide, Request
    <3>4. ASSUME NEW k \in {"retry", "skip", "stop", "reject", "clarify"}, NEW i,
                 ResolveBlocked(h, k, i)
          PROVE  ~ Late
      <4>1. ResumeIfResolved(i) \subseteq {"idle", "resume"}
        BY DEF ResumeIfResolved
      <4>2. PICK p, m : /\ p \in {"idle", "resume", "skip", "stop_session"}
                        /\ Request(h, k, p, i, m)
        BY <3>4, <4>1 DEF ResolveBlocked
      <4> QED
        BY <4>2 DEF Request
    <3> HIDE DEF Late
    <3>5. ~ Late
      BY <1>3, <3>1, <3>2, <3>3, <3>4 DEF Operator
    <3> QED
      BY <3>5 DEF Late
  <2> QED
    BY <2>1, <2>2
<1>4. CASE StopSession(h)
  <2>1. session # "none"
    BY <1>4 DEF StopSession, OneActor, Rest
  <2> QED
    BY <1>4, <2>1 DEF StopSession, Terminal, Paused, SessionStatus
<1>5. CASE HandlerStep(h) /\ ~ StopSession(h)
  BY <1>5 DEF HandlerStep, CreateTasks, AcquireSandbox, LaunchNew, Launch,
              ResumeSession, CancelTheTasks, ResolveByArtifact, ResolveByApproval,
              SkipMetadata, SkipTask, StopTasks, ResumeIfResolved, Carry
<1>6. ~ HandlerError(h)
  BY DEF HandlerError
<1> QED
  BY <1>1, <1>2, <1>3, <1>4, <1>5, <1>6 DEF HandlerActs

LEMMA HandlerReview ==
  ASSUME TypeInv, OneActor, SessionInv, OrderInv, EndInv, ReviewInv,
         Faults = {}, Patient, "cancel" \notin Concurrent,
         session \in Terminal => UNCHANGED session,
         NEW h \in Handlers, HandlerActs(h)
  PROVE  ReviewInv'
<1>1. /\ session' \in Paused => session' = session
      /\ session' \in Terminal \/ session \notin Terminal
  BY HandlerSession DEF Paused
<1>2. UNCHANGED status \/ session \notin Paused
  <2>1. CreateTasks(h) => session \notin Paused
    BY DEF CreateTasks, SessionInv, AboutToLaunch, Paused
  <2>2. CancelTheTasks(h) \/ StopTasks(h) => session \notin Paused
    BY DEF CancelTheTasks, StopTasks, ReviewInv, Terminal, Paused
  <2>3. ~ SkipTask(h)
    BY DEF SkipTask, OrderInv, NoSkip
  <2> QED
    BY <2>1, <2>2, <2>3
       DEF HandlerActs, HandlerStep, HandlerError, Operator, CreateSession, Resume, Cancel,
           ApprovePlan, RevisePlan, Decide, ResolveBlocked, AcquireSandbox, LaunchNew, Launch,
           ResumeSession, ResolveByArtifact, ResolveByApproval, SkipMetadata, StopSession,
           dbVars
<1>3. ASSUME session' \in Paused
      PROVE  Explained' \/ \E v \in Workers : pc'[v] \in {"hold", "ask"}
  <2>1. session' = session /\ session \in Paused /\ status' = status
    BY <1>1, <1>2, <1>3
  <2>2. UNCHANGED workerVars
    BY <2>1, HandlerPCs DEF SessionInv, Paused
  <2>3. Explained => Explained'
    BY <2>1, HandlerActions DEF Explained, Explains
  <2> QED
    BY <2>1, <2>2, <2>3 DEF ReviewInv, workerVars
<1>4. ASSUME NEW v \in Workers PROVE ReviewOf(v)'
  <2>1. CASE pc[v] = "idle"
    <3>1. pc'[v] \in {"idle", "next"}
      BY <2>1, HandlerPCs DEF workerVars, TypeInv, TypeOK, WorkersOK
    <3> QED
      BY <3>1 DEF ReviewOf
  <2>2. CASE pc[v] # "idle"
    <3>1. session' = session /\ UNCHANGED workerVars
      BY <2>2, QuietSession, HandlerPCs DEF OneActor, Serious
    <3>2. pc[v] = "ask" => status' = status
      BY <1>2 DEF ReviewInv, ReviewOf, PausedStatus, Paused
    <3> QED
      BY <3>1, <3>2 DEF ReviewInv, ReviewOf, workerVars, PausedStatus, At
  <2> QED
    BY <2>1, <2>2
<1>5. \A g \in Handlers : hpc'[g] \in {"cancel_tasks", "stop_tasks"} => session' \in Terminal
  BY <1>1, CancelsLate DEF ReviewInv
<1> QED
  BY <1>3, <1>4, <1>5 DEF ReviewInv

LEMMA NextReview ==
  ASSUME Patient, "cancel" \notin Concurrent, "skip" \notin Requests, Faults = {}
  PROVE  TypeInv /\ OneActor /\ DriverInv /\ SessionInv /\ OrderInv /\ EndInv /\ ReviewInv
           /\ [Next]_vars => ReviewInv'
<1> SUFFICES ASSUME TypeInv, OneActor, DriverInv, SessionInv, OrderInv, EndInv, ReviewInv,
                    [Next]_vars
             PROVE  ReviewInv'
  OBVIOUS
<1>0. session \in Terminal => UNCHANGED session
  BY NextEnd
<1>1. ASSUME NEW w \in Workers, WorkerActs(w) PROVE ReviewInv'
  <2>1. /\ UNCHANGED hpc
        /\ \A v \in Workers : v # w => pc'[v] = "idle"
    BY <1>1, WorkerLocal DEF OneActor, handlerVars
  <2>2. ReviewOf(w)' /\ \A v \in Workers : v # w => ReviewOf(v)'
    BY <1>1, <2>1, WorkerReviewOf DEF ReviewInv, ReviewOf
  <2>3. session' \in Paused => Explained' \/ pc'[w] \in {"hold", "ask"}
    BY <1>1, WorkerExplains
  <2> QED
    BY <1>0, <2>1, <2>2, <2>3 DEF ReviewInv
<1>2. ASSUME NEW h \in Handlers, HandlerActs(h) PROVE ReviewInv'
  BY <1>0, <1>2, HandlerReview
<1>3. ~ Crash
  BY DEF Crash
<1>4. CASE UNCHANGED vars
  BY <1>4 DEF vars, dbVars, review, workerVars, handlerVars, ReviewInv, ReviewOf, Explained,
              Explains, PausedStatus, At
<1> QED
  BY <1>1, <1>2, <1>3, <1>4 DEF Next, WorkerActs, HandlerActs

(* A paused run has an action in the review queue whose task waits with it *)
(* and whose kind says for what, whoever decides, revises or resumes in    *)
(* between: the worker pauses the session before it sets the task and adds *)
(* the action (waitForPlanReview, SetTaskBlocked, blocked.Create), so this *)
(* asks that no store fails between them, and that the run is not          *)
(* cancelled under its worker.                                             *)
THEOREM ReviewableHolds ==
  ASSUME Patient, "cancel" \notin Concurrent, "skip" \notin Requests, Faults = {}
  PROVE  Spec => []Reviewable
<1>1. Init => ReviewInv
  BY DEF Init, ReviewInv, ReviewOf, Paused
<1>2. ReviewInv => Reviewable
  BY DEF ReviewInv, Reviewable, Explained, Explains, Busy
<1> QED
  BY <1>1, <1>2, TypeAlways, ActorAlways, DriverAlways, SessionAlways, OrderAlways, EndAlways,
     NextReview, PTL DEF Spec

-----------------------------------------------------------------------------
(* The plan gate.  A planner's task that was suspended must not look as if *)
(* only its checks were left (TakeTask): it has an answer of the model     *)
(* (preview) without a tool loop only while its plan is being written.     *)
Unread == meta[Planner].loop = "none" => ~ meta[Planner].preview
InReview == {"plan_review"} \union Terminal

Ahead(w) ==
  \/ pc[w] = "next" /\ At(w) <= Planner
  \/ pc[w] \in TaskPC /\ At(w) < Planner
Planning(w) == pc[w] \in TaskPC /\ At(w) = Planner
Pausing(w) == pc[w] \in {"pause", "hold", "ask"}
Written(w) ==
  /\ At(w) = Planner
  /\ pc[w] = "artifact" \/ (Pausing(w) /\ work[w].block = "plan")

GateOf(w) ==
  /\ pc[w] # "idle" => work[w].meta[Planner] = meta[Planner]
  /\ Ahead(w) =>
       /\ work[w].status[Planner] = "plan_review" => PlanApproved
       /\ work[w].status[Planner] \notin InReview => Unread
  /\ Planning(w) =>
       /\ pc[w] = "complete" => PlanApproved
       /\ pc[w] # "checks"
       /\ pc[w] \in {"start", "retake", "pending", "loop", "model"} => Unread
       /\ pc[w] \in {"pending", "loop", "model", "record", "artifact", "pause"}
            => status[Planner] # "plan_review"
       /\ Pausing(w) /\ work[w].block # "plan" => Unread
       /\ pc[w] = "ask" /\ work[w].block = "plan" => status[Planner] \in InReview
  /\ pc[w] = "artifact" => At(w) = Planner /\ work[w].block = "plan"
  /\ Pausing(w) /\ work[w].block = "plan" => At(w) = Planner
  /\ pc[w] = "hold" => session \in {PausedStatus(w), "cancelled"}

GateAt(h) ==
  /\ hpc[h] = "resolve_by_artifact" => PlanApproved
  /\ hpc[h] = "resume" /\ session \in Paused /\ status[Planner] = "plan_review"
       => PlanApproved
  /\ hpc[h] = "launch" /\ status[Planner] = "plan_review" => PlanApproved
  /\ hpc[h] = "stop_tasks" => session \notin Paused
  /\ Creating(h) => meta[Planner] = NoMeta

PlanInv ==
  /\ session = "none" => meta[Planner] = NoMeta
  /\ session = "blocked" => status[Planner] # "plan_review"
  /\ status[Planner] \notin InReview => Unread \/ \E w \in Workers : Written(w)

GateInv ==
  Planner \in Tasks =>
    /\ \A w \in Workers : GateOf(w)
    /\ \A h \in Handlers : GateAt(h)
    /\ PlanInv

(* What a worker makes of what it remembers of the plan.                   *)
LEMMA WorkerGateOf ==
  ASSUME TypeInv, OrderInv, Faults = {}, Planner \in Tasks, Planner \notin Checked,
         NEW w \in Workers, GateOf(w), WorkerActs(w)
  PROVE  GateOf(w)'
<1> USE DEF TypeInv, TypeOK, WorkersOK, LedgerOK, At, Goto, Ahead, Planning, Pausing, Unread,
            TaskPC, PlanApproved
<1>0. /\ Planner \in Int /\ work[w].at \in Int
      /\ pc[w] \in TaskPC => work[w].at \in Tasks
      /\ "store" \notin Faults
  BY WorkFields DEF Tasks, OnTask
<1>1. CASE SkipCompleted(w)
  <2>1. /\ pc[w] = "next" /\ pc' = pc /\ UNCHANGED << session, status, meta, plans, latest >>
        /\ work'[w].at = work[w].at + 1
        /\ work'[w].status = work[w].status /\ work'[w].meta = work[w].meta
    BY <1>1, WorkFields DEF SkipCompleted, AtTask, dbVars, review, Work
  <2> QED
    BY <1>0, <2>1 DEF GateOf
<1>2. CASE TakeTask(w)
  <2>1. /\ pc[w] = "next" /\ UNCHANGED << session, status, meta, plans, latest >>
        /\ work[w].at \in Tasks /\ work[w].status[work[w].at] \notin Terminal
        /\ \/ pc'[w] \in {"retake", "start"} /\ work[w].status[work[w].at] # "plan_review"
           \/ pc'[w] = "complete" /\ work[w].status[work[w].at] = "plan_review"
           \/ /\ pc'[w] = "checks" /\ work[w].status[work[w].at] # "plan_review"
              /\ work[w].meta[work[w].at].loop = "none" /\ work[w].meta[work[w].at].preview
        /\ work'[w].at = work[w].at
        /\ work'[w].status = work[w].status /\ work'[w].meta = work[w].meta
    BY <1>2, WorkFields DEF TakeTask, AtTask, Branch, dbVars, review, Work, Paused
  <2> QED
    BY <1>0, <2>1 DEF GateOf, InReview
<1>3. CASE StartTask(w)
  <2>1. /\ pc[w] \in {"start", "retake"} /\ UNCHANGED << session, meta, plans, latest, work >>
        /\ pc'[w] \in {"pending", "loop"}
        /\ status' = [status EXCEPT ![work[w].at] = "running"]
    BY <1>0, <1>3 DEF StartTask, Then, UpdateTaskStatus, review
  <2> QED
    BY <1>0, <2>1 DEF GateOf
<1>4. CASE CompleteTask(w)
  <2>1. /\ pc[w] = "complete" /\ UNCHANGED << session, meta, plans, latest >>
        /\ pc'[w] = "next" /\ work'[w].at = work[w].at + 1
        /\ work'[w].status = work[w].status /\ work'[w].meta = work[w].meta
    BY <1>0, <1>4, WorkFields DEF CompleteTask, review, Work
  <2> QED
    BY <1>0, <2>1 DEF GateOf, Tasks
<1>5. CASE ExecutePending(w)
  <2>1. PICK m : /\ m.loop = "prompt"
                 /\ meta' = [meta EXCEPT ![At(w)] = m]
                 /\ work' = [work EXCEPT ![w].meta[At(w)] = m]
                 /\ pc[w] = "pending" /\ pc'[w] = "loop"
                 /\ UNCHANGED << session, status, plans, latest >>
    <3>1. [work[w].meta[At(w)] EXCEPT !.loop = "prompt", !.ask = 0].loop = "prompt"
      BY <1>0, <1>5, WorkFields DEF ExecutePending, Meta
    <3> QED
      BY <1>0, <1>5, <3>1 DEF ExecutePending, UpdateTaskMetadata
  <2>2. /\ work'[w].at = work[w].at /\ work'[w].status = work[w].status
        /\ work'[w].meta = [work[w].meta EXCEPT ![At(w)] = m]
    BY <2>1, WorkFields DEF Work
  <2> QED
    BY <1>0, <2>1, <2>2, WorkFields DEF GateOf
<1>6. CASE SuspendLoop(w)
  <2> DEFINE m == [loop |-> "pending", ask |-> NewAsk, preview |-> TRUE]
  <2>0. m.loop = "pending"
    OBVIOUS
  <2> HIDE DEF m
  <2>1. /\ meta' = [meta EXCEPT ![At(w)] = m]
        /\ work' = [work EXCEPT ![w].meta[At(w)] = m, ![w].block = "approval",
                                ![w].ask = NewAsk]
        /\ pc[w] = "model" /\ pc'[w] = "pause"
        /\ UNCHANGED << session, status, plans, latest >>
    BY <1>6 DEF SuspendLoop, m
  <2>2. /\ work'[w].at = work[w].at /\ work'[w].status = work[w].status
        /\ work'[w].meta = [work[w].meta EXCEPT ![At(w)] = m]
        /\ work'[w].block = "approval"
    BY <2>1, WorkFields DEF Work
  <2> QED
    BY <1>0, <2>0, <2>1, <2>2, WorkFields DEF GateOf
<1>7. CASE Record(w)
  <2>1. PICK m : /\ meta' = [meta EXCEPT ![At(w)] = m]
                 /\ work' = [work EXCEPT ![w].meta[At(w)] = m, ![w].block = "plan",
                                         ![w].ask = 0]
                 /\ pc[w] = "record"
                 /\ pc'[w] = IF At(w) = Planner THEN "artifact" ELSE ChecksOrNot(w)
                 /\ UNCHANGED << session, status, plans, latest >>
    BY <1>7 DEF Record, review
  <2>2. /\ work'[w].at = work[w].at /\ work'[w].status = work[w].status
        /\ work'[w].meta = [work[w].meta EXCEPT ![At(w)] = m]
        /\ work'[w].block = "plan"
    BY <2>1, WorkFields DEF Work
  <2>3. \/ pc'[w] = "artifact" /\ work[w].at = Planner
        \/ pc'[w] \in {"checks", "complete"} /\ work[w].at # Planner
    BY <2>1 DEF ChecksOrNot, PlanOrComplete
  <2> QED
    BY <1>0, <2>1, <2>2, <2>3, WorkFields DEF GateOf
<1>8. CASE PlanArtifact(w)
  <2>1. /\ pc[w] = "artifact" /\ UNCHANGED << session, meta, status, work >>
        /\ pc'[w] = ChecksOrNot(w)
    BY <1>0, <1>8 DEF PlanArtifact, Then
  <2>2. work[w].at = Planner /\ work[w].block = "plan" /\ pc'[w] = "pause"
    BY <2>1 DEF GateOf, ChecksOrNot, PlanOrComplete
  <2> QED
    BY <1>0, <2>1, <2>2 DEF GateOf
<1>9. CASE Checks(w)
  <2>1. /\ pc[w] = "checks" /\ work[w].at # Planner
        /\ UNCHANGED << session, status, plans, latest, work >>
        /\ meta' = [meta EXCEPT ![At(w)] = work[w].meta[At(w)]]
        /\ pc'[w] = "complete"
    BY <1>9 DEF Checks, review, GateOf, PlanOrComplete
  <2> QED
    BY <1>0, <2>1 DEF GateOf
<1>10. CASE ChecksWait(w)
  <2>1. /\ pc[w] = "checks" /\ work[w].at # Planner
        /\ UNCHANGED << session, status, meta, plans, latest >>
        /\ pc'[w] = "pause" /\ work'[w].block = "approval"
        /\ work'[w].at = work[w].at /\ work'[w].status = work[w].status
        /\ work'[w].meta = work[w].meta
    BY <1>10, WorkFields DEF ChecksWait, GateOf, Work
  <2> QED
    BY <1>0, <2>1 DEF GateOf
<1>11. CASE StillPending(w)
  <2>1. /\ pc[w] = "pending" /\ UNCHANGED << session, status, plans, latest >>
        /\ meta' = [meta EXCEPT ![At(w)] = work[w].meta[At(w)]]
        /\ pc'[w] = "pause" /\ work'[w].block = "approval"
        /\ work'[w].at = work[w].at /\ work'[w].status = work[w].status
        /\ work'[w].meta = work[w].meta
    BY <1>11, WorkFields DEF StillPending, review, Work
  <2>2. meta'[Planner] = meta[Planner]
    BY <2>1 DEF GateOf
  <2> QED
    BY <1>0, <2>1, <2>2 DEF GateOf
<1>12. CASE Guardrail(w)
  <2>1. /\ pc[w] = "model" /\ UNCHANGED << session, status, meta, plans, latest >>
        /\ pc'[w] = "pause" /\ work'[w].block = "retry"
        /\ work'[w].at = work[w].at /\ work'[w].status = work[w].status
        /\ work'[w].meta = work[w].meta
    BY <1>12, WorkFields DEF Guardrail, dbVars, review, Work
  <2> QED
    BY <1>0, <2>1 DEF GateOf
<1>13. CASE Answer(w) \/ NextRound(w)
  <2>1. /\ pc[w] = "model" /\ UNCHANGED << session, status, meta, plans, latest >>
        /\ pc'[w] \in {"record", "loop"}
        /\ work'[w].at = work[w].at /\ work'[w].status = work[w].status
        /\ work'[w].meta = work[w].meta
    BY <1>13, WorkFields DEF Answer, NextRound, dbVars, review, Work
  <2> QED
    BY <1>0, <2>1 DEF GateOf
<1>14. CASE LoopCheck(w) \/ ModelFails(w)
  <2>1. /\ pc[w] \in {"loop", "model"}
        /\ UNCHANGED << session, status, meta, plans, latest, work >>
        /\ pc'[w] \in {"model", "fail", "error"}
        /\ pc'[w] = "model" => pc[w] = "loop"
    BY <1>14 DEF LoopCheck, ModelFails, OnError, dbVars, review
  <2> QED
    BY <1>0, <2>1 DEF GateOf
<1>15. CASE PauseSession(w)
  <2>1. /\ pc[w] = "pause" /\ UNCHANGED << status, meta, plans, latest, work >>
        /\ session' = PausedStatus(w) /\ pc'[w] = "hold"
    BY <1>15 DEF PauseSession, review
  <2> QED
    BY <1>0, <2>1 DEF GateOf, PausedStatus
<1>16. CASE SetTaskBlocked(w)
  <2>1. /\ pc[w] = "hold" /\ UNCHANGED << session, meta, plans, latest, work >>
        /\ pc'[w] = "ask" /\ status' = [status EXCEPT ![At(w)] = PausedStatus(w)]
    BY <1>16 DEF SetTaskBlocked, UpdateTaskStatus, review
  <2> QED
    BY <1>0, <2>1 DEF GateOf, PausedStatus, InReview
<1>17. CASE CreateBlocked(w)
  <2>1. /\ pc[w] = "ask" /\ UNCHANGED << session, status, plans, latest >>
        /\ UNCHANGED meta \/ meta' = [meta EXCEPT ![At(w)] = work[w].meta[At(w)]]
        /\ pc'[w] = "idle" \/ (pc'[w] \in {"fail", "error"} /\ work' = work)
    BY <1>0, <1>17 DEF CreateBlocked, OnError, Exit
  <2>2. meta'[Planner] = meta[Planner]
    BY <2>1 DEF GateOf
  <2> QED
    BY <1>0, <2>1, <2>2 DEF GateOf
<1>18. CASE MarkTaskFailed(w)
  <2>1. /\ pc[w] = "mark" /\ pc'[w] = "error" /\ work' = work
        /\ meta' = [meta EXCEPT ![At(w)] = work[w].meta[At(w)]]
    BY <1>18 DEF MarkTaskFailed
  <2>2. meta'[Planner] = meta[Planner]
    BY <2>1 DEF GateOf
  <2> QED
    BY <2>1, <2>2 DEF GateOf
<1>19. CASE \/ StopWorking(w) \/ FailCheck(w) \/ FailRun(w) \/ FailTasks(w)
            \/ FailSession(w) \/ ReleaseSandbox(w) \/ GiveUp(w) \/ FailRelease(w)
            \/ CompleteSession(w)
  <2>1. /\ UNCHANGED << meta, plans, latest >>
        /\ \/ pc'[w] = "idle"
           \/ pc'[w] \in {"error", "ledger", "close", "cleanup", "finish"} /\ work' = work
           \/ pc[w] = "fail" /\ pc'[w] = "mark" /\ work' = work
    BY <1>0, <1>19 DEF StopWorking, FailCheck, FailRun, FailTasks, FailSession, ReleaseSandbox,
                GiveUp, FailRelease, CompleteSession, Then, Exit, dbVars, review
  <2>2. pc[w] # "idle"
    BY WorkerLocal
  <2>3. pc'[w] # "idle" => work'[w] = work[w] /\ pc'[w] \notin {"next", "artifact", "pause", "hold", "ask"}
    BY <2>1
  <2>4. pc'[w] \in TaskPC => pc'[w] = "mark"
    BY <2>1
  <2> QED
    BY <2>1, <2>2, <2>3, <2>4 DEF GateOf
<1>20. ~ StoreError(w) /\ ~ Timeout(w)
  BY DEF StoreError, Timeout
<1> QED
  BY <1>1, <1>2, <1>3, <1>4, <1>5, <1>6, <1>7, <1>8, <1>9, <1>10, <1>11, <1>12, <1>13, <1>14,
     <1>15, <1>16, <1>17, <1>18, <1>19, <1>20 DEF WorkerActs, WorkerStep

(* A planner's task that is at work again has no unread answer.            *)
LEMMA WorkerUnread ==
  ASSUME TypeInv, Faults = {}, Planner \in Tasks, Planner \notin Checked,
         NEW w \in Workers, GateOf(w), WorkerActs(w),
         status[Planner] \notin InReview => Unread \/ Written(w),
         status'[Planner] \notin InReview
  PROVE  Unread' \/ Written(w)'
<1> USE DEF TypeInv, TypeOK, WorkersOK, LedgerOK, At, Goto, Unread
<1>1. CASE StartTask(w)
  <2>1. /\ pc[w] \in {"start", "retake"} /\ meta' = meta /\ work[w].at \in Tasks
        /\ status' = [status EXCEPT ![work[w].at] = "running"]
    BY <1>1 DEF StartTask, UpdateTaskStatus, OnTask, TaskPC
  <2> QED
    BY <2>1 DEF GateOf, Planning, TaskPC, Written, Pausing
<1>2. CASE ExecutePending(w)
  <2>1. PICK m : m.loop = "prompt" /\ meta' = [meta EXCEPT ![At(w)] = m]
    <3>1. work[w].at \in Tasks
      BY <1>2 DEF ExecutePending, OnTask, TaskPC
    <3>2. [work[w].meta[At(w)] EXCEPT !.loop = "prompt", !.ask = 0].loop = "prompt"
      BY <3>1, WorkFields DEF Meta
    <3> QED
      BY <1>2, <3>2 DEF ExecutePending, UpdateTaskMetadata
  <2>2. /\ pc[w] = "pending" /\ status' = status
    BY <1>2 DEF ExecutePending
  <2> QED
    BY <2>1, <2>2 DEF Written, Pausing
<1>3. CASE SuspendLoop(w)
  <2> DEFINE m == [loop |-> "pending", ask |-> NewAsk, preview |-> TRUE]
  <2>1. m.loop = "pending"
    OBVIOUS
  <2> HIDE DEF m
  <2>2. /\ pc[w] = "model" /\ status' = status /\ meta' = [meta EXCEPT ![At(w)] = m]
    BY <1>3 DEF SuspendLoop, m
  <2> QED
    BY <2>1, <2>2 DEF Written, Pausing
<1>4. CASE Record(w)
  <2>1. PICK m : /\ meta' = [meta EXCEPT ![At(w)] = m]
                 /\ work' = [work EXCEPT ![w].meta[At(w)] = m, ![w].block = "plan",
                                         ![w].ask = 0]
                 /\ pc[w] = "record" /\ status' = status
                 /\ At(w) = Planner => pc'[w] = "artifact"
    BY <1>4 DEF Record
  <2>2. work'[w].at = work[w].at
    BY <2>1, WorkFields DEF Work
  <2> QED
    BY <2>1, <2>2 DEF Written, Pausing
<1>5. CASE StillPending(w) \/ Checks(w)
  <2>1. /\ pc[w] \in {"pending", "checks"} /\ status' = status
        /\ meta' = [meta EXCEPT ![At(w)] = work[w].meta[At(w)]]
    BY <1>5 DEF StillPending, Checks
  <2> QED
    BY <2>1 DEF GateOf, Written, Pausing
<1>6. CASE MarkTaskFailed(w)
  <2>1. /\ pc[w] = "mark" /\ status' = [status EXCEPT ![At(w)] = "failed"]
        /\ meta' = [meta EXCEPT ![At(w)] = work[w].meta[At(w)]]
    BY <1>6 DEF MarkTaskFailed, UpdateTaskStatus
  <2>2. status'[Planner] = status[Planner]
    BY <2>1 DEF InReview, Terminal
  <2> QED
    BY <2>1, <2>2 DEF GateOf, Written, Pausing
<1>7. CASE CompleteTask(w)
  <2>1. /\ pc[w] = "complete" /\ status' = [status EXCEPT ![At(w)] = "completed"]
        /\ meta' = meta
    BY <1>7 DEF CompleteTask, UpdateTaskStatus
  <2>2. status'[Planner] = status[Planner]
    BY <2>1 DEF InReview, Terminal
  <2> QED
    BY <2>1, <2>2 DEF Written, Pausing
<1>8. CASE FailTasks(w)
  <2>1. status'[Planner] = status[Planner] /\ meta' = meta /\ pc[w] = "ledger"
    BY <1>8 DEF FailTasks, CompleteTasks, InReview, Terminal
  <2> QED
    BY <2>1 DEF Written, Pausing
<1>9. CASE PlanArtifact(w)
  <2>1. /\ pc[w] = "artifact" /\ UNCHANGED << meta, status, work >>
        /\ pc'[w] = ChecksOrNot(w)
    BY <1>9 DEF PlanArtifact, Then
  <2>2. At(w) = Planner /\ work[w].block = "plan"
    BY <2>1 DEF GateOf
  <2>3. pc'[w] = "pause"
    BY <2>1, <2>2 DEF ChecksOrNot, PlanOrComplete
  <2> QED
    BY <2>1, <2>2, <2>3 DEF Written, Pausing
<1>10. CASE PauseSession(w)
  BY <1>10 DEF PauseSession, Written, Pausing
<1>11. CASE SetTaskBlocked(w)
  <2>1. /\ pc[w] = "hold" /\ pc'[w] = "ask" /\ UNCHANGED << meta, work >>
        /\ status' = [status EXCEPT ![At(w)] = PausedStatus(w)]
    BY <1>11 DEF SetTaskBlocked, UpdateTaskStatus
  <2>2. CASE work[w].block = "plan"
    BY <2>1, <2>2 DEF GateOf, Written, Pausing
  <2>3. CASE work[w].block # "plan" /\ At(w) = Planner
    BY <2>1, <2>3 DEF GateOf, Planning, Pausing, TaskPC
  <2>4. CASE work[w].block # "plan" /\ At(w) # Planner
    BY <2>1, <2>4 DEF Written
  <2> QED
    BY <2>2, <2>3, <2>4
<1>12. CASE CreateBlocked(w)
  <2>1. /\ pc[w] = "ask" /\ status' = status
        /\ UNCHANGED meta \/ meta' = [meta EXCEPT ![At(w)] = work[w].meta[At(w)]]
    BY <1>12 DEF CreateBlocked
  <2>2. ~ Written(w)
    BY <2>1 DEF GateOf, Written, Planning, Pausing, TaskPC
  <2> QED
    BY <2>1, <2>2 DEF GateOf
<1>13. CASE \/ SkipCompleted(w) \/ StopWorking(w) \/ TakeTask(w) \/ LoopCheck(w) \/ Answer(w)
            \/ NextRound(w) \/ Guardrail(w) \/ ModelFails(w) \/ ChecksWait(w) \/ FailCheck(w)
            \/ GiveUp(w) \/ FailRun(w) \/ FailSession(w) \/ FailRelease(w) \/ ReleaseSandbox(w)
            \/ CompleteSession(w)
  <2>1. /\ UNCHANGED << status, meta >>
        /\ pc[w] \notin {"artifact", "pause", "hold", "ask"}
    BY <1>13 DEF SkipCompleted, StopWorking, TakeTask, LoopCheck, Answer, NextRound, Guardrail,
                 ModelFails, ChecksWait, FailCheck, GiveUp, FailRun, FailSession, FailRelease,
                 ReleaseSandbox, CompleteSession, AtTask, dbVars
  <2> QED
    BY <2>1 DEF Written, Pausing
<1>14. ~ StoreError(w) /\ ~ Timeout(w)
  BY DEF StoreError, Timeout
<1> QED
  BY <1>1, <1>2, <1>3, <1>4, <1>5, <1>6, <1>7, <1>8, <1>9, <1>10, <1>11, <1>12, <1>13, <1>14
     DEF WorkerActs, WorkerStep

LEMMA WorkerGate ==
  ASSUME TypeInv, OneActor, OrderInv, Faults = {}, Planner \in Tasks, Planner \notin Checked,
         GateInv, NEW w \in Workers, WorkerActs(w)
  PROVE  GateInv'
<1>1. /\ pc[w] # "idle" /\ UNCHANGED hpc
      /\ \A v \in Workers : v # w => pc[v] = "idle" /\ pc'[v] = "idle"
      /\ \A h \in Handlers : ~ Serious(h)
  BY WorkerLocal DEF OneActor, handlerVars
<1>2. \A v \in Workers : GateOf(v)'
  <2>1. GateOf(w)'
    BY WorkerGateOf DEF GateInv
  <2>2. \A v \in Workers : v # w => GateOf(v)'
    BY <1>1 DEF GateOf, Ahead, Planning, Pausing, TaskPC
  <2> QED
    BY <2>1, <2>2
<1>3. \A h \in Handlers : GateAt(h)'
  BY <1>1 DEF GateAt, Serious, Creating
<1>4. session' # "none"
  BY <1>1, WorkerSession DEF OneActor, Rest, Paused
<1>5. session' = "blocked" => status'[Planner] # "plan_review"
  <2>1. ASSUME SetTaskBlocked(w), session' = "blocked"
        PROVE  status'[Planner] # "plan_review"
    BY <2>1 DEF SetTaskBlocked, UpdateTaskStatus, GateInv, GateOf, PausedStatus, PlanInv,
                TypeInv, TypeOK, LedgerOK
  <2>2. ASSUME ~ SetTaskBlocked(w), status'[Planner] = "plan_review"
        PROVE  status[Planner] = "plan_review"
    BY <2>2
       DEF TypeInv, TypeOK, LedgerOK, WorkerActs, WorkerStep, StoreError, Timeout, dbVars,
           UpdateTaskStatus, CompleteTasks,
           SkipCompleted, StopWorking, TakeTask, StartTask, ExecutePending,
           StillPending, LoopCheck, Answer, NextRound, SuspendLoop, Guardrail,
           ModelFails, Record, PlanArtifact, Checks, ChecksWait, CompleteTask,
           PauseSession, CreateBlocked, FailCheck, MarkTaskFailed,
           GiveUp, FailRun, FailTasks, FailSession, FailRelease, ReleaseSandbox,
           CompleteSession
  <2>3. ASSUME pc[w] = "pause" PROVE status[Planner] # "plan_review"
    <3>1. /\ At(w) \in Tasks /\ InHand(w) /\ status[At(w)] # "completed"
      BY <2>3 DEF TypeInv, OnTask, TaskPC, InHand, OrderInv, Progress
    <3>2. CASE At(w) = Planner
      BY <2>3, <3>2 DEF GateInv, GateOf, Planning, TaskPC
    <3>3. CASE At(w) # Planner
      BY <3>1, <3>3, OthersDoNotWait DEF Paused
    <3> QED
      BY <3>2, <3>3
  <2> QED
    BY <2>1, <2>2, <2>3, WorkerSession DEF GateInv, PlanInv
<1>6. status'[Planner] \notin InReview => Unread' \/ \E v \in Workers : Written(v)'
  <2>1. \A v \in Workers : Written(v) => v = w
    BY <1>1 DEF Written, Pausing
  <2>2. status[Planner] \notin InReview => Unread \/ Written(w)
    BY <2>1 DEF GateInv, PlanInv
  <2> QED
    BY <2>2, WorkerUnread DEF GateInv
<1> QED
  BY <1>2, <1>3, <1>4, <1>5, <1>6 DEF GateInv, PlanInv

(* Requests that may race with the worker without touching its plan, and   *)
(* those by which a decided action is decided again.                       *)
PlanSafe == Concurrent \subseteq {"cancel", "grant", "deny"}
DecidedOnce == Requests \intersect {"retry", "skip", "reject", "clarify"} = {}

(* To cancel, the run or its tasks, leaves the gate as it is.              *)
LEMMA GateKept ==
  ASSUME TypeInv, Planner \in Tasks, UNCHANGED << meta, plans, latest, workerVars >>,
         status'[Planner] \in {status[Planner], "cancelled"},
         session' \in {session, "cancelled"}
  PROVE  /\ \A v \in Workers : GateOf(v) => GateOf(v)'
         /\ PlanInv => PlanInv'
         /\ \A g \in Handlers : GateAt(g) /\ hpc'[g] = hpc[g] => GateAt(g)'
<1>1. ASSUME NEW v \in Workers, GateOf(v) PROVE GateOf(v)'
  <2>1. pc'[v] = pc[v] /\ work'[v] = work[v] /\ meta' = meta /\ plans' = plans /\ latest' = latest
    BY DEF workerVars
  <2> QED
    BY <1>1, <2>1 DEF GateOf, Ahead, Planning, Pausing, Unread, PlanApproved, InReview, Terminal,
                      PausedStatus, At
<1>2. PlanInv => PlanInv'
  <2>1. \A v \in Workers : Written(v)' <=> Written(v)
    BY DEF Written, Pausing, At, workerVars
  <2> QED
    BY <2>1 DEF PlanInv, Unread, InReview, Terminal
<1>3. \A g \in Handlers : GateAt(g) /\ hpc'[g] = hpc[g] => GateAt(g)'
  BY DEF GateAt, Creating, PlanApproved, Paused
<1> QED
  BY <1>1, <1>2, <1>3

LEMMA AtRest ==
  ASSUME \A v \in Workers : pc'[v] = "idle"
  PROVE  \A v \in Workers : GateOf(v)' /\ ~ Written(v)'
BY DEF GateOf, Written, Ahead, Planning, Pausing, TaskPC

LEMMA LaunchGate ==
  ASSUME TypeInv, OneActor, Planner \in Tasks, GateInv,
         NEW h \in Handlers, LaunchNew(h) \/ Launch(h)
  PROVE  GateInv'
<1> USE DEF TypeInv, TypeOK, LedgerOK, WorkersOK, HandlersOK
<1>1. /\ UNCHANGED << session, status, meta, plans, latest >>
      /\ hpc' = [hpc EXCEPT ![h] = "idle"]
      /\ \A v \in Workers : pc[v] = "idle"
  BY DEF LaunchNew, Launch, Carry, dbVars, review, OneActor, Serious
<1>2. status[Planner] \notin InReview => Unread
  BY <1>1 DEF GateInv, PlanInv, Written, Pausing
<1>3. PICK w, s, m : /\ w \in Workers /\ StartRunWorker(w, s, m)
                     /\ s[Planner] = "plan_review" => PlanApproved
                     /\ s[Planner] \notin InReview => Unread
                     /\ m[Planner] = meta[Planner]
  <2>1. CASE Launch(h)
    BY <1>2, <2>1 DEF Launch, GateInv, GateAt
  <2>2. CASE LaunchNew(h)
    <3>1. PICK w \in Workers :
            StartRunWorker(w, [t \in Tasks |-> "queued"], [t \in Tasks |-> NoMeta])
      BY <2>2 DEF LaunchNew
    <3>2. meta[Planner] = NoMeta
      BY <2>2 DEF LaunchNew, GateInv, GateAt, Creating
    <3>3. /\ [t \in Tasks |-> "queued"][Planner] = "queued"
          /\ [t \in Tasks |-> NoMeta][Planner] = NoMeta
      OBVIOUS
    <3>4. Unread
      BY <3>2 DEF Unread, NoMeta
    <3> QED
      BY <3>1, <3>2, <3>3, <3>4
  <2> QED
    BY <2>1, <2>2
<1>4. /\ pc'[w] = "next" /\ work'[w].status = s /\ work'[w].meta = m
      /\ \A v \in Workers : v # w => pc'[v] = "idle"
  BY <1>1, <1>3 DEF StartRunWorker, NoWork
<1>5. GateOf(w)'
  BY <1>1, <1>3, <1>4 DEF GateOf, Ahead, Planning, Pausing, TaskPC, Unread, PlanApproved
<1>6. \A v \in Workers : v # w => GateOf(v)'
  BY <1>4 DEF GateOf, Ahead, Planning, Pausing, TaskPC
<1>7. \A g \in Handlers : GateAt(g)'
  BY <1>1 DEF GateInv, GateAt, Creating, PlanApproved
<1>8. PlanInv'
  BY <1>1, <1>2 DEF GateInv, PlanInv, Unread
<1> QED
  BY <1>5, <1>6, <1>7, <1>8 DEF GateInv

(* The requests. *)
LEMMA RequestGate ==
  ASSUME TypeInv, OneActor, Planner \in Tasks, PlanSafe, DecidedOnce,
         GateInv, NEW h \in Handlers, Operator(h)
  PROVE  GateInv'
<1> USE DEF TypeInv, TypeOK, LedgerOK, HandlersOK
<1>1. CASE CreateSession(h)
  <2>1. /\ Rest /\ session' = "running" /\ meta[Planner] = NoMeta
        /\ UNCHANGED << status, meta, workerVars >>
    BY <1>1 DEF CreateSession, OneActor, GateInv, PlanInv
  <2>2. \A g \in Handlers : GateAt(g)'
    BY <1>1, <2>1 DEF CreateSession, Rest, GateAt, Creating
  <2>3. Unread
    BY <2>1 DEF Unread, NoMeta
  <2> QED
    BY <2>1, <2>2, <2>3, AtRest DEF Rest, workerVars, GateInv, PlanInv, Unread
<1>2. ASSUME NEW p \in DOMAIN plans, ApprovePlan(h, p) \/ RevisePlan(h, p) PROVE GateInv'
  <2>1. /\ Rest /\ UNCHANGED << session, status, meta, workerVars >>
    BY <1>2 DEF ApprovePlan, RevisePlan, Request, PlanSafe, Busy, Rest
  <2>2. \A g \in Handlers : g # h => hpc'[g] = "idle"
    BY <1>2, <2>1 DEF ApprovePlan, RevisePlan, Request, Rest
  <2>3. hpc'[h] = "idle" \/ (hpc'[h] = "resolve_by_artifact" /\ PlanApproved')
    <3>1. CASE ApprovePlan(h, p)
      <4>1. p # 0 /\ plans \in Seq({"draft", "revised", "approved"})
        BY DEF ReviewOK
      <4>2. plans' = [plans EXCEPT ![p] = "approved"] /\ latest' = p
        BY <3>1 DEF ApprovePlan
      <4>3. plans'[p] = "approved"
        BY <4>1, <4>2
      <4> QED
        BY <3>1, <4>1, <4>2, <4>3 DEF ApprovePlan, Request, PlanApproved
    <3>2. CASE RevisePlan(h, p)
      BY <3>2 DEF RevisePlan, Request
    <3> QED
      BY <1>2, <3>1, <3>2
  <2>4. \A g \in Handlers : GateAt(g)'
    BY <2>2, <2>3 DEF GateAt, Creating
  <2>5. status[Planner] \notin InReview => Unread
    BY <2>1 DEF Rest, GateInv, PlanInv, Written, Pausing
  <2> QED
    BY <2>1, <2>4, <2>5, AtRest DEF Rest, workerVars, GateInv, PlanInv, Unread
<1>3. ASSUME /\ UNCHANGED << status, meta, plans, latest, workerVars >>
             /\ session' \in {session, "cancelled"}
             /\ \A g \in Handlers : g # h => hpc'[g] = hpc[g]
             /\ GateAt(h)'
      PROVE  GateInv'
  BY <1>3, GateKept DEF GateInv
<1>4. CASE Cancel(h)
  BY <1>3, <1>4 DEF Cancel, Request, review, GateAt, Creating
<1>5. CASE Resume(h)
  <2>1. /\ UNCHANGED << session, status, meta, plans, latest, workerVars >>
        /\ \A g \in Handlers : g # h => hpc'[g] = hpc[g]
        /\ hpc'[h] = "resume"
        /\ session = "plan_review" => PlanApproved
    BY <1>5 DEF Resume, Request, dbVars, review
  <2>2. GateAt(h)'
    BY <2>1 DEF GateAt, Creating, GateInv, PlanInv, Paused, PlanApproved
  <2> QED
    BY <1>3, <2>1, <2>2
<1>6. ASSUME NEW a \in DOMAIN approvals, Decide(h, "grant", a) \/ Decide(h, "deny", a)
      PROVE  GateInv'
  BY <1>3, <1>6 DEF Decide, Request, GateAt, Creating
<1>7. ASSUME NEW i \in DOMAIN actions,
             NEW k \in {"retry", "skip", "stop", "reject", "clarify"},
             ResolveBlocked(h, k, i)
      PROVE  GateInv'
  <2>1. k = "stop"
    BY <1>7 DEF ResolveBlocked, Request, DecidedOnce
  <2>2. /\ UNCHANGED << session, status, meta, plans, latest, workerVars >>
        /\ \A g \in Handlers : g # h => hpc'[g] = hpc[g]
        /\ hpc'[h] = "stop_session"
    BY <1>7, <2>1 DEF ResolveBlocked, Request
  <2>3. GateAt(h)'
    BY <2>2 DEF GateAt, Creating
  <2> QED
    BY <1>3, <2>2, <2>3
<1> QED
  BY <1>1, <1>2, <1>4, <1>5, <1>6, <1>7 DEF Operator

(* What is under way. *)
LEMMA StepGate ==
  ASSUME TypeInv, OneActor, SessionInv, OrderInv, Planner \in Tasks,
         GateInv, NEW h \in Handlers, HandlerStep(h)
  PROVE  GateInv'
<1> USE DEF TypeInv, TypeOK, LedgerOK, HandlersOK
<1>1. CASE LaunchNew(h) \/ Launch(h)
  BY <1>1, LaunchGate
<1>2. CASE CreateTasks(h)
  <2>1. /\ \A v \in Workers : pc'[v] = "idle"
        /\ \A g \in Handlers : g # h => ~ Serious(g)'
        /\ hpc'[h] = "acquire" /\ meta'[Planner] = NoMeta
        /\ session' = session /\ session \in {"running", "cancelled"}
    BY <1>2 DEF CreateTasks, Carry, OneActor, Serious, SessionInv, AboutToLaunch, workerVars,
                GateInv, GateAt, Creating
  <2>2. \A g \in Handlers : GateAt(g)'
    BY <2>1 DEF GateAt, Serious, Creating
  <2>3. Unread'
    BY <2>1 DEF Unread, NoMeta
  <2> QED
    BY <2>1, <2>2, <2>3, AtRest DEF GateInv, PlanInv
<1>3. CASE ResumeSession(h)
  <2>1. /\ \A v \in Workers : pc[v] = "idle" /\ pc'[v] = "idle"
        /\ \A g \in Handlers : g # h => ~ Serious(g)'
        /\ UNCHANGED << status, meta, plans, latest >>
        /\ \/ hpc'[h] = "idle"
           \/ hpc'[h] = "launch" /\ session \in Paused
        /\ session' \in {session, "running"} /\ hpc[h] = "resume"
    BY <1>3 DEF ResumeSession, Carry, OneActor, Serious, workerVars, review
  <2>2. \A g \in Handlers : GateAt(g)'
    BY <2>1 DEF GateAt, Serious, Creating, GateInv, PlanApproved
  <2>3. status[Planner] \notin InReview => Unread
    BY <2>1 DEF GateInv, PlanInv, Written, Pausing
  <2> QED
    BY <2>1, <2>2, <2>3, AtRest DEF GateInv, PlanInv, Unread
<1>4. ~ SkipMetadata(h) /\ ~ SkipTask(h)
  BY DEF SkipMetadata, SkipTask, OrderInv, NoSkip
<1>5. CASE \/ AcquireSandbox(h) \/ CancelTheTasks(h) \/ ResolveByArtifact(h)
           \/ ResolveByApproval(h) \/ StopSession(h) \/ StopTasks(h)
  <2>1. /\ UNCHANGED << meta, plans, latest, workerVars >>
        /\ status'[Planner] \in {status[Planner], "cancelled"}
        /\ session' \in {session, "cancelled"}
        /\ \A g \in Handlers : g # h => hpc'[g] = hpc[g]
    BY <1>5 DEF AcquireSandbox, CancelTheTasks, ResolveByArtifact, ResolveByApproval,
                StopSession, StopTasks, CancelTasks, Carry, review
  <2>2. GateAt(h)'
    <3>1. CASE AcquireSandbox(h)
      BY <3>1 DEF AcquireSandbox, Carry, GateInv, GateAt, Creating
    <3>2. CASE CancelTheTasks(h) \/ ResolveByApproval(h)
      BY <3>2 DEF CancelTheTasks, ResolveByApproval, Carry, GateAt, Creating
    <3>3. CASE ResolveByArtifact(h)
      BY <3>3 DEF ResolveByArtifact, Carry, GateInv, GateAt, Creating, PlanApproved
    <3>4. CASE StopSession(h)
      BY <3>4 DEF StopSession, Carry, GateAt, Creating, Paused
    <3>5. CASE StopTasks(h)
      BY <3>5 DEF StopTasks, Carry, ResumeIfResolved, GateInv, GateAt, Creating
    <3> QED
      BY <1>5, <3>1, <3>2, <3>3, <3>4, <3>5
  <2> QED
    BY <2>1, <2>2, GateKept DEF GateInv
<1> QED
  BY <1>1, <1>2, <1>3, <1>4, <1>5 DEF HandlerStep

LEMMA NextGate ==
  ASSUME PlanSafe, DecidedOnce, Faults = {}, Planner \notin Checked
  PROVE  TypeInv /\ OneActor /\ SessionInv /\ OrderInv /\ GateInv /\ [Next]_vars => GateInv'
<1> SUFFICES ASSUME TypeInv, OneActor, SessionInv, OrderInv, GateInv, [Next]_vars,
                    Planner \in Tasks
             PROVE  GateInv'
  BY DEF GateInv
<1>1. \A w \in Workers : WorkerActs(w) => GateInv'
  BY WorkerGate
<1>2. \A h \in Handlers : Operator(h) \/ HandlerStep(h) => GateInv'
  BY RequestGate, StepGate
<1>3. ~ Crash /\ \A h \in Handlers : ~ HandlerError(h)
  BY DEF Crash, HandlerError
<1>4. CASE UNCHANGED vars
  BY <1>4, GateKept DEF vars, dbVars, review, workerVars, handlerVars, GateInv
<1> QED
  BY <1>1, <1>2, <1>3, <1>4 DEF Next, WorkerActs

(* Only the end of a task's work completes it.                             *)
LEMMA CompletedBy ==
  ASSUME TypeInv, OrderInv, [Next]_vars, NEW t \in Tasks,
         status[t] # "completed", status'[t] = "completed"
  PROVE  \E w \in Workers : pc[w] = "complete" /\ At(w) = t
<1> USE DEF TypeInv, TypeOK, LedgerOK
<1>1. ASSUME NEW w \in Workers, WorkerActs(w)
      PROVE  pc[w] = "complete" /\ At(w) = t
  BY <1>1, WorkerStatus DEF KeepsDone
<1>2. ASSUME NEW h \in Handlers, HandlerActs(h) PROVE FALSE
  BY <1>2, HandlerKeepsDone DEF KeepsDone
<1>3. CASE Crash \/ UNCHANGED vars
  BY <1>3 DEF Crash, vars, dbVars
<1> QED
  BY <1>1, <1>2, <1>3 DEF Next, WorkerActs, HandlerActs

(* The planner's task is completed only with an approved plan: resume asks *)
(* for it, approve is the only other way on, and what waits for something  *)
(* else is not under review (sessionResumeHandler,                         *)
(* sessionPlanApproveHandler, executeWorkspaceSession).  It takes an       *)
(* operator who decides an action once and a planner without checks: both  *)
(* gaps are findings.                                                      *)
THEOREM PlanGateHolds ==
  ASSUME PlanSafe, DecidedOnce, Faults = {}, Planner \notin Checked
  PROVE  Spec => PlanGate
<1>1. Patient /\ "skip" \notin Requests
  BY DEF Patient, Gentle, PlanSafe, DecidedOnce
<1>2. Init => GateInv
  BY DEF Init, GateInv, GateOf, GateAt, PlanInv, Ahead, Planning, Pausing, TaskPC, Creating,
         Unread, NoMeta
<1>3. Spec => []GateInv
  BY <1>1, <1>2, TypeAlways, ActorAlways, SessionAlways, OrderAlways, NextGate, PTL DEF Spec
<1>4. TypeInv /\ OrderInv /\ GateInv /\ [Next]_vars =>
        [\A t \in Tasks : t = Planner /\ status[t] # "completed"
                           /\ status'[t] = "completed" => PlanApproved]_vars
  <2>1. SUFFICES ASSUME TypeInv, OrderInv, GateInv, [Next]_vars, Planner \in Tasks,
                        status[Planner] # "completed", status'[Planner] = "completed"
                 PROVE  PlanApproved
    OBVIOUS
  <2>2. PICK w \in Workers : pc[w] = "complete" /\ At(w) = Planner
    BY <2>1, CompletedBy
  <2> QED
    BY <2>1, <2>2 DEF GateInv, GateOf, Planning, TaskPC
<1> QED
  BY <1>1, <1>3, <1>4, TypeAlways, OrderAlways, PTL DEF Spec, PlanGate

-----------------------------------------------------------------------------
(* The run as RunLifecycle sees it.  A worker that closes a run as failed  *)
(* has seen it running, and it still is.                                   *)
CloseInv == \A w \in Workers : pc[w] \in {"ledger", "close"} => session = "running"

LEMMA NextClose ==
  ASSUME Patient, "cancel" \notin Concurrent, "store" \notin Faults
  PROVE  TypeInv /\ OneActor /\ SessionInv /\ CloseInv /\ [Next]_vars => CloseInv'
<1> SUFFICES ASSUME TypeInv, OneActor, SessionInv, CloseInv, [Next]_vars PROVE CloseInv'
  OBVIOUS
<1>1. ASSUME NEW w \in Workers, WorkerActs(w) PROVE CloseInv'
  <2>1. \A v \in Workers : v # w => pc'[v] = "idle"
    BY <1>1, WorkerLocal DEF OneActor
  <2>2. FailRun(w) => session' = session /\ session = "running"
    BY DEF FailRun, dbVars, SessionInv
  <2>3. FailTasks(w) => session' = session /\ session = "running"
    BY DEF FailTasks, CloseInv
  <2> QED
    BY <1>1, <2>1, <2>2, <2>3, WorkerTurns DEF CloseInv
<1>2. ASSUME NEW h \in Handlers, HandlerActs(h) PROVE CloseInv'
  <2>1. ASSUME NEW v \in Workers, pc'[v] \in {"ledger", "close"} PROVE session' = "running"
    <3>1. pc'[v] = pc[v]
      BY <1>2, <2>1, HandlerPCs DEF workerVars, TypeInv, TypeOK, WorkersOK
    <3> QED
      BY <1>2, <2>1, <3>1, QuietSession DEF CloseInv
  <2> QED
    BY <2>1 DEF CloseInv
<1>3. CASE Crash \/ UNCHANGED vars
  BY <1>3 DEF Crash, vars, dbVars, workerVars, CloseInv
<1> QED
  BY <1>1, <1>2, <1>3 DEF Next, WorkerActs, HandlerActs

LEMMA CloseAlways ==
  ASSUME Patient, "cancel" \notin Concurrent, "store" \notin Faults
  PROVE  Spec => []CloseInv
<1>1. Init => CloseInv
  BY DEF Init, CloseInv
<1> QED
  BY <1>1, TypeAlways, ActorAlways, SessionAlways, NextClose, PTL DEF Spec

DoneTasks == {t \in Tasks : status[t] = "completed"}

LEMMA DoneCount ==
  /\ Cardinality(DoneTasks) \in Nat
  /\ AllDone => Cardinality(DoneTasks) = N
  /\ \A t \in Tasks \ DoneTasks :
       /\ Cardinality(DoneTasks \union {t}) = Cardinality(DoneTasks) + 1
       /\ Cardinality(DoneTasks) < N
<1>1. IsFiniteSet(Tasks) /\ Cardinality(Tasks) = N
  BY NAssumption, FS_Interval DEF Tasks
<1>2. IsFiniteSet(DoneTasks) /\ Cardinality(DoneTasks) <= N
  BY <1>1, FS_Subset DEF DoneTasks
<1>3. Cardinality(DoneTasks) \in Nat
  BY <1>2, FS_CardinalityType
<1>4. AllDone => DoneTasks = Tasks
  BY DEF AllDone, DoneTasks
<1>5. ASSUME NEW t \in Tasks \ DoneTasks
      PROVE  /\ Cardinality(DoneTasks \union {t}) = Cardinality(DoneTasks) + 1
             /\ Cardinality(DoneTasks) < N
  <2>1. Cardinality(DoneTasks \union {t}) = Cardinality(DoneTasks) + 1
    BY <1>2, <1>5, FS_AddElement
  <2>2. DoneTasks \union {t} \in SUBSET Tasks
    BY <1>5 DEF DoneTasks
  <2>3. Cardinality(DoneTasks \union {t}) <= Cardinality(Tasks)
    BY <1>1, <2>2, FS_Subset
  <2> QED
    BY <1>1, <1>3, <2>1, <2>3, NAssumption
<1> QED
  BY <1>1, <1>3, <1>4, <1>5

(* What a step does to the tasks that are complete, and to the session.    *)
LifeInv == TypeInv /\ OneActor /\ DriverInv /\ SessionInv /\ OrderInv /\ EndInv /\ DoneInv
           /\ CloseInv

LEMMA WorkerLife ==
  ASSUME LifeInv, "store" \notin Faults, NEW w \in Workers, WorkerActs(w)
  PROVE  \/ /\ DoneTasks' = DoneTasks
            /\ \/ UNCHANGED session
               \/ session = "running" /\ session' \in Paused
               \/ session = "running" /\ session' = "failed"
               \/ session = "running" /\ session' = "completed" /\ AllDone
         \/ /\ session = "running" /\ UNCHANGED session
            /\ \E t \in Tasks \ DoneTasks : DoneTasks' = DoneTasks \union {t}
<1> USE DEF LifeInv, TypeInv, TypeOK, LedgerOK
<1>1. CASE CompleteTask(w)
  <2>1. /\ pc[w] = "complete" /\ session' = session
        /\ At(w) \in Tasks /\ status[At(w)] # "completed"
        /\ status' = [status EXCEPT ![At(w)] = "completed"]
    BY <1>1 DEF CompleteTask, UpdateTaskStatus, OnTask, TaskPC, OrderInv, Progress, InHand
  <2>2. session = "running"
    BY <2>1 DEF SessionInv, DriverInv, OneDriver, Driving, EndInv, Terminal
  <2>3. DoneTasks' = DoneTasks \union {At(w)} /\ At(w) \in Tasks \ DoneTasks
    BY <2>1 DEF DoneTasks
  <2> QED
    BY <2>1, <2>2, <2>3
<1>2. CASE ~ CompleteTask(w)
  <2>1. DoneTasks' = DoneTasks
    <3>1. CASE KeepsDone
      BY <3>1 DEF KeepsDone, DoneTasks
    <3>2. CASE /\ pc[w] \in TaskPC
               /\ \A t \in Tasks : t # At(w) => status'[t] = status[t]
               /\ status'[At(w)] = "completed" => pc[w] = "complete"
      <4>1. status[At(w)] # "completed" /\ At(w) \in Tasks
        BY <3>2 DEF OnTask, OrderInv, Progress, InHand
      <4>2. pc[w] = "complete" => status' = status
        BY <1>2
           DEF WorkerActs, WorkerStep, StoreError, Timeout, dbVars, AtTask,
               SkipCompleted, StopWorking, TakeTask, StartTask, ExecutePending,
               StillPending, LoopCheck, Answer, NextRound, SuspendLoop, Guardrail,
               ModelFails, Record, PlanArtifact, Checks, ChecksWait,
               PauseSession, SetTaskBlocked, CreateBlocked, FailCheck, MarkTaskFailed,
               GiveUp, FailRun, FailTasks, FailSession, FailRelease, ReleaseSandbox,
               CompleteSession
      <4> QED
        BY <3>2, <4>1, <4>2 DEF DoneTasks
    <3> QED
      BY <3>1, <3>2, WorkerStatus
  <2>2. pc[w] \in {"pause", "finish"} => session = "running"
    BY DEF SessionInv, DriverInv, OneDriver, Driving, EndInv, Terminal
  <2>3. pc[w] = "finish" => AllDone
    BY DEF DoneInv
  <2>4. pc[w] = "close" => session = "running"
    BY DEF CloseInv
  <2> QED
    BY <2>1, <2>2, <2>3, <2>4, WorkerSession
<1> QED
  BY <1>1, <1>2

LEMMA HandlerLife ==
  ASSUME LifeInv, NEW h \in Handlers, HandlerActs(h)
  PROVE  /\ DoneTasks' = DoneTasks
         /\ \/ UNCHANGED session
            \/ session \in Paused \union {"running"} /\ session' = "cancelled"
            \/ session \in Paused \union {"none"} /\ session' = "running"
<1>1. KeepsDone
  BY HandlerKeepsDone DEF LifeInv
<1> QED
  BY <1>1, HandlerSession DEF LifeInv, KeepsDone, DoneTasks

LEMMA NextLife ==
  ASSUME "store" \notin Faults
  PROVE  LifeInv /\ [Next]_vars
           => [Lifecycle!LifecycleNext]_(Lifecycle!lifecycleVars)
<1> SUFFICES ASSUME LifeInv, [Next]_vars
             PROVE  [Lifecycle!LifecycleNext]_(Lifecycle!lifecycleVars)
  OBVIOUS
<1> DEFINE phase == IF session \in Paused THEN "paused" ELSE session
           done == Cardinality(DoneTasks)
<1>1. CASE DoneTasks' = DoneTasks /\ UNCHANGED session
  BY <1>1 DEF Lifecycle!lifecycleVars, DoneTasks
<1>2. CASE /\ DoneTasks' = DoneTasks
           /\ \/ session = "running" /\ session' \in Paused
              \/ session = "running" /\ session' = "failed"
              \/ session = "running" /\ session' = "completed" /\ AllDone
              \/ session \in Paused \union {"running"} /\ session' = "cancelled"
              \/ session \in Paused \union {"none"} /\ session' = "running"
  <2>1. done' = done /\ (AllDone => done = N)
    BY <1>2, DoneCount
  <2> HIDE DEF done
  <2>2. Lifecycle!LifecycleNext
    <3>1. /\ phase = IF session \in Paused THEN "paused" ELSE session
          /\ phase' = IF session' \in Paused THEN "paused" ELSE session'
      OBVIOUS
    <3>2. \/ /\ done = N /\ phase = "running" /\ phase' = "completed"
          \/ /\ phase = "running" /\ phase' \in {"paused", "failed"}
          \/ /\ phase \in {"running", "paused"} /\ phase' = "cancelled"
          \/ /\ phase \in {"none", "paused"} /\ phase' = "running"
      BY <1>2, <2>1 DEF Paused
    <3> QED
      BY <2>1, <3>2
         DEF done, DoneTasks, Lifecycle!LifecycleNext, Lifecycle!Begin, Lifecycle!Pause,
             Lifecycle!Continue, Lifecycle!Complete, Lifecycle!Fail, Lifecycle!Cancelled,
             Lifecycle!Move
  <2> QED
    BY <2>2
<1>3. CASE /\ session = "running" /\ UNCHANGED session
           /\ \E t \in Tasks \ DoneTasks : DoneTasks' = DoneTasks \union {t}
  <2>1. done' = done + 1 /\ done < N
    BY <1>3, DoneCount
  <2>2. phase = "running" /\ phase' = phase
    BY <1>3 DEF Paused
  <2>3. Lifecycle!Advance
    BY <2>1, <2>2 DEF Lifecycle!Advance, DoneTasks
  <2> QED
    BY <2>3 DEF Lifecycle!LifecycleNext
<1>4. CASE Crash \/ UNCHANGED vars
  BY <1>1, <1>4 DEF Crash, vars, dbVars, DoneTasks
<1> QED
  BY <1>1, <1>2, <1>3, <1>4, WorkerLife, HandlerLife DEF Next, WorkerActs, HandlerActs

(* The run keeps the promise of RunLifecycle: its tasks are completed one  *)
(* after the other, it is complete only when all of them are, and what has *)
(* ended stays as it is.  It may crash and time out, but not be cancelled  *)
(* under its worker (run_cancel) nor have a store fail: a worker that      *)
(* cannot read the session fails a run that is paused.                     *)
THEOREM ImplementsLifecycleHolds ==
  ASSUME Patient, "cancel" \notin Concurrent, "skip" \notin Requests, "store" \notin Faults
  PROVE  Spec => ImplementsLifecycle
<1>1. Init => Lifecycle!LifecycleInit
  <2>1. SUFFICES ASSUME Init PROVE Lifecycle!LifecycleInit
    OBVIOUS
  <2>2. {t \in Tasks : status[t] = "completed"} = {}
    BY <2>1 DEF Init
  <2>3. Cardinality({t \in Tasks : status[t] = "completed"}) = 0
    BY <2>2, FS_EmptySet
  <2> QED
    BY <2>1, <2>3 DEF Init, Lifecycle!LifecycleInit, Paused
<1>2. Spec => []LifeInv
  BY TypeAlways, ActorAlways, DriverAlways, SessionAlways, OrderAlways, EndAlways, DoneAlways,
     CloseAlways, PTL DEF LifeInv
<1> QED
  BY <1>1, <1>2, NextLife, PTL DEF Spec, ImplementsLifecycle, Lifecycle!LifecycleSpec
=============================================================================
