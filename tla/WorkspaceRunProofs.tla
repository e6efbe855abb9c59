------------------------- MODULE WorkspaceRunProofs -------------------------
(***************************************************************************)
(* Proofs about WorkspaceRun, for any number of tasks, any sets of workers *)
(* and handlers, any requests and any choice of what may fail.             *)
(*                                                                         *)
(* TypeOK is not inductive as it stands: the review queue must only name   *)
(* tasks of the run, which holds because a worker that is busy with a task *)
(* has one (OnTask).  OneDriver is not inductive either: that nobody works *)
(* on a run that is paused must also hold of the run that does not exist   *)
(* yet, or the handler that creates it could find a worker at it.          *)
(***************************************************************************)
EXTENDS WorkspaceRun, SequenceTheorems, TLAPS

(* Where a worker is between taking a task and being done with it. *)
TaskPC == {"start", "retake", "pending", "loop", "model", "record", "artifact",
           "checks", "complete", "pause", "hold", "ask", "fail", "mark"}
OnTask == \A w \in Workers : pc[w] \in TaskPC => At(w) \in Tasks

TypeInv == TypeOK /\ OnTask

-----------------------------------------------------------------------------
(* What a worker remembers stays well formed under the updates its steps   *)
(* make.                                                                   *)
LEMMA NoWorkOK == NoWork \in Work
BY NAssumption, BoundsAssumption
   DEF NoWork, Work, Tasks, TaskStatus, Meta, NoMeta

LEMMA WorkFields ==
  ASSUME WorkersOK, NEW w \in Workers
  PROVE  /\ work[w] \in Work
         /\ pc[w] \in WorkerPC
         /\ work[w].at \in 1 .. (N + 1)
         /\ work[w].ask \in Nat
         /\ work[w].block \in {"plan", "approval", "retry"}
         /\ work[w].round \in 0 .. MaxRounds
         /\ work[w].meta \in [Tasks -> Meta]
         /\ \A t \in Tasks : work[w].meta[t] \in Meta
BY DEF WorkersOK, Work

LEMMA WorkWithMeta ==
  ASSUME NEW x \in Work, NEW t \in Tasks, NEW m \in Meta
  PROVE  /\ [x EXCEPT !.meta[t] = m] \in Work
         /\ [x EXCEPT !.meta[t] = m].at = x.at
BY DEF Work

LEMMA WorkWithBlock ==
  ASSUME NEW x \in Work, NEW b \in {"plan", "approval", "retry"}, NEW a \in Nat
  PROVE  /\ [x EXCEPT !.block = b, !.ask = a] \in Work
         /\ [x EXCEPT !.block = b, !.ask = a].at = x.at
BY DEF Work

LEMMA WorkWithAt ==
  ASSUME NEW x \in Work, x.at \in Tasks
  PROVE  [x EXCEPT !.at = x.at + 1] \in Work
<1>1. x.at + 1 \in 1 .. (N + 1)
  BY NAssumption DEF Tasks
<1> QED
  BY <1>1 DEF Work

LEMMA MetaWith ==
  ASSUME NEW y \in Meta
  PROVE  /\ [y EXCEPT !.loop = "prompt", !.ask = 0] \in Meta
         /\ [y EXCEPT !.preview = TRUE] \in Meta
BY DEF Meta

LEMMA WorkWithPhase ==
  ASSUME NEW x \in Work,
         NEW f \in {"loop", "loop_resumed", "checks", "checks_resumed"}
  PROVE  [x EXCEPT !.phase = f] \in Work /\ [x EXCEPT !.phase = f].at = x.at
BY DEF Work

LEMMA WorkWithRound ==
  ASSUME NEW x \in Work, NEW r \in 0 .. MaxRounds
  PROVE  [x EXCEPT !.round = r] \in Work /\ [x EXCEPT !.round = r].at = x.at
BY DEF Work

(* One worker goes on at p with x to remember. *)
LEMMA WorkerUpdate ==
  ASSUME TypeInv, NEW w \in Workers, NEW p \in WorkerPC, NEW x \in Work,
         pc' = [pc EXCEPT ![w] = p],
         work' = [work EXCEPT ![w] = x],
         p \in TaskPC => x.at \in Tasks
  PROVE  WorkersOK' /\ OnTask'
BY DEF TypeInv, TypeOK, WorkersOK, OnTask, At

LEMMA PcUpdate ==
  ASSUME TypeInv, NEW w \in Workers, NEW p \in WorkerPC,
         pc' = [pc EXCEPT ![w] = p],
         UNCHANGED work,
         p \in TaskPC => At(w) \in Tasks
  PROVE  WorkersOK' /\ OnTask'
BY DEF TypeInv, TypeOK, WorkersOK, OnTask, At

LEMMA ExitUpdate ==
  ASSUME TypeInv, NEW w \in Workers, Exit(w)
  PROVE  WorkersOK' /\ OnTask'
BY NoWorkOK, WorkerUpdate DEF Exit, Goto, WorkerPC, TaskPC

(* Where a worker goes after an error or a failed trace append.            *)
LEMMA ErrorUpdate ==
  ASSUME TypeInv, NEW w \in Workers, Goto(w, OnError(w)), UNCHANGED work
  PROVE  WorkersOK' /\ OnTask'
BY PcUpdate DEF Goto, OnError, WorkerPC, TaskPC, TypeInv, OnTask

LEMMA ThenUpdate ==
  ASSUME TypeInv, NEW w \in Workers, NEW p \in WorkerPC, Then(w, p),
         UNCHANGED work, p \in TaskPC => At(w) \in Tasks
  PROVE  WorkersOK' /\ OnTask'
<1>1. CASE pc' = [pc EXCEPT ![w] = p]
  BY <1>1, PcUpdate
<1>2. CASE pc' = [pc EXCEPT ![w] = OnError(w)]
  BY <1>2, ErrorUpdate DEF Goto
<1> QED
  BY <1>1, <1>2 DEF Then

-----------------------------------------------------------------------------
(* The steps of a worker.  First those that only move its program counter, *)
(* then those that change what it remembers.                               *)
LEMMA MoveType ==
  ASSUME TypeInv, NEW w \in Workers,
         \/ StopWorking(w) \/ LoopCheck(w) \/ ModelFails(w) \/ Checks(w)
         \/ PauseSession(w) \/ SetTaskBlocked(w) \/ FailCheck(w)
         \/ MarkTaskFailed(w) \/ FailRun(w) \/ FailSession(w)
  PROVE  WorkersOK' /\ OnTask'
<1>1. PICK p \in WorkerPC :
        /\ pc' = [pc EXCEPT ![w] = p]
        /\ p \in TaskPC => At(w) \in Tasks
  BY DEF StopWorking, LoopCheck, ModelFails, Checks, PauseSession,
         SetTaskBlocked, FailCheck, MarkTaskFailed, FailRun, FailSession,
         Goto, OnError, PlanOrComplete, WorkerPC, TaskPC, TypeInv, OnTask
<1>2. UNCHANGED work
  BY DEF StopWorking, LoopCheck, ModelFails, Checks, PauseSession,
         SetTaskBlocked, FailCheck, MarkTaskFailed, FailRun, FailSession
<1> QED
  BY <1>1, <1>2, PcUpdate

LEMMA ThenType ==
  ASSUME TypeInv, NEW w \in Workers,
         StartTask(w) \/ PlanArtifact(w) \/ ReleaseSandbox(w)
  PROVE  WorkersOK' /\ OnTask'
<1>1. CASE StartTask(w)
  <2>1. At(w) \in Tasks /\ UNCHANGED work
    BY <1>1 DEF StartTask, TypeInv, OnTask, TaskPC
  <2>2. CASE Goto(w, "pending")
    BY <2>1, <2>2, PcUpdate DEF Goto, WorkerPC
  <2>3. CASE Then(w, "loop")
    BY <2>1, <2>3, ThenUpdate DEF WorkerPC
  <2> QED
    BY <1>1, <2>2, <2>3 DEF StartTask
<1>2. CASE PlanArtifact(w)
  <2>1. At(w) \in Tasks /\ UNCHANGED work /\ Then(w, ChecksOrNot(w))
    BY <1>2 DEF PlanArtifact, TypeInv, OnTask, TaskPC
  <2>2. ChecksOrNot(w) \in WorkerPC
    BY DEF ChecksOrNot, PlanOrComplete, WorkerPC
  <2> QED
    BY <2>1, <2>2, ThenUpdate
<1>3. CASE ReleaseSandbox(w)
  <2>1. UNCHANGED work /\ Then(w, "finish")
    BY <1>3 DEF ReleaseSandbox
  <2> QED
    BY <2>1, ThenUpdate DEF WorkerPC, TaskPC
<1> QED
  BY <1>1, <1>2, <1>3

LEMMA ExitType ==
  ASSUME TypeInv, NEW w \in Workers,
         \/ GiveUp(w) \/ FailRelease(w) \/ CompleteSession(w) \/ Timeout(w)
         \/ FailTasks(w)
  PROVE  WorkersOK' /\ OnTask'
<1>1. CASE Exit(w)
  BY <1>1, ExitUpdate
<1>2. CASE Goto(w, "close") /\ UNCHANGED work
  BY <1>2, PcUpdate DEF Goto, WorkerPC, TaskPC
<1> QED
  BY <1>1, <1>2 DEF GiveUp, FailRelease, CompleteSession, Timeout, FailTasks

LEMMA AdvanceType ==
  ASSUME TypeInv, NEW w \in Workers, SkipCompleted(w) \/ CompleteTask(w)
  PROVE  WorkersOK' /\ OnTask'
<1> DEFINE x == [work[w] EXCEPT !.at = work[w].at + 1]
<1>1. work[w] \in Work /\ work[w].at \in Tasks
  BY WorkFields DEF SkipCompleted, CompleteTask, AtTask, At, TypeInv, TypeOK,
                    OnTask, TaskPC
<1>2. x \in Work
  BY <1>1, WorkWithAt
<1>3. CASE pc' = [pc EXCEPT ![w] = "next"]
           /\ work' = [work EXCEPT ![w].at = @ + 1]
  <2>1. pc' = [pc EXCEPT ![w] = "next"] /\ work' = [work EXCEPT ![w] = x]
    BY <1>3
  <2> HIDE DEF x
  <2> QED
    BY <1>2, <2>1, WorkerUpdate DEF TaskPC, WorkerPC
<1>4. CASE pc' = [pc EXCEPT ![w] = "error"] /\ UNCHANGED work
  BY <1>4, PcUpdate DEF TaskPC, WorkerPC
<1>5. UNCHANGED pc => pc' = [pc EXCEPT ![w] = pc[w]]
  BY DEF TypeInv, TypeOK, WorkersOK
<1> QED
  BY <1>3, <1>4, <1>5 DEF SkipCompleted, CompleteTask, AtTask, Goto

LEMMA TakeTaskType ==
  ASSUME TypeInv, NEW w \in Workers, TakeTask(w)
  PROVE  WorkersOK' /\ OnTask'
<1>1. PICK p \in {"retake", "complete", "checks", "start"},
           f \in {"loop_resumed", "checks_resumed", "loop"} :
        /\ pc' = [pc EXCEPT ![w] = p]
        /\ work' = [work EXCEPT ![w].phase = f, ![w].round = 0]
  BY DEF TakeTask, Branch, Goto
<1> DEFINE y == [work[w] EXCEPT !.phase = f]
           x == [y EXCEPT !.round = 0]
<1>2. work[w] \in Work /\ work[w].at \in Tasks
  BY WorkFields DEF TakeTask, AtTask, At, TypeInv, TypeOK
<1>3. y \in Work /\ y.at \in Tasks
  BY <1>2, WorkWithPhase
<1>4. 0 \in 0 .. MaxRounds
  BY BoundsAssumption
<1>5. work' = [work EXCEPT ![w] = x]
  BY <1>1
<1>6. x \in Work /\ x.at \in Tasks
  <2> HIDE DEF y
  <2> QED BY <1>3, <1>4, WorkWithRound
<1> HIDE DEF x
<1> QED
  BY <1>1, <1>5, <1>6, WorkerUpdate DEF TaskPC, WorkerPC

LEMMA ModelType ==
  ASSUME TypeInv, NEW w \in Workers, Answer(w) \/ NextRound(w)
  PROVE  WorkersOK' /\ OnTask'
<1>1. work[w] \in Work /\ work[w].at \in Tasks /\ work[w].round \in 0 .. MaxRounds
  BY WorkFields
     DEF Answer, NextRound, At, TypeInv, TypeOK, OnTask, TaskPC
<1>2. CASE Answer(w)
  <2> DEFINE f == IF work[w].phase = "loop" THEN "checks" ELSE work[w].phase
             x == [work[w] EXCEPT !.phase = f]
  <2>1. work' = [work EXCEPT ![w] = x] /\ pc' = [pc EXCEPT ![w] = "record"]
    BY <1>2 DEF Answer, Goto
  <2>2. f \in {"loop", "loop_resumed", "checks", "checks_resumed"}
    BY <1>1 DEF Work
  <2>3. x \in Work /\ x.at \in Tasks
    <3> HIDE DEF f
    <3> QED BY <1>1, <2>2, WorkWithPhase
  <2> HIDE DEF x
  <2> QED
    BY <2>1, <2>3, WorkerUpdate DEF WorkerPC
<1>3. CASE NextRound(w)
  <2> DEFINE r == work[w].round + 1
             x == [work[w] EXCEPT !.round = r]
  <2>1. work' = [work EXCEPT ![w] = x] /\ pc' = [pc EXCEPT ![w] = "loop"]
    BY <1>3 DEF NextRound, Goto
  <2>2. r \in 0 .. MaxRounds
    BY <1>1, <1>3, BoundsAssumption DEF NextRound
  <2>3. x \in Work /\ x.at \in Tasks
    <3> HIDE DEF r
    <3> QED BY <1>1, <2>2, WorkWithRound
  <2> HIDE DEF x
  <2> QED
    BY <2>1, <2>3, WorkerUpdate DEF WorkerPC
<1> QED
  BY <1>2, <1>3

LEMMA SuspendType ==
  ASSUME TypeInv, NEW w \in Workers, SuspendLoop(w)
  PROVE  WorkersOK' /\ OnTask'
<1> DEFINE m == [loop |-> "pending", ask |-> NewAsk, preview |-> TRUE]
           y == [work[w] EXCEPT !.meta[At(w)] = m]
           x == [y EXCEPT !.block = "approval", !.ask = NewAsk]
<1>1. work[w] \in Work /\ At(w) \in Tasks /\ At(w) = work[w].at
  BY WorkFields DEF SuspendLoop, At, TypeInv, TypeOK, OnTask, TaskPC
<1>2. NewAsk \in Nat
  BY DEF NewAsk, TypeInv, TypeOK, ReviewOK
<1>3. m \in Meta
  BY <1>2 DEF Meta
<1>4. y \in Work /\ y.at \in Tasks
  <2> HIDE DEF m
  <2> QED BY <1>1, <1>3, WorkWithMeta
<1>5. pc' = [pc EXCEPT ![w] = "pause"] /\ work' = [work EXCEPT ![w] = x]
  BY DEF SuspendLoop, Goto
<1>6. x \in Work /\ x.at \in Tasks
  <2> HIDE DEF y
  <2> QED BY <1>2, <1>4, WorkWithBlock
<1> HIDE DEF x
<1> QED
  BY <1>5, <1>6, WorkerUpdate DEF WorkerPC

LEMMA BlockType ==
  ASSUME TypeInv, NEW w \in Workers,
         StillPending(w) \/ Guardrail(w) \/ ChecksWait(w)
  PROVE  WorkersOK' /\ OnTask'
<1>1. work[w] \in Work /\ At(w) \in Tasks /\ At(w) = work[w].at
  BY WorkFields DEF StillPending, Guardrail, ChecksWait, At, TypeInv, TypeOK,
                    OnTask, TaskPC
<1>2. work[w].meta[At(w)].ask \in Nat /\ NewAsk \in Nat
  BY <1>1, WorkFields DEF Meta, NewAsk, TypeInv, TypeOK, ReviewOK
<1>3. PICK b \in {"plan", "approval", "retry"}, a \in Nat :
        /\ pc' = [pc EXCEPT ![w] = "pause"]
        /\ work' = [work EXCEPT ![w].block = b, ![w].ask = a]
  BY <1>2 DEF StillPending, Guardrail, ChecksWait, Goto
<1> DEFINE x == [work[w] EXCEPT !.block = b, !.ask = a]
<1>4. work' = [work EXCEPT ![w] = x]
  BY <1>3
<1>5. x \in Work /\ x.at \in Tasks
  <2>1. \A y \in Work : /\ [y EXCEPT !.block = b, !.ask = a] \in Work
                         /\ [y EXCEPT !.block = b, !.ask = a].at = y.at
    BY WorkWithBlock
  <2> QED
    BY <1>1, <2>1
<1> HIDE DEF x
<1> QED
  BY <1>3, <1>4, <1>5, WorkerUpdate DEF WorkerPC

LEMMA ExecutePendingType ==
  ASSUME TypeInv, NEW w \in Workers, ExecutePending(w)
  PROVE  WorkersOK' /\ OnTask'
<1> DEFINE t == At(w)
           m == [work[w].meta[t] EXCEPT !.loop = "prompt", !.ask = 0]
           x == [work[w] EXCEPT !.meta[t] = m]
<1>1. work[w] \in Work /\ t \in Tasks /\ t = work[w].at
  BY WorkFields DEF ExecutePending, At, TypeInv, TypeOK, OnTask, TaskPC
<1>2. m \in Meta
  <2>1. work[w].meta[t] \in Meta
    BY <1>1, WorkFields DEF TypeInv, TypeOK
  <2> QED
    BY <2>1, MetaWith
<1>3. x \in Work /\ x.at \in Tasks
  <2> HIDE DEF m
  <2> QED BY <1>1, <1>2, WorkWithMeta
<1>4. CASE Goto(w, "loop") /\ UpdateTaskMetadata(w, t, m)
  <2>1. pc' = [pc EXCEPT ![w] = "loop"] /\ work' = [work EXCEPT ![w] = x]
    BY <1>4 DEF UpdateTaskMetadata, Goto
  <2> HIDE DEF x
  <2> QED
    BY <2>1, <1>3, WorkerUpdate DEF WorkerPC
<1>5. CASE Goto(w, "error") /\ UNCHANGED work
  BY <1>5, PcUpdate DEF Goto, TaskPC, WorkerPC
<1> QED
  BY <1>4, <1>5 DEF ExecutePending

LEMMA RecordType ==
  ASSUME TypeInv, NEW w \in Workers, Record(w)
  PROVE  WorkersOK' /\ OnTask'
<1> DEFINE m == IF work[w].phase = "loop_resumed"
                  THEN [loop |-> "none", ask |-> 0, preview |-> TRUE]
                  ELSE [work[w].meta[At(w)] EXCEPT !.preview = TRUE]
           y == [work[w] EXCEPT !.meta[At(w)] = m]
           x == [y EXCEPT !.block = "plan", !.ask = 0]
           p == IF At(w) = Planner THEN "artifact" ELSE ChecksOrNot(w)
<1>1. work[w] \in Work /\ At(w) \in Tasks /\ At(w) = work[w].at
  BY WorkFields DEF Record, At, TypeInv, TypeOK, OnTask, TaskPC
<1>2. m \in Meta
  <2>1. work[w].meta[At(w)] \in Meta
    BY <1>1, WorkFields DEF TypeInv, TypeOK
  <2>2. [loop |-> "none", ask |-> 0, preview |-> TRUE] \in Meta
    BY DEF Meta
  <2> QED
    BY <2>1, <2>2, MetaWith
<1>3. y \in Work /\ y.at \in Tasks
  <2> HIDE DEF m
  <2> QED BY <1>1, <1>2, WorkWithMeta
<1>4. p \in WorkerPC
  BY DEF ChecksOrNot, PlanOrComplete, WorkerPC
<1>5. pc' = [pc EXCEPT ![w] = p] /\ work' = [work EXCEPT ![w] = x]
  BY DEF Record, Goto
<1>6. x \in Work /\ x.at \in Tasks
  <2> HIDE DEF y
  <2> QED BY <1>3, WorkWithBlock
<1> HIDE DEF x, p
<1> QED
  BY <1>4, <1>5, <1>6, WorkerUpdate

LEMMA CreateBlockedType ==
  ASSUME TypeInv, NEW w \in Workers, CreateBlocked(w)
  PROVE  WorkersOK' /\ OnTask'
<1>1. CASE Exit(w)
  BY <1>1, ExitUpdate
<1>2. CASE Goto(w, OnError(w)) /\ UNCHANGED work
  BY <1>2, ErrorUpdate
<1> QED
  BY <1>1, <1>2 DEF CreateBlocked

LEMMA StoreErrorType ==
  ASSUME TypeInv, NEW w \in Workers, StoreError(w)
  PROVE  WorkersOK' /\ OnTask'
<1>1. CASE Exit(w)
  BY <1>1, ExitUpdate
<1>2. CASE /\ pc[w] \in {"fail", "mark", "error"}
           /\ Goto(w, CASE pc[w] = "fail" -> "mark"
                        [] pc[w] = "mark" -> "error"
                        [] pc[w] = "error" -> "ledger")
           /\ UNCHANGED work
  <2>1. CASE pc[w] = "fail"
    BY <1>2, <2>1, PcUpdate DEF Goto, WorkerPC, TaskPC, TypeInv, OnTask
  <2>2. CASE pc[w] = "mark"
    BY <1>2, <2>2, PcUpdate DEF Goto, WorkerPC, TaskPC
  <2>3. CASE pc[w] = "error"
    BY <1>2, <2>3, PcUpdate DEF Goto, WorkerPC, TaskPC
  <2> QED
    BY <1>2, <2>1, <2>2, <2>3
<1>3. CASE Goto(w, OnError(w)) /\ UNCHANGED work
  BY <1>3, ErrorUpdate
<1> QED
  BY <1>1, <1>2, <1>3 DEF StoreError

(* Whatever a worker does, the workers stay well formed. *)
LEMMA WorkerType ==
  ASSUME TypeInv, NEW w \in Workers,
         WorkerStep(w) \/ StoreError(w) \/ Timeout(w)
  PROVE  WorkersOK' /\ OnTask'
BY MoveType, ThenType, ExitType, AdvanceType, TakeTaskType, ModelType,
   SuspendType, BlockType, ExecutePendingType, RecordType, CreateBlockedType,
   StoreErrorType
   DEF WorkerStep

-----------------------------------------------------------------------------
(* The rows that a worker writes.                                          *)
LEMMA WorkerMeta ==
  ASSUME TypeInv, NEW w \in Workers,
         WorkerStep(w) \/ StoreError(w) \/ Timeout(w)
  PROVE  (meta \in [Tasks -> Meta])'
<1> DEFINE t == At(w)
<1>1. meta \in [Tasks -> Meta] /\ NewAsk \in Nat
  BY DEF TypeInv, TypeOK, LedgerOK, ReviewOK, NewAsk
<1>2. t \in Tasks => work[w].meta[t] \in Meta
  BY WorkFields DEF TypeInv, TypeOK
<1>3. CASE UNCHANGED meta
  BY <1>1, <1>3
<1>4. CASE meta' = [meta EXCEPT ![t] = work[w].meta[t]] /\ t \in Tasks
  BY <1>1, <1>2, <1>4
<1>5. CASE ExecutePending(w)
  <2>1. t \in Tasks
    BY <1>5 DEF ExecutePending, TypeInv, OnTask, TaskPC
  <2>2. [work[w].meta[t] EXCEPT !.loop = "prompt", !.ask = 0] \in Meta
    BY <1>2, <2>1 DEF Meta
  <2> QED
    BY <1>1, <1>5, <2>2 DEF ExecutePending, UpdateTaskMetadata
<1>6. CASE SuspendLoop(w)
  <2>1. [loop |-> "pending", ask |-> NewAsk, preview |-> TRUE] \in Meta
    BY <1>1 DEF Meta
  <2> QED
    BY <1>1, <1>6, <2>1 DEF SuspendLoop
<1>7. CASE Record(w)
  <2>1. t \in Tasks
    BY <1>7 DEF Record, TypeInv, OnTask, TaskPC
  <2>2. [loop |-> "none", ask |-> 0, preview |-> TRUE] \in Meta
    BY DEF Meta
  <2>3. [work[w].meta[t] EXCEPT !.preview = TRUE] \in Meta
    BY <1>2, <2>1 DEF Meta
  <2> QED
    BY <1>1, <1>7, <2>2, <2>3 DEF Record
<1>8. CASE StillPending(w) \/ Checks(w) \/ CreateBlocked(w) \/ MarkTaskFailed(w)
  <2>1. t \in Tasks
    BY <1>8 DEF StillPending, Checks, CreateBlocked, MarkTaskFailed, TypeInv,
                OnTask, TaskPC
  <2> QED
    BY <1>3, <1>4, <1>8, <2>1 DEF StillPending, Checks, CreateBlocked, MarkTaskFailed
<1> QED
  BY <1>3, <1>5, <1>6, <1>7, <1>8
     DEF WorkerStep, StoreError, Timeout, dbVars,
         SkipCompleted, StopWorking, TakeTask, StartTask, LoopCheck, Answer,
         NextRound, Guardrail, ModelFails, PlanArtifact, ChecksWait,
         CompleteTask, PauseSession, SetTaskBlocked, FailCheck, GiveUp,
         FailRun, FailTasks, FailSession, FailRelease, ReleaseSandbox,
         CompleteSession

LEMMA WorkerLedger ==
  ASSUME TypeInv, NEW w \in Workers,
         WorkerStep(w) \/ StoreError(w) \/ Timeout(w)
  PROVE  LedgerOK'
<1> USE DEF TypeInv, TypeOK, LedgerOK
<1>1. /\ session' \in SessionStatus
      /\ sandbox' \in {"none", "active", "released"}
  BY DEF WorkerStep, StoreError, Timeout, dbVars, Released, PausedStatus,
         SessionStatus, Paused, Terminal,
         SkipCompleted, StopWorking, TakeTask, StartTask, ExecutePending,
         StillPending, LoopCheck, Answer, NextRound, SuspendLoop, Guardrail,
         ModelFails, Record, PlanArtifact, Checks, ChecksWait, CompleteTask,
         PauseSession, SetTaskBlocked, CreateBlocked, FailCheck,
         MarkTaskFailed, GiveUp, FailRun, FailTasks, FailSession, FailRelease,
         ReleaseSandbox, CompleteSession
<1>2. status' \in [Tasks -> TaskStatus]
  BY DEF WorkerStep, StoreError, Timeout, dbVars, PausedStatus,
         UpdateTaskStatus, CompleteTasks, TaskStatus, Paused, Terminal,
         SkipCompleted, StopWorking, TakeTask, StartTask, ExecutePending,
         StillPending, LoopCheck, Answer, NextRound, SuspendLoop, Guardrail,
         ModelFails, Record, PlanArtifact, Checks, ChecksWait, CompleteTask,
         PauseSession, SetTaskBlocked, CreateBlocked, FailCheck,
         MarkTaskFailed, GiveUp, FailRun, FailTasks, FailSession, FailRelease,
         ReleaseSandbox, CompleteSession
<1> QED
  BY <1>1, <1>2, WorkerMeta

LEMMA WorkerReview ==
  ASSUME TypeInv, NEW w \in Workers,
         WorkerStep(w) \/ StoreError(w) \/ Timeout(w)
  PROVE  ReviewOK'
<1> USE DEF TypeInv, TypeOK, ReviewOK
<1>1. CASE UNCHANGED review
  BY <1>1 DEF review
<1>2. CASE ExecutePending(w)
  <2>1. work[w].meta[At(w)].ask \in 1 .. Len(approvals)
    BY <1>2 DEF ExecutePending
  <2> QED
    BY <1>2, <2>1, ExceptSeq DEF ExecutePending
<1>3. CASE SuspendLoop(w) \/ ChecksWait(w)
  <2>1. /\ approvals' = Append(approvals, "pending")
        /\ UNCHANGED << plans, latest, actions >>
    BY <1>3 DEF SuspendLoop, ChecksWait
  <2>2. approvals' \in Seq({"pending", "granted", "denied", "used"})
    BY <2>1
  <2> QED
    BY <2>1, <2>2
<1>4. CASE PlanArtifact(w)
  BY <1>4 DEF PlanArtifact
<1>5. CASE CreateBlocked(w)
  <2> DEFINE a == [kind |-> work[w].block, task |-> At(w), ask |-> work[w].ask,
                   plan |-> IF work[w].block = "plan" THEN latest ELSE 0,
                   status |-> "open"]
  <2>1. At(w) \in Tasks
    BY <1>5 DEF CreateBlocked, OnTask, TaskPC
  <2>2. a \in Action
    BY <2>1, WorkFields DEF Action
  <2>3. actions' = Append(actions, a) /\ UNCHANGED << plans, latest, approvals >>
    BY <1>5 DEF CreateBlocked
  <2> HIDE DEF a
  <2> QED
    BY <2>2, <2>3
<1> QED
  BY <1>1, <1>2, <1>3, <1>4, <1>5
     DEF WorkerStep, StoreError, Timeout, dbVars,
         SkipCompleted, StopWorking, TakeTask, StartTask, StillPending,
         LoopCheck, Answer, NextRound, Guardrail, ModelFails, Record, Checks,
         CompleteTask, PauseSession, SetTaskBlocked, FailCheck,
         MarkTaskFailed, GiveUp, FailRun, FailTasks, FailSession, FailRelease,
         ReleaseSandbox, CompleteSession

LEMMA WorkerFrame ==
  ASSUME NEW w \in Workers, WorkerStep(w) \/ StoreError(w) \/ Timeout(w)
  PROVE  UNCHANGED handlerVars
BY DEF WorkerStep, StoreError, Timeout,
       SkipCompleted, StopWorking, TakeTask, StartTask, ExecutePending,
       StillPending, LoopCheck, Answer, NextRound, SuspendLoop, Guardrail,
       ModelFails, Record, PlanArtifact, Checks, ChecksWait, CompleteTask,
       PauseSession, SetTaskBlocked, CreateBlocked, FailCheck,
       MarkTaskFailed, GiveUp, FailRun, FailTasks, FailSession, FailRelease,
       ReleaseSandbox, CompleteSession

-----------------------------------------------------------------------------
(* The handlers.                                                           *)
LEMMA RequestType ==
  ASSUME TypeInv, NEW h \in Handlers, NEW k \in Kind, NEW p \in HandlerPC,
         NEW i \in Nat, NEW m \in Meta, Request(h, k, p, i, m)
  PROVE  HandlersOK' /\ UNCHANGED workerVars
<1>1. [kind |-> k, target |-> i, meta |-> m] \in Req /\ NoReq \in Req
  BY DEF Req, NoReq, Kind, NoMeta, Meta
<1>2. issued' \in 0 .. MaxRequests
  BY BoundsAssumption DEF Request, TypeInv, TypeOK, HandlersOK
<1> QED
  BY <1>1, <1>2 DEF Request, TypeInv, TypeOK, HandlersOK

LEMMA CarryType ==
  ASSUME TypeInv, NEW h \in Handlers, NEW p \in HandlerPC, Carry(h, p)
  PROVE  HandlersOK'
<1>1. NoReq \in Req
  BY DEF Req, NoReq, Kind, NoMeta, Meta
<1> QED
  BY <1>1 DEF Carry, TypeInv, TypeOK, HandlersOK

LEMMA SetActionsType ==
  ASSUME actions \in Seq(Action), NEW P,
         NEW s \in {"open", "resolved", "rejected"}, SetActions(P, s)
  PROVE  actions' \in Seq(Action) /\ DOMAIN actions' = DOMAIN actions
<1>1. \A i \in DOMAIN actions : actions[i] \in Action
  OBVIOUS
<1>2. \A i \in DOMAIN actions : [actions[i] EXCEPT !.status = s] \in Action
  BY <1>1 DEF Action
<1>3. \A i \in DOMAIN actions' : actions'[i] \in Action
  BY <1>1, <1>2 DEF SetActions
<1>4. PICK n \in Nat : DOMAIN actions = 1 .. n
  OBVIOUS
<1> QED
  BY <1>3, <1>4 DEF SetActions

LEMMA StartRunWorkerType ==
  ASSUME TypeInv, NEW w \in Workers, NEW s \in [Tasks -> TaskStatus],
         NEW m \in [Tasks -> Meta], StartRunWorker(w, s, m)
  PROVE  WorkersOK' /\ OnTask'
<1> DEFINE x == [NoWork EXCEPT !.status = s, !.meta = m]
<1>1. x \in Work
  BY NoWorkOK DEF Work
<1>2. pc' = [pc EXCEPT ![w] = "next"] /\ work' = [work EXCEPT ![w] = x]
  BY DEF StartRunWorker
<1> HIDE DEF x
<1> QED
  BY <1>1, <1>2, WorkerUpdate DEF WorkerPC, TaskPC

(* The steps of a handler under way. *)
LEMMA HandlerRows ==
  ASSUME TypeInv, NEW h \in Handlers, HandlerStep(h)
  PROVE  LedgerOK' /\ ReviewOK'
<1> USE DEF TypeInv, TypeOK, LedgerOK, ReviewOK, review
<1>1. CASE CreateTasks(h) \/ CancelTheTasks(h) \/ StopTasks(h)
  BY <1>1 DEF CreateTasks, CancelTheTasks, StopTasks, CancelTasks, TaskStatus,
              Terminal
<1>2. CASE AcquireSandbox(h) \/ LaunchNew(h) \/ Launch(h)
  BY <1>2 DEF AcquireSandbox, LaunchNew, Launch, dbVars
<1>3. CASE ResumeSession(h) \/ StopSession(h)
  BY <1>3 DEF ResumeSession, StopSession, SessionStatus, Terminal
<1>4. CASE ResolveByArtifact(h) \/ ResolveByApproval(h)
  <2>1. ASSUME ResolveByArtifact(h) PROVE actions' \in Seq(Action)
    BY <2>1, SetActionsType DEF ResolveByArtifact
  <2>2. ASSUME ResolveByApproval(h) PROVE actions' \in Seq(Action)
    BY <2>2, SetActionsType DEF ResolveByApproval
  <2> QED
    BY <1>4, <2>1, <2>2 DEF ResolveByArtifact, ResolveByApproval
<1>5. CASE SkipMetadata(h)
  <2>1. req[h].meta \in Meta
    BY DEF HandlersOK, Req
  <2> QED
    BY <1>5, <2>1 DEF SkipMetadata
<1>6. CASE SkipTask(h)
  BY <1>6 DEF SkipTask, UpdateTaskStatus, TaskStatus, Terminal
<1> QED
  BY <1>1, <1>2, <1>3, <1>4, <1>5, <1>6 DEF HandlerStep

LEMMA HandlerMoves ==
  ASSUME TypeInv, NEW h \in Handlers, HandlerStep(h)
  PROVE  HandlersOK'
<1>1. PICK p \in HandlerPC : Carry(h, p)
  BY DEF HandlerStep, CreateTasks, AcquireSandbox, LaunchNew, Launch,
         ResumeSession, CancelTheTasks, ResolveByArtifact, ResolveByApproval,
         SkipMetadata, SkipTask, StopSession, StopTasks, ResumeIfResolved,
         HandlerPC
<1> QED
  BY <1>1, CarryType

LEMMA HandlerWorkers ==
  ASSUME TypeInv, NEW h \in Handlers, HandlerStep(h)
  PROVE  WorkersOK' /\ OnTask'
<1>1. CASE LaunchNew(h)
  <2>1. /\ [t \in Tasks |-> "queued"] \in [Tasks -> TaskStatus]
        /\ [t \in Tasks |-> NoMeta] \in [Tasks -> Meta]
    BY DEF TaskStatus, NoMeta, Meta
  <2> QED
    BY <1>1, <2>1, StartRunWorkerType DEF LaunchNew
<1>2. CASE Launch(h)
  BY <1>2, StartRunWorkerType DEF Launch, TypeInv, TypeOK, LedgerOK
<1>3. CASE UNCHANGED workerVars
  BY <1>3 DEF workerVars, TypeInv, TypeOK, WorkersOK, OnTask, At
<1> QED
  BY <1>1, <1>2, <1>3
     DEF HandlerStep, CreateTasks, AcquireSandbox, ResumeSession,
         CancelTheTasks, ResolveByArtifact, ResolveByApproval, SkipMetadata,
         SkipTask, StopSession, StopTasks

(* The requests an operator makes. *)
LEMMA OperatorType ==
  ASSUME TypeInv, NEW h \in Handlers, Operator(h)
  PROVE  TypeInv'
<1> USE DEF TypeInv, TypeOK
<1>1. CASE CreateSession(h)
  <2>1. LedgerOK' /\ ReviewOK'
    BY <1>1 DEF CreateSession, LedgerOK, ReviewOK, review, SessionStatus
  <2>2. HandlersOK'
    BY <1>1 DEF CreateSession, HandlersOK, HandlerPC
  <2>3. WorkersOK' /\ OnTask'
    BY <1>1 DEF CreateSession, workerVars, WorkersOK, OnTask, At
  <2> QED
    BY <2>1, <2>2, <2>3
<1>2. ASSUME UNCHANGED workerVars
      PROVE  WorkersOK' /\ OnTask'
  BY <1>2 DEF workerVars, WorkersOK, OnTask, At
<1>3. NoMeta \in Meta
  BY DEF NoMeta, Meta
<1>4. CASE Resume(h)
  <2>1. HandlersOK' /\ UNCHANGED workerVars
    BY <1>3, <1>4, RequestType DEF Resume, Kind, HandlerPC
  <2> QED
    BY <1>2, <1>4, <2>1 DEF Resume, dbVars, LedgerOK, ReviewOK, review
<1>5. CASE Cancel(h)
  <2>1. HandlersOK' /\ UNCHANGED workerVars
    BY <1>3, <1>5, RequestType DEF Cancel, Kind, HandlerPC
  <2> QED
    BY <1>2, <1>5, <2>1
       DEF Cancel, LedgerOK, ReviewOK, review, SessionStatus, Terminal
<1>6. ASSUME NEW p \in DOMAIN plans, ApprovePlan(h, p) \/ RevisePlan(h, p)
      PROVE  TypeInv'
  <2>1. p \in 1 .. Len(plans) /\ p \in Nat
    BY DEF ReviewOK
  <2>2. HandlersOK' /\ UNCHANGED workerVars
    BY <1>3, <1>6, <2>1, RequestType DEF ApprovePlan, RevisePlan, Kind, HandlerPC
  <2>3. PICK s \in {"draft", "revised", "approved"} :
          plans' = [plans EXCEPT ![p] = s] /\ latest' = p
    BY <1>6 DEF ApprovePlan, RevisePlan
  <2>4. /\ plans' \in Seq({"draft", "revised", "approved"})
        /\ latest' \in 0 .. Len(plans')
    BY <2>1, <2>3, ExceptSeq DEF ReviewOK
  <2> QED
    BY <1>2, <1>6, <2>2, <2>4 DEF ApprovePlan, RevisePlan, LedgerOK, ReviewOK
<1>7. ASSUME NEW a \in DOMAIN approvals,
             Decide(h, "grant", a) \/ Decide(h, "deny", a)
      PROVE  TypeInv'
  <2>1. a \in 1 .. Len(approvals) /\ a \in Nat
    BY DEF ReviewOK
  <2>2. HandlersOK' /\ UNCHANGED workerVars
    BY <1>3, <1>7, <2>1, RequestType DEF Decide, Kind, HandlerPC
  <2>3. PICK s \in {"pending", "granted", "denied", "used"} :
          approvals' = [approvals EXCEPT ![a] = s]
    BY <1>7 DEF Decide
  <2>4. approvals' \in Seq({"pending", "granted", "denied", "used"})
    BY <2>1, <2>3, ExceptSeq DEF ReviewOK
  <2> QED
    BY <1>2, <1>7, <2>2, <2>4 DEF Decide, LedgerOK, ReviewOK
<1>8. ASSUME NEW i \in DOMAIN actions,
             NEW k \in {"retry", "skip", "stop", "reject", "clarify"},
             ResolveBlocked(h, k, i)
      PROVE  TypeInv'
  <2>1. i \in Nat /\ actions[i] \in Action
    BY DEF ReviewOK
  <2>2. meta[actions[i].task] \in Meta
    BY <2>1 DEF LedgerOK, Action
  <2>3. PICK p \in HandlerPC : Request(h, k, p, i, meta[actions[i].task])
    BY <1>8 DEF ResolveBlocked, ResumeIfResolved, HandlerPC
  <2>4. HandlersOK' /\ UNCHANGED workerVars
    BY <2>1, <2>2, <2>3, RequestType DEF Kind
  <2>5. actions' \in Seq(Action)
    BY <1>8, SetActionsType DEF ResolveBlocked, ReviewOK
  <2> QED
    BY <1>2, <1>8, <2>4, <2>5 DEF ResolveBlocked, LedgerOK, ReviewOK
<1> QED
  BY <1>1, <1>4, <1>5, <1>6, <1>7, <1>8 DEF Operator

LEMMA HandlerErrorType ==
  ASSUME TypeInv, NEW h \in Handlers, HandlerError(h)
  PROVE  TypeInv'
<1>1. PICK p \in HandlerPC : Carry(h, p)
  BY DEF HandlerError, ResumeIfResolved, HandlerPC
<1>2. HandlersOK'
  BY <1>1, CarryType
<1> QED
  BY <1>2 DEF HandlerError, dbVars, review, workerVars, TypeInv, TypeOK,
              LedgerOK, ReviewOK, WorkersOK, OnTask, At

LEMMA CrashType == TypeInv /\ Crash => TypeInv'
<1> SUFFICES ASSUME TypeInv, Crash PROVE TypeInv'
  OBVIOUS
<1>1. NoReq \in Req
  BY DEF Req, NoReq, Kind, NoMeta, Meta
<1>2. HandlersOK'
  BY <1>1 DEF Crash, HandlersOK, HandlerPC, TypeInv, TypeOK
<1>3. WorkersOK' /\ OnTask'
  BY NoWorkOK DEF Crash, WorkersOK, WorkerPC, OnTask, TaskPC
<1> QED
  BY <1>2, <1>3 DEF Crash, dbVars, review, TypeInv, TypeOK, LedgerOK, ReviewOK

LEMMA InitType == Init => TypeInv
<1> SUFFICES ASSUME Init PROVE TypeInv
  OBVIOUS
<1>1. LedgerOK
  BY DEF Init, LedgerOK, SessionStatus, TaskStatus, Meta, NoMeta
<1>2. ReviewOK
  BY DEF Init, ReviewOK
<1>3. WorkersOK /\ OnTask
  BY NoWorkOK DEF Init, WorkersOK, WorkerPC, OnTask, TaskPC
<1>4. HandlersOK
  BY BoundsAssumption
     DEF Init, HandlersOK, HandlerPC, NoReq, Req, Kind, NoMeta, Meta
<1> QED
  BY <1>1, <1>2, <1>3, <1>4 DEF TypeInv, TypeOK

LEMMA NextType == TypeInv /\ [Next]_vars => TypeInv'
<1> SUFFICES ASSUME TypeInv, [Next]_vars PROVE TypeInv'
  OBVIOUS
<1>1. ASSUME NEW w \in Workers, WorkerStep(w) \/ StoreError(w) \/ Timeout(w)
      PROVE  TypeInv'
  <2>1. UNCHANGED handlerVars
    BY <1>1, WorkerFrame
  <2>2. HandlersOK'
    BY <2>1 DEF handlerVars, HandlersOK, TypeInv, TypeOK
  <2> QED
    BY <1>1, <2>2, WorkerType, WorkerLedger, WorkerReview DEF TypeInv, TypeOK
<1>2. ASSUME NEW h \in Handlers, HandlerStep(h)
      PROVE  TypeInv'
  BY <1>2, HandlerRows, HandlerMoves, HandlerWorkers DEF TypeInv, TypeOK
<1>3. CASE UNCHANGED vars
  BY <1>3 DEF vars, dbVars, review, workerVars, handlerVars, TypeInv, TypeOK,
              LedgerOK, ReviewOK, WorkersOK, HandlersOK, OnTask, At
<1> QED
  BY <1>1, <1>2, <1>3, OperatorType, HandlerErrorType, CrashType DEF Next

(* The variables have the types TypeOK states, with any number of workers, *)
(* handlers and tasks and whatever fails: in particular the copies that    *)
(* the workers and handlers carry between two calls of the stores are      *)
(* rows the stores could hold (internal/gateway, internal/runs).           *)
THEOREM TypeCorrect == Spec => []TypeOK
<1>1. Spec => []TypeInv
  BY InitType, NextType, PTL DEF Spec
<1>2. TypeInv => TypeOK
  BY DEF TypeInv
<1> QED
  BY <1>1, <1>2, PTL

-----------------------------------------------------------------------------
(* At most one goroutine works on the tasks of the run.                    *)
Nobody ==
  /\ \A w \in Workers : ~ Driving(w)
  /\ \A h \in Handlers : ~ AboutToLaunch(h)
DriverInv == OneDriver /\ (session = "none" => Nobody)

LEMMA InitDriver == Init => DriverInv
BY DEF Init, DriverInv, OneDriver, Nobody, Driving, AboutToLaunch

(* No step of a worker makes it drive the run if it did not before, and    *)
(* the only one that pauses the run ends its driving.                      *)
LEMMA WorkerDrives ==
  ASSUME TypeInv, NEW w \in Workers,
         WorkerStep(w) \/ StoreError(w) \/ Timeout(w)
  PROVE  /\ \A v \in Workers : v # w => (Driving(v)' <=> Driving(v))
         /\ Driving(w)' => Driving(w)
         /\ \/ UNCHANGED session
            \/ session' \in Terminal
            \/ session' \in Paused /\ Driving(w) /\ ~ Driving(w)'
<1>1. CASE PauseSession(w)
  BY <1>1 DEF PauseSession, PausedStatus, Paused, Goto, Driving, TypeInv,
              TypeOK, WorkersOK
<1>2. CASE FailSession(w) \/ CompleteSession(w)
  BY <1>2 DEF FailSession, CompleteSession, Terminal, Goto, Exit, Driving,
              TypeInv, TypeOK, WorkersOK
<1>3. CASE ~ PauseSession(w) /\ ~ FailSession(w) /\ ~ CompleteSession(w)
  <2>1. UNCHANGED session
    BY <1>3
       DEF WorkerStep, StoreError, Timeout, dbVars, Goto, Exit,
           SkipCompleted, StopWorking, TakeTask, StartTask, ExecutePending,
           StillPending, LoopCheck, Answer, NextRound, SuspendLoop, Guardrail,
           ModelFails, Record, PlanArtifact, Checks, ChecksWait, CompleteTask,
           SetTaskBlocked, CreateBlocked, FailCheck, MarkTaskFailed, GiveUp,
           FailRun, FailTasks, FailRelease, ReleaseSandbox
  <2>2. /\ \A v \in Workers : v # w => (Driving(v)' <=> Driving(v))
        /\ Driving(w)' => Driving(w)
    BY <1>3
       DEF Driving, TypeInv, TypeOK, WorkersOK, WorkerPC,
           Exit, Goto, Then, OnError, Branch, AtTask, ChecksOrNot,
           PlanOrComplete, WorkerStep, StoreError, Timeout,
           SkipCompleted, StopWorking, TakeTask, StartTask, ExecutePending,
           StillPending, LoopCheck, Answer, NextRound, SuspendLoop, Guardrail,
           ModelFails, Record, PlanArtifact, Checks, ChecksWait, CompleteTask,
           SetTaskBlocked, CreateBlocked, FailCheck, MarkTaskFailed, GiveUp,
           FailRun, FailTasks, FailRelease, ReleaseSandbox
  <2> QED
    BY <2>1, <2>2
<1> QED
  BY <1>1, <1>2, <1>3

LEMMA WorkerDriver ==
  ASSUME TypeInv, DriverInv, NEW w \in Workers,
         WorkerStep(w) \/ StoreError(w) \/ Timeout(w)
  PROVE  DriverInv'
<1>1. UNCHANGED hpc
  BY WorkerFrame DEF handlerVars
<1>2. \A v \in Workers : Driving(v)' => Driving(v)
  BY WorkerDrives
<1>3. \A h \in Handlers : AboutToLaunch(h)' <=> AboutToLaunch(h)
  BY <1>1 DEF AboutToLaunch
<1>4. CASE UNCHANGED session \/ session' \in Terminal
  BY <1>2, <1>3, <1>4 DEF DriverInv, OneDriver, Nobody, Terminal, Paused
<1>5. CASE session' \in Paused /\ Driving(w) /\ ~ Driving(w)'
  <2>1. Nobody'
    BY <1>2, <1>3, <1>5 DEF DriverInv, OneDriver, Nobody
  <2> QED
    BY <2>1, <1>5 DEF DriverInv, OneDriver, Nobody
<1> QED
  BY <1>4, <1>5, WorkerDrives

(* A handler that launches a goroutine was about to, and one that is about *)
(* to has just created the session or won the compare-and-set on it.       *)
LEMMA HandlerDriver ==
  ASSUME TypeInv, DriverInv, NEW h \in Handlers,
         Operator(h) \/ HandlerStep(h) \/ HandlerError(h)
  PROVE  DriverInv'
<1> USE DEF TypeInv, TypeOK, WorkersOK, HandlersOK
<1>1. CASE CreateSession(h)
  BY <1>1 DEF CreateSession, DriverInv, OneDriver, Nobody, Driving,
              AboutToLaunch, workerVars, Paused
<1>2. CASE ResumeSession(h)
  BY <1>2 DEF ResumeSession, Carry, DriverInv, OneDriver, Nobody, Driving,
              AboutToLaunch, workerVars, Paused
<1>3. CASE CreateTasks(h) \/ AcquireSandbox(h)
  <2>1. /\ \A g \in Handlers : AboutToLaunch(g)' <=> AboutToLaunch(g)
        /\ UNCHANGED << session, pc >>
    BY <1>3 DEF CreateTasks, AcquireSandbox, Carry, AboutToLaunch, workerVars
  <2> QED
    BY <2>1 DEF DriverInv, OneDriver, Nobody, Driving
<1>4. CASE LaunchNew(h) \/ Launch(h)
  <2>1. PICK w \in Workers :
          /\ pc[w] = "idle"
          /\ pc' = [pc EXCEPT ![w] = "next"]
    BY <1>4 DEF LaunchNew, Launch, StartRunWorker
  <2>2. /\ AboutToLaunch(h) /\ ~ AboutToLaunch(h)'
        /\ \A g \in Handlers : AboutToLaunch(g)' => AboutToLaunch(g)
        /\ UNCHANGED session
    BY <1>4 DEF LaunchNew, Launch, Carry, AboutToLaunch, dbVars
  <2>3. \A g \in Handlers : ~ AboutToLaunch(g)'
    BY <2>2 DEF DriverInv, OneDriver
  <2>4. \A v \in Workers : Driving(v)' => v = w
    BY <2>1, <2>2 DEF DriverInv, OneDriver, Driving
  <2>5. session' \notin Paused \union {"none"}
    BY <2>2 DEF DriverInv, OneDriver, Nobody
  <2> QED
    BY <2>3, <2>4, <2>5 DEF DriverInv, OneDriver
<1>5. CASE \/ CancelTheTasks(h) \/ ResolveByArtifact(h) \/ ResolveByApproval(h)
           \/ SkipMetadata(h) \/ SkipTask(h) \/ StopSession(h)
           \/ StopTasks(h) \/ HandlerError(h)
  <2>1. UNCHANGED pc /\ (UNCHANGED session \/ session' \in Terminal)
    BY <1>5 DEF CancelTheTasks, ResolveByArtifact, ResolveByApproval,
                SkipMetadata, SkipTask, StopSession, StopTasks, HandlerError,
                workerVars, dbVars, Terminal
  <2>2. \A g \in Handlers : AboutToLaunch(g)' => AboutToLaunch(g)
    BY <1>5 DEF CancelTheTasks, ResolveByArtifact, ResolveByApproval,
                SkipMetadata, SkipTask, StopSession, StopTasks, HandlerError,
                ResumeIfResolved, Carry, AboutToLaunch
  <2> QED
    BY <2>1, <2>2 DEF DriverInv, OneDriver, Nobody, Driving, Terminal, Paused
<1>6. CASE Operator(h) /\ ~ CreateSession(h)
  <2>1. UNCHANGED pc /\ (UNCHANGED session \/ session' \in Terminal)
    BY <1>6 DEF Operator, Resume, Cancel, ApprovePlan, RevisePlan, Decide,
                ResolveBlocked, Request, workerVars, dbVars, Terminal
  <2>2. PICK p \in {"idle", "resume", "cancel_tasks", "resolve_by_artifact",
                   "resolve_by_approval", "skip", "stop_session"} :
          hpc' = [hpc EXCEPT ![h] = p]
    <3>1. CASE Resume(h) \/ Cancel(h)
      BY <3>1 DEF Resume, Cancel, Request
    <3>2. ASSUME NEW q \in DOMAIN plans, ApprovePlan(h, q) \/ RevisePlan(h, q)
          PROVE  \/ hpc' = [hpc EXCEPT ![h] = "resolve_by_artifact"]
                 \/ hpc' = [hpc EXCEPT ![h] = "idle"]
      BY <3>2 DEF ApprovePlan, RevisePlan, Request
    <3>3. ASSUME NEW a \in DOMAIN approvals,
                 Decide(h, "grant", a) \/ Decide(h, "deny", a)
          PROVE  hpc' = [hpc EXCEPT ![h] = "resolve_by_approval"]
      BY <3>3 DEF Decide, Request
    <3>4. ASSUME NEW i \in DOMAIN actions,
                 NEW k \in {"retry", "skip", "stop", "reject", "clarify"},
                 ResolveBlocked(h, k, i)
          PROVE  \E p \in {"idle", "resume", "skip", "stop_session"} :
                   hpc' = [hpc EXCEPT ![h] = p]
      BY <3>4 DEF ResolveBlocked, ResumeIfResolved, Request
    <3> QED
      BY <1>6, <3>1, <3>2, <3>3, <3>4 DEF Operator
  <2>3. \A g \in Handlers : AboutToLaunch(g)' => AboutToLaunch(g)
    BY <2>2 DEF AboutToLaunch
  <2> QED
    BY <2>1, <2>3 DEF DriverInv, OneDriver, Nobody, Driving, Terminal, Paused
<1> QED
  BY <1>1, <1>2, <1>3, <1>4, <1>5, <1>6 DEF HandlerStep

LEMMA NextDriver == TypeInv /\ DriverInv /\ [Next]_vars => DriverInv'
<1> SUFFICES ASSUME TypeInv, DriverInv, [Next]_vars PROVE DriverInv'
  OBVIOUS
<1>1. CASE Crash
  BY <1>1 DEF Crash, dbVars, DriverInv, OneDriver, Nobody, Driving,
              AboutToLaunch
<1>2. CASE UNCHANGED vars
  BY <1>2 DEF vars, dbVars, workerVars, handlerVars, DriverInv, OneDriver,
              Nobody, Driving, AboutToLaunch
<1> QED
  BY <1>1, <1>2, WorkerDriver, HandlerDriver DEF Next

(* Never do two goroutines work on the tasks of one run, and none does     *)
(* while the run is paused, whatever requests race each other and whatever *)
(* fails: stores, timeouts and the gateway itself (startRunWorker,         *)
(* runs.ResumeSession).                                                    *)
THEOREM OneDriverHolds == Spec => []OneDriver
<1>1. Spec => []TypeInv
  BY InitType, NextType, PTL DEF Spec
<1>2. Spec => []DriverInv
  BY <1>1, InitDriver, NextDriver, PTL DEF Spec
<1>3. DriverInv => OneDriver
  BY DEF DriverInv
<1> QED
  BY <1>2, <1>3, PTL

-----------------------------------------------------------------------------
(* Without faults somebody is always at work on a run that is "running".   *)
LEMMA WorkerAtWork ==
  ASSUME TypeInv, Driven, Faults = {}, NEW w \in Workers,
         WorkerStep(w) \/ StoreError(w) \/ Timeout(w)
  PROVE  Driven'
<1> USE DEF TypeInv, TypeOK, WorkersOK
<1>1. UNCHANGED hpc
  BY WorkerFrame DEF handlerVars
<1>2. CASE PauseSession(w) \/ FailSession(w) \/ CompleteSession(w)
  <2>1. session' # "running"
    BY <1>2 DEF PauseSession, FailSession, CompleteSession, PausedStatus
  <2> QED
    BY <2>1 DEF Driven
<1>3. CASE GiveUp(w)
  BY <1>3 DEF GiveUp, dbVars, Driven, Paused
<1>4. CASE ~ PauseSession(w) /\ ~ FailSession(w) /\ ~ CompleteSession(w)
           /\ ~ GiveUp(w)
  <2>1. UNCHANGED session
    BY <1>4, WorkerDrives
       DEF WorkerStep, StoreError, Timeout, dbVars, Goto, Exit,
           SkipCompleted, StopWorking, TakeTask, StartTask, ExecutePending,
           StillPending, LoopCheck, Answer, NextRound, SuspendLoop, Guardrail,
           ModelFails, Record, PlanArtifact, Checks, ChecksWait, CompleteTask,
           SetTaskBlocked, CreateBlocked, FailCheck, MarkTaskFailed,
           FailRun, FailTasks, FailRelease, ReleaseSandbox
  <2>2. \A v \in Workers : AtWork(v) => AtWork(v)'
    <3> USE DEF AtWork, Goto
    <3>1. CASE \/ SkipCompleted(w) \/ StopWorking(w) \/ TakeTask(w)
               \/ StartTask(w) \/ ExecutePending(w) \/ StillPending(w)
               \/ LoopCheck(w)
      BY <3>1 DEF SkipCompleted, StopWorking, TakeTask, StartTask, Then, Branch,
                  ExecutePending, StillPending, LoopCheck, OnError
    <3>2. CASE \/ Answer(w) \/ NextRound(w) \/ SuspendLoop(w) \/ Guardrail(w)
               \/ ModelFails(w) \/ Checks(w) \/ ChecksWait(w)
      BY <3>2 DEF Answer, NextRound, SuspendLoop, Guardrail, ModelFails, OnError,
                  Checks, ChecksWait, PlanOrComplete
    <3>3. CASE Record(w) \/ PlanArtifact(w) \/ CompleteTask(w)
      BY <3>3 DEF Record, PlanArtifact, CompleteTask, Then, OnError,
                  ChecksOrNot, PlanOrComplete
    <3>4. CASE SetTaskBlocked(w) \/ CreateBlocked(w) \/ FailRelease(w)
      BY <3>4 DEF SetTaskBlocked, CreateBlocked, FailRelease, Exit
    <3>5. CASE \/ FailCheck(w) \/ MarkTaskFailed(w) \/ FailRun(w)
               \/ FailTasks(w) \/ ReleaseSandbox(w)
      BY <3>5 DEF FailCheck, MarkTaskFailed, FailRun, FailTasks, ReleaseSandbox,
                  Then, OnError
    <3> QED
      BY <1>4, <3>1, <3>2, <3>3, <3>4, <3>5 DEF WorkerStep, StoreError, Timeout
  <2> QED
    BY <1>1, <2>1, <2>2 DEF Driven, AboutToLaunch
<1> QED
  BY <1>2, <1>3, <1>4

LEMMA HandlerAtWork ==
  ASSUME TypeInv, Driven, Faults = {}, NEW h \in Handlers,
         Operator(h) \/ HandlerStep(h) \/ HandlerError(h)
  PROVE  Driven'
<1> USE DEF TypeInv, TypeOK, WorkersOK, HandlersOK
<1>1. CASE CreateSession(h) \/ CreateTasks(h) \/ AcquireSandbox(h)
  BY <1>1 DEF CreateSession, CreateTasks, AcquireSandbox, Carry, Driven,
              AboutToLaunch
<1>2. CASE LaunchNew(h) \/ Launch(h)
  BY <1>2 DEF LaunchNew, Launch, StartRunWorker, Driven, AtWork
<1>3. CASE ResumeSession(h)
  <2>1. CASE session \in Paused
    BY <1>3, <2>1 DEF ResumeSession, Carry, Driven, AboutToLaunch
  <2>2. CASE session \notin Paused
    BY <1>3, <2>2 DEF ResumeSession, Carry, Driven, AboutToLaunch, AtWork,
                      workerVars
  <2> QED
    BY <2>1, <2>2
<1>4. CASE \/ CancelTheTasks(h) \/ ResolveByArtifact(h) \/ ResolveByApproval(h)
           \/ SkipMetadata(h) \/ SkipTask(h) \/ StopSession(h)
           \/ StopTasks(h)
  <2>1. UNCHANGED pc /\ (UNCHANGED session \/ session' = "cancelled")
    BY <1>4 DEF CancelTheTasks, ResolveByArtifact, ResolveByApproval,
                SkipMetadata, SkipTask, StopSession, StopTasks, workerVars
  <2>2. \A g \in Handlers : AboutToLaunch(g) => AboutToLaunch(g)'
    BY <1>4 DEF CancelTheTasks, ResolveByArtifact, ResolveByApproval,
                SkipMetadata, SkipTask, StopSession, StopTasks,
                Carry, AboutToLaunch
  <2> QED
    BY <2>1, <2>2 DEF Driven, AtWork
<1>5. CASE Operator(h) /\ ~ CreateSession(h)
  <2>1. UNCHANGED pc /\ (UNCHANGED session \/ session' = "cancelled")
    BY <1>5 DEF Operator, Resume, Cancel, ApprovePlan, RevisePlan, Decide,
                ResolveBlocked, Request, workerVars, dbVars
  <2>2. \A g \in Handlers : AboutToLaunch(g) => AboutToLaunch(g)'
    BY <1>5 DEF Operator, Resume, Cancel, ApprovePlan, RevisePlan, Decide,
                ResolveBlocked, Request, AboutToLaunch
  <2> QED
    BY <2>1, <2>2 DEF Driven, AtWork
<1> QED
  BY <1>1, <1>2, <1>3, <1>4, <1>5 DEF HandlerStep, HandlerError

(* Unless a store, a timeout or the gateway fails, a run that is "running" *)
(* has a goroutine working on it or a handler that will launch one; a run  *)
(* that says so with nobody at work could only be cancelled.               *)
THEOREM DrivenHolds ==
  ASSUME Faults = {}
  PROVE  Spec => []Driven
<1>1. Spec => []TypeInv
  BY InitType, NextType, PTL DEF Spec
<1>2. Init => Driven
  BY DEF Init, Driven
<1>3. TypeInv /\ Driven /\ [Next]_vars => Driven'
  <2> SUFFICES ASSUME TypeInv, Driven, [Next]_vars PROVE Driven'
    OBVIOUS
  <2>1. ~ Crash
    BY DEF Crash
  <2>2. CASE UNCHANGED vars
    BY <2>2 DEF vars, dbVars, workerVars, handlerVars, Driven, AtWork,
                AboutToLaunch
  <2> QED
    BY <2>1, <2>2, WorkerAtWork, HandlerAtWork DEF Next
<1> QED
  BY <1>1, <1>2, <1>3, PTL DEF Spec
=============================================================================
