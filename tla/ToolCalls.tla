------------------------------ MODULE ToolCalls ------------------------------
(***************************************************************************)
(* Tool calls from the request to the effect: the tool broker              *)
(* (internal/toolbroker), the policy that asks and remembers what was      *)
(* granted (internal/policy), and the locks on what a call changes         *)
(* (internal/worklocks, the lock file of internal/clirunner).              *)
(*                                                                         *)
(* Calls come from the worker of a run, which comes back to a call that    *)
(* waited for an approval, and from requests of the console, which do not. *)
(* "cli" is the invocation of a CLI agent that may write files: it passes  *)
(* the policy but has no row in tool_call_records; its record here stands  *)
(* for the goroutine itself.  Every step is one call of a store, and no    *)
(* transaction joins two.  A row of tool_call_records is only updated by   *)
(* the caller at work on it, so the read and the write of Store.update are *)
(* one step.  A run has one worker at a time (WorkspaceRun!OneDriver).     *)
(***************************************************************************)
EXTENDS Integers, Sequences

CONSTANTS
  Runs,        (* runs of one project                                      *)
  Consoles,    (* kinds of caller beside the run's worker                  *)
  Operators,   (* those who grant and deny, over HTTP or the command line  *)
  Tools,       (* what is called: see Guarded and Resource                 *)
  MaxCalls,    (* bound: tool calls                                        *)
  Faults       (* subset of {"store", "timeout", "crash"}                  *)

ASSUME ToolsAssumption == Tools \subseteq {"read", "write", "bash", "critical", "cli"}
ASSUME MaxCallsAssumption == MaxCalls \in Nat
ASSUME FaultsAssumption == Faults \subseteq {"store", "timeout", "crash"}

VARIABLES
  approvals,   (* the rows of approvals                                    *)
  calls,       (* the rows of tool_call_records                            *)
  locks,       (* held rows of workspace_locks, lock files of CLI agents   *)
  pc,          (* pc[c]: the next step of caller c                         *)
  at,          (* at[c]: the call c is at work on                          *)
  grant,       (* grant[c]: the approval c goes by                         *)
  opc          (* opc[o]: the decision operator o is about to write        *)

callerVars == << pc, at, grant >>
vars == << approvals, calls, locks, callerVars, opc >>

Callers == Runs \X ({"worker"} \union Consoles)
RunOf(c) == c[1]
IsWorker(c) == c[2] = "worker"

(* registry.RequiresApproval, and a CLI agent that may write files.        *)
Guarded == {"write", "bash", "cli"}
(* The runs that share the workspace of a call: a tool works in the        *)
(* sandbox of its run, a CLI agent in the workspace of its runtime.        *)
Sharers(r, t) == IF t = "cli" THEN Runs ELSE {r}

Call == [caller : Callers, tool : Tools, ask : Nat, by : Nat, times : Nat,
         status : {"pending", "waiting", "running", "completed", "failed"}]
Approval == [run : Runs, tool : Tools, consumed : BOOLEAN, bound : SUBSET Runs,
             status : {"pending", "granted", "denied"},
             scope : {"", "once", "run"}]
(* A lock is on a resource in a workspace.  "write" stands for the calls   *)
(* that write one and the same file, or for those that present artifacts:  *)
(* only these exclude each other.                                          *)
Lock == [runs : SUBSET Runs, resource : Tools, call : Nat]
NoDecision == [approval |-> 0, status |-> "none", scope |-> ""]
Decision == {NoDecision} \union
  [approval : Nat, status : {"granted", "denied"}, scope : {"", "once", "run"}]
CallerPC == {"idle", "refuse", "check", "consume", "bind", "request", "wait",
             "approved", "run", "acquire", "effect", "release", "finish",
             "fail"}

Init ==
  /\ approvals = << >>
  /\ calls = << >>
  /\ locks = {}
  /\ pc = [c \in Callers |-> "idle"]
  /\ at = [c \in Callers |-> 0]
  /\ grant = [c \in Callers |-> 0]
  /\ opc = [o \in Operators |-> NoDecision]

-----------------------------------------------------------------------------
Tool(c) == calls[at[c]].tool
Goto(c, p) == pc' = [pc EXCEPT ![c] = p]
SetStatus(c, s) == calls' = [calls EXCEPT ![at[c]].status = s]

(* Broker.Execute: the record is created.  A critical command (or a CLI    *)
(* agent in a critical workspace) goes no further, a tool without risk     *)
(* needs no approval.                                                      *)
Execute(c, t) ==
  /\ pc[c] = "idle"
  /\ Len(calls) < MaxCalls
  /\ calls' = Append(calls, [caller |-> c, tool |-> t, ask |-> 0, by |-> 0,
                             times |-> 0, status |-> "pending"])
  /\ at' = [at EXCEPT ![c] = Len(calls) + 1]
  /\ grant' = [grant EXCEPT ![c] = 0]
  /\ Goto(c, CASE t = "critical" -> "refuse"
               [] t \in Guarded -> "check"
               [] OTHER -> "run")
  /\ UNCHANGED << approvals, locks, opc >>

(* Mutant of Fail: what was not run is marked as denied. *)
MarkDenied(c) ==
  /\ pc[c] \in {"refuse", "fail"}
  /\ SetStatus(c, "denied")
  /\ Goto(c, "idle")
  /\ UNCHANGED << approvals, locks, at, grant, opc >>

(* MarkFailed, of a call that never ran or of one that did.                *)
Fail(c) ==
  /\ pc[c] \in {"refuse", "fail"}
  /\ SetStatus(c, "failed")
  /\ Goto(c, "idle")
  /\ UNCHANGED << approvals, locks, at, grant, opc >>

(* Fingerprint: project, action type and workspace.                        *)
Matches(a, c) ==
  /\ approvals[a].tool = Tool(c)
  /\ approvals[a].run \in Sharers(RunOf(c), Tool(c))

Usable(a, c) ==
  /\ Matches(a, c)
  /\ approvals[a].status = "granted"
  /\ \/ approvals[a].scope = "once" /\ ~ approvals[a].consumed
     \/ approvals[a].scope = "run" /\ approvals[a].bound \subseteq {RunOf(c)}

(* findUsableGrant: the SELECT.  Which of several usable grants comes      *)
(* first, by the time it was resolved, is left open.                       *)
FindGrant(c) ==
  /\ pc[c] = "check"
  /\ \E a \in DOMAIN approvals :
       /\ Usable(a, c)
       /\ grant' = [grant EXCEPT ![c] = a]
       /\ Goto(c, IF approvals[a].scope = "once" THEN "consume"
                  ELSE IF approvals[a].bound = {} THEN "bind" ELSE "run")
  /\ UNCHANGED << approvals, calls, locks, at, opc >>

NoGrant(c) ==
  /\ pc[c] = "check"
  /\ \A a \in DOMAIN approvals : ~ Usable(a, c)
  /\ Goto(c, "request")
  /\ UNCHANGED << approvals, calls, locks, at, grant, opc >>

(* The UPDATE that goes with it, which does not look again.                *)
Consume(c) ==
  /\ pc[c] = "consume"
  /\ approvals' = [approvals EXCEPT ![grant[c]].consumed = TRUE]
  /\ Goto(c, "run")
  /\ UNCHANGED << calls, locks, at, grant, opc >>

Bind(c) ==
  /\ pc[c] = "bind"
  /\ approvals' = [approvals EXCEPT ![grant[c]].bound = {RunOf(c)}]
  /\ Goto(c, "run")
  /\ UNCHANGED << calls, locks, at, grant, opc >>

(* saveApproval.  The CLI agent is not run; a tool call will wait.         *)
RequestApproval(c) ==
  /\ pc[c] = "request"
  /\ approvals' = Append(approvals,
       [run |-> RunOf(c), tool |-> Tool(c), consumed |-> FALSE, bound |-> {},
        status |-> "pending", scope |-> ""])
  /\ grant' = [grant EXCEPT ![c] = Len(approvals) + 1]
  /\ Goto(c, IF Tool(c) = "cli" THEN "refuse" ELSE "wait")
  /\ UNCHANGED << calls, locks, at, opc >>

MarkWaitingApproval(c) ==
  /\ pc[c] = "wait"
  /\ calls' = [calls EXCEPT ![at[c]].status = "waiting",
                            ![at[c]].ask = grant[c]]
  /\ Goto(c, "idle")
  /\ UNCHANGED << approvals, locks, at, grant, opc >>

(* Mutant of ExecuteApproved: a call left running is taken up again.       *)
TakeUpAgain(c, k) ==
  /\ pc[c] = "idle"
  /\ IsWorker(c)
  /\ calls[k].caller = c
  /\ calls[k].ask # 0
  /\ calls[k].status \notin {"completed", "failed"}
  /\ at' = [at EXCEPT ![c] = k]
  /\ grant' = [grant EXCEPT ![c] = calls[k].ask]
  /\ Goto(c, "approved")
  /\ UNCHANGED << approvals, calls, locks, opc >>

(* ExecuteApprovedRecord, when the run is resumed: the status of the       *)
(* record, and then the status of its approval.                            *)
ExecuteApproved(c, k) ==
  /\ pc[c] = "idle"
  /\ IsWorker(c)
  /\ calls[k].caller = c
  /\ calls[k].status = "waiting"
  /\ at' = [at EXCEPT ![c] = k]
  /\ grant' = [grant EXCEPT ![c] = calls[k].ask]
  /\ Goto(c, "approved")
  /\ UNCHANGED << approvals, calls, locks, opc >>

(* Mutant of LookAtApproval: any answer will do. *)
SkipApproval(c) ==
  /\ pc[c] = "approved"
  /\ Goto(c, "run")
  /\ UNCHANGED << approvals, calls, locks, at, grant, opc >>

LookAtApproval(c) ==
  /\ pc[c] = "approved"
  /\ Goto(c, IF approvals[grant[c]].status = "granted" THEN "run" ELSE "idle")
  /\ UNCHANGED << approvals, calls, locks, at, grant, opc >>

(* MarkRunning.  "by" remembers what the call went by.                     *)
MarkRunning(c) ==
  /\ pc[c] = "run"
  /\ calls' = [calls EXCEPT ![at[c]].status = "running",
                            ![at[c]].by = grant[c]]
  /\ Goto(c, IF Tool(c) \in Guarded THEN "acquire" ELSE "effect")
  /\ UNCHANGED << approvals, locks, at, grant, opc >>

(* Refused before the lock: the sandbox does not permit it, or arguments.  *)
Refuse(c) ==
  /\ pc[c] = "acquire"
  /\ Goto(c, "fail")
  /\ UNCHANGED << approvals, calls, locks, at, grant, opc >>

LockOf(c) ==
  [runs |-> Sharers(RunOf(c), Tool(c)), resource |-> Tool(c), call |-> at[c]]

Free(c) == \A l \in locks : l.resource = LockOf(c).resource
                               => l.runs # LockOf(c).runs

(* Mutant of Acquire: no unique index. *)
AcquireTaken(c) ==
  /\ pc[c] = "acquire"
  /\ locks' = locks \union {LockOf(c)}
  /\ Goto(c, "effect")
  /\ UNCHANGED << approvals, calls, at, grant, opc >>

(* The row is inserted, unless idx_workspace_locks_held forbids it; the    *)
(* lock file is created, unless it exists.                                 *)
Acquire(c) ==
  /\ pc[c] = "acquire"
  /\ IF Free(c) THEN locks' = locks \union {LockOf(c)} /\ Goto(c, "effect")
                ELSE UNCHANGED locks /\ Goto(c, "fail")
  /\ UNCHANGED << approvals, calls, at, grant, opc >>

(* What the call is for: a file written, a command run, an agent invoked.  *)
Effect(c) ==
  /\ pc[c] = "effect"
  /\ calls' = [calls EXCEPT ![at[c]].times = @ + 1]
  /\ Goto(c, IF Tool(c) \in Guarded THEN "release" ELSE "finish")
  /\ UNCHANGED << approvals, locks, at, grant, opc >>

Release(c) ==
  /\ pc[c] = "release"
  /\ locks' = locks \ {LockOf(c)}
  /\ Goto(c, "finish")
  /\ UNCHANGED << approvals, calls, at, grant, opc >>

(* MarkCompleted, or MarkFailed if the work returned an error.             *)
Finish(c) ==
  /\ pc[c] = "finish"
  /\ \E s \in {"completed", "failed"} : SetStatus(c, s)
  /\ Goto(c, "idle")
  /\ UNCHANGED << approvals, locks, at, grant, opc >>

-----------------------------------------------------------------------------
(* An error of the store.  One of the policy's calls fails the tool call;  *)
(* one of Release is ignored; after any other the caller gives up.         *)
StoreFails(c) ==
  /\ "store" \in Faults
  /\ pc[c] \notin {"idle", "effect"}
  /\ Goto(c, CASE pc[c] \in {"check", "consume", "bind", "request", "acquire"}
                    -> "fail"
               [] pc[c] = "release" -> "finish"
               [] OTHER -> "idle")
  /\ UNCHANGED << approvals, calls, locks, at, grant, opc >>

(* The worker's deadline passes, or the console closes its request: every  *)
(* call of a store fails from here on, Release included.  A lock file is   *)
(* removed all the same.                                                   *)
TimesOut(c) ==
  /\ "timeout" \in Faults
  /\ pc[c] # "idle"
  /\ locks' = IF Tool(c) = "cli" THEN locks \ {LockOf(c)} ELSE locks
  /\ Goto(c, "idle")
  /\ UNCHANGED << approvals, calls, at, grant, opc >>

(* The gateway stops: rows and lock files stay.                            *)
Crash ==
  /\ "crash" \in Faults
  /\ \E c \in Callers : pc[c] # "idle"
  /\ pc' = [c \in Callers |-> "idle"]
  /\ UNCHANGED << approvals, calls, locks, at, grant, opc >>

-----------------------------------------------------------------------------
(* Mutant of Look: what is resolved is resolved again. *)
LookAway(o, a, s, scope) ==
  /\ opc[o] = NoDecision
  /\ opc' = [opc EXCEPT ![o] = [approval |-> a, status |-> s, scope |-> scope]]
  /\ UNCHANGED << approvals, calls, locks, callerVars >>

(* Grant and Deny: the approval is looked at, and then written.  Deny      *)
(* leaves the scope alone.                                                 *)
Look(o, a, s, scope) ==
  /\ opc[o] = NoDecision
  /\ approvals[a].status = "pending"
  /\ opc' = [opc EXCEPT ![o] = [approval |-> a, status |-> s, scope |-> scope]]
  /\ UNCHANGED << approvals, calls, locks, callerVars >>

Decide(o) ==
  /\ opc[o] # NoDecision
  /\ approvals' = [approvals EXCEPT ![opc[o].approval].status = opc[o].status,
                                    ![opc[o].approval].scope =
                       IF opc[o].status = "granted" THEN opc[o].scope ELSE @]
  /\ opc' = [opc EXCEPT ![o] = NoDecision]
  /\ UNCHANGED << calls, locks, callerVars >>

CallerStep(c) ==
  \/ \E t \in Tools : Execute(c, t)
  \/ \E k \in DOMAIN calls : ExecuteApproved(c, k)
  \/ FindGrant(c) \/ NoGrant(c) \/ Consume(c) \/ Bind(c)
  \/ RequestApproval(c) \/ MarkWaitingApproval(c) \/ LookAtApproval(c)
  \/ MarkRunning(c) \/ Refuse(c) \/ Acquire(c) \/ Effect(c) \/ Release(c)
  \/ Finish(c) \/ Fail(c) \/ StoreFails(c) \/ TimesOut(c)

OperatorStep(o) ==
  \/ \E a \in DOMAIN approvals :
       \/ Look(o, a, "denied", "")
       \/ \E scope \in {"once", "run"} : Look(o, a, "granted", scope)
  \/ Decide(o)

Next ==
  \/ \E c \in Callers : CallerStep(c)
  \/ \E o \in Operators : OperatorStep(o)
  \/ Crash

Spec == Init /\ [][Next]_vars

-----------------------------------------------------------------------------
(* Types; no call is ever marked as denied: Check, which knows a critical  *)
(* workspace only for CLI agents, has nothing to deny the broker.          *)
TypeOK ==
  /\ approvals \in Seq(Approval)
  /\ calls \in Seq(Call)
  /\ locks \subseteq Lock
  /\ pc \in [Callers -> CallerPC]
  /\ at \in [Callers -> Nat]
  /\ grant \in [Callers -> Nat]
  /\ opc \in [Operators -> Decision]

(* However often a run is resumed, cut off or restarted: no tool call has  *)
(* its effect twice (ExecuteApprovedRecord looks at the record's status).  *)
AtMostOnce == \A k \in DOMAIN calls : calls[k].times <= 1

(* Two callers never write the same file, run a command in the same        *)
(* sandbox or drive an agent in the same workspace at the same time        *)
(* (withWorkspaceLock and the unique index, lockWorkspace and O_EXCL).     *)
Exclusive ==
  \A c, d \in Callers :
    /\ c # d
    /\ {pc[c], pc[d]} \subseteq {"effect", "release"}
    /\ Tool(c) \in Guarded /\ Tool(c) = Tool(d)
    => Sharers(RunOf(c), Tool(c)) # Sharers(RunOf(d), Tool(d))

(* A call with a risk that had its effect went by an approval that is      *)
(* granted, for the same tool, and of its own run unless it is a CLI       *)
(* agent: no denied, pending or foreign approval is ever enough.           *)
Covered ==
  \A k \in DOMAIN calls :
    calls[k].tool \in Guarded /\ calls[k].times > 0
    => LET a == calls[k].by
       IN  /\ a \in DOMAIN approvals
           /\ approvals[a].status = "granted"
           /\ approvals[a].tool = calls[k].tool
           /\ approvals[a].run \in Sharers(RunOf(calls[k].caller), calls[k].tool)

(* A decision stands: once an approval is granted or denied, neither its   *)
(* status nor its scope changes (Grant and Deny look for a pending one).   *)
DecisionStands ==
  [][\A a \in DOMAIN approvals :
       approvals[a].status # "pending"
       => /\ approvals'[a].status = approvals[a].status
          /\ approvals'[a].scope = approvals[a].scope]_vars

(* docs/design/policy-tool-broker.md: a grant "once" is a grant of exactly *)
(* one action.  The code does not keep this: see Stated and refuted in the *)
(* README.                                                                 *)
OnceIsOnce ==
  \A j, k \in DOMAIN calls :
    /\ j # k
    /\ calls[j].times > 0 /\ calls[k].times > 0
    /\ calls[j].by = calls[k].by /\ calls[j].by # 0
    => approvals[calls[j].by].scope # "once"
=============================================================================
