--------------------------- MODULE ToolCallsProofs ---------------------------
(***************************************************************************)
(* Proofs about ToolCalls, for any runs, callers, operators and tools, any *)
(* number of calls and any choice of what may fail.                        *)
(*                                                                         *)
(* All rests on Owned: a caller that is at work has a call of its own, so  *)
(* that what it does to this call is nothing to the others.                *)
(***************************************************************************)
EXTENDS ToolCalls, SequenceTheorems, TLAPS

Owned == \A c \in Callers :
           pc[c] # "idle" => at[c] \in DOMAIN calls /\ calls[at[c]].caller = c
TypeInv == TypeOK /\ Owned

-----------------------------------------------------------------------------
(* Updating an entry of a sequence, wherever it is. *)
LEMMA UpdateEntry ==
  ASSUME NEW S, NEW s \in Seq(S), NEW i, NEW e, i \in DOMAIN s => e \in S
  PROVE  /\ [s EXCEPT ![i] = e] \in Seq(S)
         /\ Len([s EXCEPT ![i] = e]) = Len(s)
         /\ DOMAIN [s EXCEPT ![i] = e] = DOMAIN s
<1>1. CASE i \in DOMAIN s
  BY <1>1, ExceptSeq
<1>2. CASE i \notin DOMAIN s
  <2>1. [s EXCEPT ![i] = e] = s
    BY <1>2
  <2> QED
    BY <2>1
<1> QED
  BY <1>1, <1>2

LEMMA EntryType == ASSUME NEW S, NEW s \in Seq(S), NEW i \in DOMAIN s
                   PROVE  s[i] \in S
BY ElementOfSeq, LenProperties

LEMMA EntryIndex == ASSUME NEW S, NEW s \in Seq(S) PROVE DOMAIN s \subseteq Nat
BY LenProperties

LEMMA CallWith ==
  ASSUME NEW x \in Call, NEW n \in Nat,
         NEW s \in {"pending", "waiting", "running", "completed", "failed"}
  PROVE  /\ [x EXCEPT !.status = s] \in Call
         /\ [x EXCEPT !.status = s, !.ask = n] \in Call
         /\ [x EXCEPT !.status = s, !.by = n] \in Call
         /\ [x EXCEPT !.times = @ + 1] \in Call
<1>1. [x EXCEPT !.status = s] \in Call
  BY DEF Call
<1>2. [x EXCEPT !.status = s, !.ask = n] \in Call
  BY DEF Call
<1>3. [x EXCEPT !.status = s, !.by = n] \in Call
  BY DEF Call
<1>4. [x EXCEPT !.times = @ + 1] \in Call
  BY DEF Call
<1> QED
  BY <1>1, <1>2, <1>3, <1>4

LEMMA ApprovalWith ==
  ASSUME NEW x \in Approval
  PROVE  /\ [x EXCEPT !.consumed = TRUE] \in Approval
         /\ \A r \in Runs : [x EXCEPT !.bound = {r}] \in Approval
         /\ \A s \in {"granted", "denied"}, p \in {"", "once", "run"} :
              [x EXCEPT !.status = s, !.scope = p] \in Approval
<1>1. [x EXCEPT !.consumed = TRUE] \in Approval
  BY DEF Approval
<1>2. ASSUME NEW r \in Runs PROVE [x EXCEPT !.bound = {r}] \in Approval
  BY DEF Approval
<1>3. ASSUME NEW s \in {"granted", "denied"}, NEW p \in {"", "once", "run"}
      PROVE  [x EXCEPT !.status = s, !.scope = p] \in Approval
  BY DEF Approval
<1> QED
  BY <1>1, <1>2, <1>3

(* A caller changes its own call only: nobody else is at work on it. *)
LEMMA CallUpdate ==
  ASSUME TypeInv, NEW c \in Callers, pc[c] # "idle",
         NEW x \in Call, calls' = [calls EXCEPT ![at[c]] = x]
  PROVE  /\ calls' \in Seq(Call)
         /\ DOMAIN calls' = DOMAIN calls
         /\ calls'[at[c]] = x
         /\ \A k \in DOMAIN calls : k # at[c] => calls'[k] = calls[k]
<1>1. calls' \in Seq(Call) /\ DOMAIN calls' = DOMAIN calls
  BY UpdateEntry DEF TypeInv, TypeOK
<1>2. at[c] \in DOMAIN calls
  BY DEF TypeInv, Owned
<1>3. calls'[at[c]] = x /\ \A k \in DOMAIN calls : k # at[c] => calls'[k] = calls[k]
  BY <1>2
<1> QED
  BY <1>1, <1>3

LEMMA Apart ==
  ASSUME TypeInv, NEW c \in Callers, NEW d \in Callers, c # d,
         pc[c] # "idle", pc[d] # "idle"
  PROVE  at[c] # at[d]
BY DEF TypeInv, Owned

-----------------------------------------------------------------------------
(* TypeInv is inductive. *)

(* What c does to types as long as it stays at its call. *)
LEMMA StayTyped ==
  ASSUME TypeInv, NEW c \in Callers, NEW p \in CallerPC, pc[c] # "idle",
         Goto(c, p), at' = at,
         calls' \in Seq(Call), DOMAIN calls' = DOMAIN calls,
         \A k \in DOMAIN calls : calls'[k].caller = calls[k].caller,
         approvals' \in Seq(Approval), locks' \subseteq Lock,
         grant' \in [Callers -> Nat], opc' \in [Operators -> Decision]
  PROVE  TypeInv'
<1>1. pc' \in [Callers -> CallerPC] /\ at' \in [Callers -> Nat]
  BY DEF TypeInv, TypeOK, Goto
<1>2. Owned'
  BY DEF TypeInv, TypeOK, Owned, Goto
<1> QED
  BY <1>1, <1>2 DEF TypeInv, TypeOK

LEMMA QuietTyped ==
  ASSUME TypeInv, NEW c \in Callers, NEW p \in CallerPC, pc[c] # "idle",
         Goto(c, p), calls' = calls, at' = at, opc' = opc,
         approvals' \in Seq(Approval), locks' \subseteq Lock,
         grant' \in [Callers -> Nat]
  PROVE  TypeInv'
<1>1. calls' \in Seq(Call) /\ opc' \in [Operators -> Decision]
  BY DEF TypeInv, TypeOK
<1> QED
  BY <1>1, StayTyped

LEMMA RecordTyped ==
  ASSUME TypeInv, NEW c \in Callers, NEW p \in CallerPC, pc[c] # "idle",
         Goto(c, p), at' = at, opc' = opc,
         approvals' = approvals, locks' = locks, grant' = grant,
         NEW x \in Call, x.caller = c, calls' = [calls EXCEPT ![at[c]] = x]
  PROVE  TypeInv'
<1>1. /\ calls' \in Seq(Call)
      /\ DOMAIN calls' = DOMAIN calls
      /\ calls'[at[c]] = x
      /\ \A k \in DOMAIN calls : k # at[c] => calls'[k] = calls[k]
  BY CallUpdate
<1>2. \A k \in DOMAIN calls : calls'[k].caller = calls[k].caller
  BY <1>1 DEF TypeInv, Owned
<1>3. /\ approvals' \in Seq(Approval) /\ locks' \subseteq Lock
      /\ grant' \in [Callers -> Nat] /\ opc' \in [Operators -> Decision]
  BY DEF TypeInv, TypeOK
<1> QED
  BY <1>1, <1>2, <1>3, StayTyped

LEMMA OwnCall ==
  ASSUME TypeInv, NEW c \in Callers, pc[c] # "idle"
  PROVE  /\ at[c] \in DOMAIN calls
         /\ calls[at[c]] \in Call
         /\ calls[at[c]].caller = c
         /\ Tool(c) \in Tools
         /\ RunOf(c) \in Runs
         /\ LockOf(c).call = at[c]
         /\ LockOf(c) \in Lock
<1>1. at[c] \in DOMAIN calls /\ calls[at[c]].caller = c /\ at[c] \in Nat
  BY DEF TypeInv, TypeOK, Owned
<1>2. calls[at[c]] \in Call
  BY <1>1, EntryType DEF TypeInv, TypeOK
<1>3. Tool(c) \in Tools
  BY <1>2 DEF Tool, Call
<1>4. RunOf(c) \in Runs
  BY DEF RunOf, Callers
<1>5. LockOf(c).call = at[c]
  BY DEF LockOf
<1>6. Sharers(RunOf(c), Tool(c)) \subseteq Runs
  BY <1>4 DEF Sharers
<1>7. LockOf(c) \in Lock
  BY <1>1, <1>3, <1>6 DEF LockOf, Lock
<1> QED
  BY <1>1, <1>2, <1>3, <1>4, <1>5, <1>7

LEMMA ExecuteTyped ==
  ASSUME TypeInv, NEW c \in Callers, NEW t \in Tools, Execute(c, t)
  PROVE  TypeInv'
<1> DEFINE x == [caller |-> c, tool |-> t, ask |-> 0, by |-> 0,
                 times |-> 0, status |-> "pending"]
<1>1. x \in Call
  BY DEF Call
<1>2. /\ calls \in Seq(Call)
      /\ calls' = Append(calls, x)
  BY DEF TypeInv, TypeOK, Execute
<1>3. /\ calls' \in Seq(Call)
      /\ Len(calls') = Len(calls) + 1
      /\ \A k \in 1 .. Len(calls) : calls'[k] = calls[k]
      /\ calls'[Len(calls) + 1] = x
  BY <1>1, <1>2, AppendProperties
<1>4. /\ DOMAIN calls = 1 .. Len(calls) /\ Len(calls) \in Nat
      /\ DOMAIN calls' = 1 .. (Len(calls) + 1)
  BY <1>2, <1>3, LenProperties
<1>5. /\ at' = [at EXCEPT ![c] = Len(calls) + 1]
      /\ grant' = [grant EXCEPT ![c] = 0]
      /\ UNCHANGED << approvals, locks, opc >>
  BY DEF Execute
<1> DEFINE p == CASE t = "critical" -> "refuse"
                  [] t \in Guarded -> "check"
                  [] OTHER -> "run"
<1>6. p \in CallerPC /\ pc' = [pc EXCEPT ![c] = p]
  BY DEF Execute, Goto, CallerPC, Guarded
<1> HIDE DEF p, x
<1>7. TypeOK'
  BY <1>3, <1>4, <1>5, <1>6 DEF TypeInv, TypeOK
<1>8. Owned'
  <2> SUFFICES ASSUME NEW d \in Callers, pc'[d] # "idle"
               PROVE  at'[d] \in DOMAIN calls' /\ calls'[at'[d]].caller = d
    BY DEF Owned
  <2>1. CASE d = c
    <3>1. at'[d] = Len(calls) + 1
      BY <1>5, <2>1 DEF TypeInv, TypeOK
    <3>2. x.caller = c
      BY DEF x
    <3> QED
      BY <1>3, <1>4, <2>1, <3>1, <3>2
  <2>2. CASE d # c
    <3>1. at'[d] = at[d] /\ pc'[d] = pc[d]
      BY <1>5, <1>6, <2>2 DEF TypeInv, TypeOK
    <3>2. at[d] \in DOMAIN calls /\ calls[at[d]].caller = d
      BY <3>1 DEF TypeInv, Owned
    <3> QED
      BY <1>3, <1>4, <3>1, <3>2
  <2> QED
    BY <2>1, <2>2
<1> QED
  BY <1>7, <1>8 DEF TypeInv

LEMMA ExecuteApprovedTyped ==
  ASSUME TypeInv, NEW c \in Callers, NEW k \in DOMAIN calls,
         ExecuteApproved(c, k)
  PROVE  TypeInv'
<1>0. calls[k] \in Call /\ k \in Nat
  BY EntryType, LenProperties DEF TypeInv, TypeOK
<1>1. calls[k].ask \in Nat /\ k \in Nat
  BY <1>0 DEF Call
<1>2. /\ pc' = [pc EXCEPT ![c] = "approved"]
      /\ at' = [at EXCEPT ![c] = k]
      /\ grant' = [grant EXCEPT ![c] = calls[k].ask]
      /\ UNCHANGED << approvals, calls, locks, opc >>
  BY DEF ExecuteApproved, Goto
<1>3. TypeOK'
  BY <1>1, <1>2 DEF TypeInv, TypeOK, CallerPC
<1>4. calls[k].caller = c
  BY DEF ExecuteApproved
<1>5. Owned'
  BY <1>2, <1>4 DEF TypeInv, TypeOK, Owned
<1> QED
  BY <1>3, <1>5 DEF TypeInv

LEMMA CallerTyped ==
  ASSUME TypeInv, NEW c \in Callers, CallerStep(c)
  PROVE  TypeInv'
<1>1. /\ approvals \in Seq(Approval) /\ locks \subseteq Lock
      /\ grant \in [Callers -> Nat]
  BY DEF TypeInv, TypeOK
<1>2. ASSUME NEW p \in CallerPC, pc[c] # "idle", Goto(c, p),
             UNCHANGED << approvals, calls, locks, at, grant, opc >>
      PROVE  TypeInv'
  BY <1>1, <1>2, QuietTyped
<1>3. ASSUME NEW t \in Tools, Execute(c, t) PROVE TypeInv'
  BY <1>3, ExecuteTyped
<1>4. ASSUME NEW k \in DOMAIN calls, ExecuteApproved(c, k) PROVE TypeInv'
  BY <1>4, ExecuteApprovedTyped
<1>5. CASE FindGrant(c)
  <2>1. PICK a \in DOMAIN approvals :
          /\ grant' = [grant EXCEPT ![c] = a]
          /\ Goto(c, IF approvals[a].scope = "once" THEN "consume"
                     ELSE IF approvals[a].bound = {} THEN "bind" ELSE "run")
    BY <1>5 DEF FindGrant
  <2>2. a \in Nat
    BY <1>1, LenProperties
  <2>3. PICK p \in {"consume", "bind", "run"} : Goto(c, p)
    BY <2>1
  <2>4. grant' \in [Callers -> Nat]
    BY <1>1, <2>1, <2>2
  <2>8. /\ pc[c] # "idle" /\ calls' = calls /\ at' = at /\ opc' = opc
        /\ locks' = locks /\ approvals' = approvals
    BY <1>5 DEF FindGrant
  <2> QED
    BY <1>1, <2>3, <2>4, <2>8, QuietTyped DEF CallerPC
<1>6. CASE NoGrant(c)
  BY <1>2, <1>6 DEF NoGrant, CallerPC
<1>7. CASE Consume(c)
  <2> DEFINE x == [approvals[grant[c]] EXCEPT !.consumed = TRUE]
  <2>1. approvals' = [approvals EXCEPT ![grant[c]] = x]
    BY <1>7 DEF Consume
  <2>2. grant[c] \in DOMAIN approvals => x \in Approval
    BY <1>1, EntryType, ApprovalWith
  <2>3. approvals' \in Seq(Approval)
    BY <1>1, <2>1, <2>2, UpdateEntry
  <2>8. /\ pc[c] # "idle" /\ calls' = calls /\ at' = at /\ opc' = opc
        /\ locks' = locks /\ Goto(c, "run") /\ grant' = grant
    BY <1>7 DEF Consume
  <2> QED
    BY <1>1, <2>3, <2>8, QuietTyped DEF CallerPC
<1>8. CASE Bind(c)
  <2> DEFINE x == [approvals[grant[c]] EXCEPT !.bound = {RunOf(c)}]
  <2>1. approvals' = [approvals EXCEPT ![grant[c]] = x]
    BY <1>8 DEF Bind
  <2>2. RunOf(c) \in Runs
    BY DEF RunOf, Callers
  <2>3. grant[c] \in DOMAIN approvals => x \in Approval
    BY <1>1, <2>2, EntryType, ApprovalWith
  <2>4. approvals' \in Seq(Approval)
    BY <1>1, <2>1, <2>3, UpdateEntry
  <2>8. /\ pc[c] # "idle" /\ calls' = calls /\ at' = at /\ opc' = opc
        /\ locks' = locks /\ Goto(c, "run") /\ grant' = grant
    BY <1>8 DEF Bind
  <2> QED
    BY <1>1, <2>4, <2>8, QuietTyped DEF CallerPC
<1>9. CASE RequestApproval(c)
  <2> DEFINE x == [run |-> RunOf(c), tool |-> Tool(c), consumed |-> FALSE,
                   bound |-> {}, status |-> "pending", scope |-> ""]
  <2>1. pc[c] # "idle"
    BY <1>9 DEF RequestApproval
  <2>2. x \in Approval
    BY <2>1, OwnCall DEF Approval
  <2>3. approvals' \in Seq(Approval)
    BY <1>1, <1>9, <2>2, AppendProperties DEF RequestApproval
  <2>4. Len(approvals) + 1 \in Nat
    BY <1>1, LenProperties
  <2>6. grant' \in [Callers -> Nat]
    BY <1>1, <1>9, <2>4 DEF RequestApproval
  <2>5. PICK p \in {"refuse", "wait"} : Goto(c, p)
    BY <1>9 DEF RequestApproval
  <2>8. /\ pc[c] # "idle" /\ calls' = calls /\ at' = at /\ opc' = opc
        /\ locks' = locks
    BY <1>9 DEF RequestApproval
  <2> QED
    BY <1>1, <2>3, <2>5, <2>6, <2>8, QuietTyped DEF CallerPC
<1>10. CASE MarkWaitingApproval(c)
  <2> DEFINE x == [calls[at[c]] EXCEPT !.status = "waiting", !.ask = grant[c]]
  <2>1. calls' = [calls EXCEPT ![at[c]] = x]
    BY <1>10 DEF MarkWaitingApproval
  <2>2. calls[at[c]] \in Call /\ calls[at[c]].caller = c /\ grant[c] \in Nat
    BY <1>1, <1>10, OwnCall DEF MarkWaitingApproval
  <2>4. x \in Call
    BY <2>2, CallWith
  <2>5. x.caller = c
    BY <2>2 DEF Call
  <2>8. /\ pc[c] # "idle" /\ at' = at /\ opc' = opc /\ locks' = locks
        /\ approvals' = approvals /\ grant' = grant /\ Goto(c, "idle")
    BY <1>10 DEF MarkWaitingApproval
  <2> QED
    BY <2>1, <2>4, <2>5, <2>8, RecordTyped DEF CallerPC
<1>11. CASE LookAtApproval(c)
  <2>1. PICK p \in {"run", "idle"} : Goto(c, p)
    BY <1>11 DEF LookAtApproval
  <2> QED
    BY <1>2, <1>11, <2>1 DEF LookAtApproval, CallerPC
<1>12. CASE MarkRunning(c)
  <2> DEFINE x == [calls[at[c]] EXCEPT !.status = "running", !.by = grant[c]]
  <2>1. calls' = [calls EXCEPT ![at[c]] = x]
    BY <1>12 DEF MarkRunning
  <2>2. calls[at[c]] \in Call /\ calls[at[c]].caller = c /\ grant[c] \in Nat
    BY <1>1, <1>12, OwnCall DEF MarkRunning
  <2>4. x \in Call
    BY <2>2, CallWith
  <2>5. x.caller = c
    BY <2>2 DEF Call
  <2>3. PICK p \in {"acquire", "effect"} : Goto(c, p)
    BY <1>12 DEF MarkRunning
  <2>8. /\ pc[c] # "idle" /\ at' = at /\ opc' = opc /\ locks' = locks
        /\ approvals' = approvals /\ grant' = grant
    BY <1>12 DEF MarkRunning
  <2> QED
    BY <2>1, <2>3, <2>4, <2>5, <2>8, RecordTyped DEF CallerPC
<1>13. CASE Refuse(c)
  BY <1>2, <1>13 DEF Refuse, CallerPC
<1>14. CASE Acquire(c)
  <2>1. /\ pc[c] # "idle" /\ calls' = calls /\ at' = at /\ opc' = opc
        /\ approvals' = approvals /\ grant' = grant
    BY <1>14 DEF Acquire
  <2>2. LockOf(c) \in Lock
    BY <2>1, OwnCall
  <2>3. locks' \subseteq Lock
    BY <1>1, <1>14, <2>2 DEF Acquire
  <2>4. PICK p \in {"effect", "fail"} : Goto(c, p)
    BY <1>14 DEF Acquire
  <2> QED
    BY <1>1, <2>1, <2>3, <2>4, QuietTyped DEF CallerPC
<1>15. CASE Effect(c)
  <2> DEFINE x == [calls[at[c]] EXCEPT !.times = @ + 1]
  <2>1. calls' = [calls EXCEPT ![at[c]] = x]
    BY <1>15 DEF Effect
  <2>2. /\ pc[c] # "idle" /\ at' = at /\ opc' = opc /\ locks' = locks
        /\ approvals' = approvals /\ grant' = grant
    BY <1>15 DEF Effect
  <2>3. x \in Call /\ x.caller = c
    BY <2>2, OwnCall DEF Call
  <2>4. PICK p \in {"release", "finish"} : Goto(c, p)
    BY <1>15 DEF Effect
  <2> QED
    BY <2>1, <2>2, <2>3, <2>4, RecordTyped DEF CallerPC
<1>16. CASE Release(c)
  <2>1. /\ pc[c] # "idle" /\ calls' = calls /\ at' = at /\ opc' = opc
        /\ approvals' = approvals /\ grant' = grant /\ Goto(c, "finish")
    BY <1>16 DEF Release
  <2>2. locks' \subseteq Lock
    BY <1>1, <1>16 DEF Release
  <2> QED
    BY <1>1, <2>1, <2>2, QuietTyped DEF CallerPC
<1>17. ASSUME NEW s \in {"completed", "failed"}, SetStatus(c, s),
              pc[c] # "idle", Goto(c, "idle"),
              UNCHANGED << approvals, locks, at, grant, opc >>
       PROVE  TypeInv'
  <2> DEFINE x == [calls[at[c]] EXCEPT !.status = s]
  <2>1. calls' = [calls EXCEPT ![at[c]] = x]
    BY <1>17 DEF SetStatus
  <2>2. x \in Call /\ x.caller = c
    BY <1>17, OwnCall DEF Call
  <2> QED
    BY <1>17, <2>1, <2>2, RecordTyped DEF CallerPC
<1>18. CASE Finish(c)
  <2>1. PICK s \in {"completed", "failed"} : SetStatus(c, s)
    BY <1>18 DEF Finish
  <2> QED
    BY <1>17, <1>18, <2>1 DEF Finish
<1>19. CASE Fail(c)
  BY <1>17, <1>19 DEF Fail
<1>20. CASE StoreFails(c)
  <2>1. PICK p \in {"fail", "finish", "idle"} : Goto(c, p)
    BY <1>20 DEF StoreFails
  <2> QED
    BY <1>2, <1>20, <2>1 DEF StoreFails, CallerPC
<1>21. CASE TimesOut(c)
  <2>1. /\ pc[c] # "idle" /\ calls' = calls /\ at' = at /\ opc' = opc
        /\ approvals' = approvals /\ grant' = grant /\ Goto(c, "idle")
    BY <1>21 DEF TimesOut
  <2>2. locks' \subseteq Lock
    BY <1>1, <1>21 DEF TimesOut
  <2> QED
    BY <1>1, <2>1, <2>2, QuietTyped DEF CallerPC
<1> QED
  BY <1>3, <1>4, <1>5, <1>6, <1>7, <1>8, <1>9, <1>10, <1>11, <1>12, <1>13,
     <1>14, <1>15, <1>16, <1>18, <1>19, <1>20, <1>21 DEF CallerStep

LEMMA OperatorTyped ==
  ASSUME TypeInv, NEW o \in Operators, OperatorStep(o)
  PROVE  TypeInv'
<1>1. Owned'
  BY DEF TypeInv, Owned, OperatorStep, Look, Decide, callerVars
<1>2. ASSUME NEW a \in DOMAIN approvals, NEW s \in {"granted", "denied"},
             NEW p \in {"", "once", "run"}, Look(o, a, s, p)
      PROVE  TypeOK'
  <2>1. approvals \in Seq(Approval) /\ opc \in [Operators -> Decision]
    BY DEF TypeInv, TypeOK
  <2>2. a \in Nat
    BY <2>1, EntryIndex
  <2>3. [approval |-> a, status |-> s, scope |-> p] \in Decision
    BY <2>2 DEF Decision
  <2> DEFINE d == [approval |-> a, status |-> s, scope |-> p]
  <2>4. opc' = [opc EXCEPT ![o] = d]
    BY <1>2, Zenon DEF Look
  <2>5. opc' \in [Operators -> Decision]
    BY <2>1, <2>3, <2>4
  <2> QED
    BY <1>2, <2>5 DEF TypeInv, TypeOK, Look, callerVars
<1>3. CASE Decide(o)
  <2> DEFINE d == opc[o]
             y == approvals[d.approval]
             p == IF d.status = "granted" THEN d.scope ELSE y.scope
             x == [y EXCEPT !.status = d.status, !.scope = p]
  <2>1. /\ approvals \in Seq(Approval) /\ opc \in [Operators -> Decision]
        /\ d \in Decision
    BY DEF TypeInv, TypeOK
  <2>2. approvals' = [approvals EXCEPT ![d.approval] = x]
    BY <1>3 DEF Decide
  <2>3. /\ d.status \in {"granted", "denied"} /\ d.scope \in {"", "once", "run"}
    BY <1>3, <2>1 DEF Decide, Decision
  <2>4. ASSUME d.approval \in DOMAIN approvals PROVE x \in Approval
    <3>1. y \in Approval
      BY <2>1, <2>4, EntryType
    <3>2. p \in {"", "once", "run"}
      BY <2>3, <3>1 DEF Approval
    <3> HIDE DEF y, p
    <3> QED
      BY <2>3, <3>1, <3>2, ApprovalWith
  <2>5. approvals' \in Seq(Approval)
    BY <2>1, <2>2, <2>4, UpdateEntry
  <2>6. opc' \in [Operators -> Decision]
    <3>1. NoDecision \in Decision
      BY DEF Decision
    <3>2. opc' = [opc EXCEPT ![o] = NoDecision]
      BY <1>3 DEF Decide
    <3> QED
      BY <2>1, <3>1, <3>2
  <2>7. UNCHANGED << calls, locks, pc, at, grant >>
    BY <1>3 DEF Decide, callerVars
  <2> QED
    BY <1>1, <2>5, <2>6, <2>7 DEF TypeInv, TypeOK
<1> QED
  BY <1>1, <1>2, <1>3 DEF TypeInv, OperatorStep

LEMMA CrashTyped == ASSUME TypeInv, Crash PROVE TypeInv'
BY DEF TypeInv, TypeOK, Owned, Crash, CallerPC

LEMMA TypeStep == ASSUME TypeInv, [Next]_vars PROVE TypeInv'
<1>1. CASE UNCHANGED vars
  BY <1>1 DEF vars, callerVars, TypeInv, TypeOK, Owned
<1> QED
  BY <1>1, CallerTyped, OperatorTyped, CrashTyped DEF Next

LEMMA TypeInit == ASSUME Init PROVE TypeInv
<1>1. << >> \in Seq(Approval) /\ << >> \in Seq(Call)
  OBVIOUS
<1>2. NoDecision \in Decision
  BY DEF Decision
<1> QED
  BY <1>1, <1>2 DEF Init, TypeInv, TypeOK, Owned, CallerPC

(* Every value of every variable has its type, and no call is ever marked  *)
(* as denied.                                                              *)
THEOREM TypeOKHolds == Spec => []TypeOK
<1>1. TypeInv => TypeOK
  BY DEF TypeInv
<1> QED
  BY <1>1, TypeInit, TypeStep, PTL DEF Spec

-----------------------------------------------------------------------------
(* AtMostOnce.  A call that is still to have its effect has had none, be   *)
(* it that a caller is on its way there, or that the record says so to the *)
(* worker that comes back.                                                 *)
Before == {"refuse", "check", "consume", "bind", "request", "wait",
           "approved", "run", "acquire", "effect"}
OnceInv ==
  /\ AtMostOnce
  /\ \A k \in DOMAIN calls :
       calls[k].status \in {"pending", "waiting"} => calls[k].times = 0
  /\ \A c \in Callers : pc[c] \in Before => calls[at[c]].times = 0
  /\ \A c \in Callers : pc[c] \in {"acquire", "effect"}
                         => calls[at[c]].status = "running"

(* A step that leaves the calls alone and goes on to p.                    *)
LEMMA QuietOnce ==
  ASSUME TypeInv, OnceInv, NEW c \in Callers, NEW p, Goto(c, p),
         calls' = calls, at' = at,
         p \in Before => pc[c] \in Before,
         p \in {"acquire", "effect"} => pc[c] \in {"acquire", "effect"}
  PROVE  OnceInv'
BY DEF TypeInv, TypeOK, OnceInv, AtMostOnce, Goto

(* A step that makes the call of c into x.                                 *)
LEMMA RecordOnce ==
  ASSUME TypeInv, OnceInv, NEW c \in Callers, NEW p, Goto(c, p), at' = at,
         pc[c] # "idle", NEW x \in Call, calls' = [calls EXCEPT ![at[c]] = x],
         x.times <= 1,
         x.status \in {"pending", "waiting"} => x.times = 0,
         p \in Before => x.times = 0,
         p \in {"acquire", "effect"} => x.status = "running"
  PROVE  OnceInv'
<1>1. /\ DOMAIN calls' = DOMAIN calls
      /\ calls'[at[c]] = x
      /\ \A k \in DOMAIN calls : k # at[c] => calls'[k] = calls[k]
  BY CallUpdate
<1>2. /\ AtMostOnce'
      /\ \A k \in DOMAIN calls' :
           calls'[k].status \in {"pending", "waiting"} => calls'[k].times = 0
  BY <1>1 DEF OnceInv, AtMostOnce
<1>3. ASSUME NEW d \in Callers
      PROVE  /\ pc'[d] \in Before => calls'[at'[d]].times = 0
             /\ pc'[d] \in {"acquire", "effect"}
                  => calls'[at'[d]].status = "running"
  <2>1. CASE d = c
    BY <1>1, <2>1 DEF TypeInv, TypeOK, Goto
  <2>2. CASE d # c /\ pc[d] = "idle"
    BY <2>2 DEF TypeInv, TypeOK, Goto, Before
  <2>3. CASE d # c /\ pc[d] # "idle"
    <3>1. calls'[at'[d]] = calls[at[d]] /\ pc'[d] = pc[d]
      BY <1>1, <2>3, Apart, OwnCall DEF TypeInv, TypeOK, Goto
    <3> QED
      BY <3>1 DEF OnceInv
  <2> QED
    BY <2>1, <2>2, <2>3
<1> QED
  BY <1>2, <1>3 DEF OnceInv

LEMMA ExecuteOnce ==
  ASSUME TypeInv, OnceInv, NEW c \in Callers, NEW t \in Tools, Execute(c, t)
  PROVE  OnceInv'
<1> DEFINE x == [caller |-> c, tool |-> t, ask |-> 0, by |-> 0,
                 times |-> 0, status |-> "pending"]
<1>1. x \in Call /\ x.times = 0
  BY DEF Call
<1>2. calls \in Seq(Call) /\ calls' = Append(calls, x)
  BY DEF TypeInv, TypeOK, Execute
<1>3. /\ \A k \in 1 .. Len(calls) : calls'[k] = calls[k]
      /\ calls'[Len(calls) + 1] = x
      /\ DOMAIN calls = 1 .. Len(calls) /\ Len(calls) \in Nat
      /\ DOMAIN calls' = 1 .. (Len(calls) + 1)
  BY <1>1, <1>2, AppendProperties, LenProperties
<1>4. at' = [at EXCEPT ![c] = Len(calls) + 1]
  BY DEF Execute
<1> DEFINE p == CASE t = "critical" -> "refuse"
                  [] t \in Guarded -> "check"
                  [] OTHER -> "run"
<1>5. p \notin {"acquire", "effect"} /\ pc' = [pc EXCEPT ![c] = p]
  BY DEF Execute, Goto
<1> HIDE DEF p, x
<1>6. /\ AtMostOnce'
      /\ \A k \in DOMAIN calls' :
           calls'[k].status \in {"pending", "waiting"} => calls'[k].times = 0
  BY <1>1, <1>3 DEF OnceInv, AtMostOnce
<1>7. ASSUME NEW d \in Callers
      PROVE  /\ pc'[d] \in Before => calls'[at'[d]].times = 0
             /\ pc'[d] \in {"acquire", "effect"}
                  => calls'[at'[d]].status = "running"
  <2>1. CASE d = c
    <3>1. at'[d] = Len(calls) + 1 /\ pc'[d] = p
      BY <1>4, <1>5, <2>1 DEF TypeInv, TypeOK
    <3> QED
      BY <1>1, <1>3, <1>5, <3>1
  <2>2. CASE d # c /\ pc[d] = "idle"
    BY <1>5, <2>2 DEF TypeInv, TypeOK, Before
  <2>3. CASE d # c /\ pc[d] # "idle"
    <3>1. at'[d] = at[d] /\ pc'[d] = pc[d] /\ at[d] \in DOMAIN calls
      BY <1>4, <1>5, <2>3, OwnCall DEF TypeInv, TypeOK
    <3>2. calls'[at'[d]] = calls[at[d]]
      BY <1>3, <3>1
    <3> QED
      BY <3>1, <3>2 DEF OnceInv
  <2> QED
    BY <2>1, <2>2, <2>3
<1> QED
  BY <1>6, <1>7 DEF OnceInv

LEMMA ExecuteApprovedOnce ==
  ASSUME TypeInv, OnceInv, NEW c \in Callers, NEW k \in DOMAIN calls,
         ExecuteApproved(c, k)
  PROVE  OnceInv'
<1>1. /\ pc' = [pc EXCEPT ![c] = "approved"]
      /\ at' = [at EXCEPT ![c] = k]
      /\ calls' = calls
      /\ calls[k].status = "waiting"
  BY DEF ExecuteApproved, Goto
<1>2. calls[k].times = 0
  BY <1>1 DEF OnceInv
<1> QED
  BY <1>1, <1>2 DEF TypeInv, TypeOK, OnceInv, AtMostOnce

LEMMA CallerOnce ==
  ASSUME TypeInv, OnceInv, NEW c \in Callers, CallerStep(c)
  PROVE  OnceInv'
<1>1. ASSUME NEW t \in Tools, Execute(c, t) PROVE OnceInv'
  BY <1>1, ExecuteOnce
<1>2. ASSUME NEW k \in DOMAIN calls, ExecuteApproved(c, k) PROVE OnceInv'
  BY <1>2, ExecuteApprovedOnce
<1>3. ASSUME NEW p \in {"idle", "refuse", "consume", "bind", "request",
                        "wait", "run"},
             Goto(c, p), pc[c] \in Before, calls' = calls, at' = at
      PROVE  OnceInv'
  BY <1>3, QuietOnce
<1>4. CASE FindGrant(c)
  <2>1. PICK p \in {"consume", "bind", "run"} : Goto(c, p)
    BY <1>4 DEF FindGrant
  <2> QED
    BY <1>3, <1>4, <2>1 DEF FindGrant, Before
<1>5. CASE NoGrant(c)
  BY <1>3, <1>5 DEF NoGrant, Before
<1>6. CASE Consume(c)
  BY <1>3, <1>6 DEF Consume, Before
<1>7. CASE Bind(c)
  BY <1>3, <1>7 DEF Bind, Before
<1>8. CASE RequestApproval(c)
  <2>1. PICK p \in {"refuse", "wait"} : Goto(c, p)
    BY <1>8 DEF RequestApproval
  <2> QED
    BY <1>3, <1>8, <2>1 DEF RequestApproval, Before
<1>9. CASE LookAtApproval(c)
  <2>1. PICK p \in {"run", "idle"} : Goto(c, p)
    BY <1>9 DEF LookAtApproval
  <2> QED
    BY <1>3, <1>9, <2>1 DEF LookAtApproval, Before
<1>10. ASSUME NEW p \in {"idle", "fail", "finish"}, Goto(c, p),
              calls' = calls, at' = at
       PROVE  OnceInv'
  BY <1>10, QuietOnce DEF Before
<1>11. CASE Refuse(c)
  BY <1>10, <1>11 DEF Refuse
<1>12. CASE Acquire(c)
  <2>1. pc[c] = "acquire" /\ calls' = calls /\ at' = at
    BY <1>12 DEF Acquire
  <2>2. PICK p \in {"effect", "fail"} : Goto(c, p)
    BY <1>12 DEF Acquire
  <2> QED
    BY <2>1, <2>2, QuietOnce DEF Before
<1>13. CASE Release(c)
  BY <1>10, <1>13 DEF Release
<1>14. CASE StoreFails(c)
  <2>1. PICK p \in {"fail", "finish", "idle"} : Goto(c, p)
    BY <1>14 DEF StoreFails
  <2> QED
    BY <1>10, <1>14, <2>1 DEF StoreFails
<1>15. CASE TimesOut(c)
  BY <1>10, <1>15 DEF TimesOut
<1>16. CASE MarkWaitingApproval(c)
  <2> DEFINE x == [calls[at[c]] EXCEPT !.status = "waiting", !.ask = grant[c]]
  <2>1. /\ calls' = [calls EXCEPT ![at[c]] = x] /\ at' = at
        /\ Goto(c, "idle") /\ pc[c] = "wait"
    BY <1>16 DEF MarkWaitingApproval
  <2>2. calls[at[c]] \in Call /\ grant[c] \in Nat
    BY <2>1, OwnCall DEF TypeInv, TypeOK
  <2>3. x \in Call
    BY <2>2, CallWith
  <2>4. x.times = 0 /\ x.times <= 1
    BY <2>1, <2>2 DEF OnceInv, Before, Call
  <2>5. "idle" \notin Before /\ "idle" \notin {"acquire", "effect"}
    BY DEF Before
  <2>6. pc[c] # "idle"
    BY <2>1
  <2> HIDE DEF x
  <2> QED
    BY <2>1, <2>3, <2>4, <2>5, <2>6, RecordOnce, Zenon
<1>17. CASE MarkRunning(c)
  <2> DEFINE x == [calls[at[c]] EXCEPT !.status = "running", !.by = grant[c]]
  <2>1. /\ calls' = [calls EXCEPT ![at[c]] = x] /\ at' = at /\ pc[c] = "run"
    BY <1>17 DEF MarkRunning
  <2>2. PICK p \in {"acquire", "effect"} : Goto(c, p)
    BY <1>17 DEF MarkRunning
  <2>3. calls[at[c]] \in Call /\ grant[c] \in Nat
    BY <2>1, OwnCall DEF TypeInv, TypeOK
  <2>4. x \in Call
    BY <2>3, CallWith
  <2>5. x.times = 0 /\ x.times <= 1 /\ x.status = "running"
    BY <2>1, <2>3 DEF OnceInv, Before, Call
  <2> HIDE DEF x
  <2> QED
    BY <2>1, <2>2, <2>4, <2>5, RecordOnce
<1>18. CASE Effect(c)
  <2> DEFINE x == [calls[at[c]] EXCEPT !.times = @ + 1]
  <2>1. /\ calls' = [calls EXCEPT ![at[c]] = x] /\ at' = at /\ pc[c] = "effect"
    BY <1>18 DEF Effect
  <2>2. PICK p \in {"release", "finish"} : Goto(c, p)
    BY <1>18 DEF Effect
  <2>3. calls[at[c]] \in Call
    BY <2>1, OwnCall
  <2>4. x \in Call
    BY <2>3, CallWith
  <2>5. x.times <= 1 /\ x.status = "running"
    BY <2>1, <2>3 DEF OnceInv, Before, Call
  <2>6. p \notin Before
    BY DEF Before
  <2> HIDE DEF x
  <2> QED
    BY <2>1, <2>2, <2>4, <2>5, <2>6, RecordOnce
<1>19. ASSUME NEW s \in {"completed", "failed"}, SetStatus(c, s),
              pc[c] # "idle", Goto(c, "idle"), at' = at
       PROVE  OnceInv'
  <2> DEFINE x == [calls[at[c]] EXCEPT !.status = s]
  <2>1. calls' = [calls EXCEPT ![at[c]] = x]
    BY <1>19 DEF SetStatus
  <2>2. calls[at[c]] \in Call /\ at[c] \in DOMAIN calls
    BY <1>19, OwnCall
  <2>3. x \in Call
    BY <2>2, CallWith
  <2>4. x.times = calls[at[c]].times /\ x.status = s
    BY <2>2 DEF Call
  <2>5. x.times <= 1
    BY <2>2, <2>4 DEF OnceInv, AtMostOnce
  <2>6. "idle" \notin Before
    BY DEF Before
  <2> HIDE DEF x
  <2> QED
    BY <1>19, <2>1, <2>3, <2>4, <2>5, <2>6, RecordOnce
<1>20. CASE Finish(c)
  <2>1. PICK s \in {"completed", "failed"} : SetStatus(c, s)
    BY <1>20 DEF Finish
  <2> QED
    BY <1>19, <1>20, <2>1 DEF Finish
<1>21. CASE Fail(c)
  BY <1>19, <1>21 DEF Fail
<1> QED
  BY <1>1, <1>2, <1>4, <1>5, <1>6, <1>7, <1>8, <1>9, <1>11, <1>12, <1>13,
     <1>14, <1>15, <1>16, <1>17, <1>18, <1>20, <1>21 DEF CallerStep

LEMMA OnceStep == ASSUME TypeInv, OnceInv, [Next]_vars PROVE OnceInv'
<1>1. CASE UNCHANGED << calls, at, pc >>
  BY <1>1 DEF OnceInv, AtMostOnce
<1>2. CASE Crash
  BY <1>2 DEF Crash, OnceInv, AtMostOnce, Before
<1>3. ASSUME NEW o \in Operators, OperatorStep(o)
      PROVE  UNCHANGED << calls, at, pc >>
  BY <1>3 DEF OperatorStep, Look, Decide, callerVars
<1>4. UNCHANGED vars => UNCHANGED << calls, at, pc >>
  BY DEF vars, callerVars
<1> QED
  BY <1>1, <1>2, <1>3, <1>4, CallerOnce DEF Next

LEMMA OnceInit == ASSUME Init PROVE OnceInv
BY DEF Init, OnceInv, AtMostOnce, Before

(* However often a run is resumed, cut off or restarted, no tool call has  *)
(* its effect twice.                                                       *)
THEOREM AtMostOnceHolds == Spec => []AtMostOnce
<1>1. OnceInv => AtMostOnce
  BY DEF OnceInv
<1> QED
  BY <1>1, TypeInit, TypeStep, OnceInit, OnceStep, PTL DEF Spec

-----------------------------------------------------------------------------
(* Exclusive.  A caller that is at its effect holds a lock, and a resource *)
(* in a workspace has one lock at most.                                    *)
Working == {"effect", "release"}
LockInv ==
  /\ \A c \in Callers :
       pc[c] \in Working /\ Tool(c) \in Guarded => LockOf(c) \in locks
  /\ \A l, m \in locks : l.runs = m.runs /\ l.resource = m.resource => l = m

LEMMA LockFields ==
  /\ \A c \in Callers : /\ LockOf(c).call = at[c]
                        /\ LockOf(c).resource = Tool(c)
                        /\ LockOf(c).runs = Sharers(RunOf(c), Tool(c))
BY DEF LockOf

LEMMA LockInvExclusive == ASSUME TypeInv, LockInv PROVE Exclusive
<1> SUFFICES ASSUME NEW c \in Callers, NEW d \in Callers, c # d,
                    pc[c] \in Working, pc[d] \in Working,
                    Tool(c) \in Guarded, Tool(c) = Tool(d),
                    Sharers(RunOf(c), Tool(c)) = Sharers(RunOf(d), Tool(d))
             PROVE  FALSE
  BY DEF Exclusive, Working
<1>1. LockOf(c) \in locks /\ LockOf(d) \in locks
  BY DEF LockInv
<1>2. LockOf(c) = LockOf(d)
  BY <1>1, LockFields DEF LockInv
<1>3. at[c] = at[d]
  BY <1>2, LockFields
<1> QED
  BY <1>3, Apart DEF Working

(* The tool of a call never changes.                                       *)
KeepsTools ==
  /\ \A k \in DOMAIN calls : k \in DOMAIN calls' /\ calls'[k].tool = calls[k].tool

(* A step of c that takes and gives back no other lock than its own.       *)
LEMMA OthersHold ==
  ASSUME TypeInv, LockInv, NEW c \in Callers, KeepsTools,
         NEW d \in Callers, d # c, pc'[d] = pc[d], at'[d] = at[d],
         pc[d] \in Working, Tool(d)' \in Guarded,
         LockOf(d) \in locks => LockOf(d) \in locks'
  PROVE  (LockOf(d) \in locks)'
<1>1. at[d] \in DOMAIN calls
  BY OwnCall DEF Working
<1>2. Tool(d)' = Tool(d)
  BY <1>1 DEF Tool, KeepsTools
<1>3. LockOf(d)' = LockOf(d)
  BY <1>2 DEF LockOf
<1> QED
  BY <1>2, <1>3 DEF LockInv

LEMMA SameTools == ASSUME calls' = calls PROVE KeepsTools
BY DEF KeepsTools

LEMMA RecordTools ==
  ASSUME TypeInv, NEW c \in Callers, pc[c] # "idle", NEW x \in Call,
         x.tool = calls[at[c]].tool, calls' = [calls EXCEPT ![at[c]] = x]
  PROVE  KeepsTools
BY CallUpdate DEF KeepsTools

LEMMA CallerKeepsTools ==
  ASSUME TypeInv, NEW c \in Callers, CallerStep(c)
  PROVE  KeepsTools
<1>1. ASSUME NEW t \in Tools, Execute(c, t) PROVE KeepsTools
  <2> DEFINE x == [caller |-> c, tool |-> t, ask |-> 0, by |-> 0,
                   times |-> 0, status |-> "pending"]
  <2>1. x \in Call
    BY DEF Call
  <2>2. calls \in Seq(Call) /\ calls' = Append(calls, x)
    BY <1>1 DEF TypeInv, TypeOK, Execute
  <2> HIDE DEF x
  <2>3. /\ \A k \in 1 .. Len(calls) : calls'[k] = calls[k]
        /\ DOMAIN calls = 1 .. Len(calls) /\ Len(calls) \in Nat
        /\ DOMAIN calls' = 1 .. (Len(calls) + 1)
    BY <2>1, <2>2, AppendProperties, LenProperties
  <2> QED
    BY <2>3 DEF KeepsTools
<1>2. CASE MarkWaitingApproval(c)
  <2> DEFINE x == [calls[at[c]] EXCEPT !.status = "waiting", !.ask = grant[c]]
  <2>1. calls' = [calls EXCEPT ![at[c]] = x] /\ pc[c] # "idle"
    BY <1>2 DEF MarkWaitingApproval
  <2>2. calls[at[c]] \in Call /\ grant[c] \in Nat
    BY <2>1, OwnCall DEF TypeInv, TypeOK
  <2>3. x \in Call
    BY <2>2, CallWith
  <2>4. x.tool = calls[at[c]].tool
    BY <2>2 DEF Call
  <2> HIDE DEF x
  <2> QED
    BY <2>1, <2>3, <2>4, RecordTools
<1>3. CASE MarkRunning(c)
  <2> DEFINE x == [calls[at[c]] EXCEPT !.status = "running", !.by = grant[c]]
  <2>1. calls' = [calls EXCEPT ![at[c]] = x] /\ pc[c] # "idle"
    BY <1>3 DEF MarkRunning
  <2>2. calls[at[c]] \in Call /\ grant[c] \in Nat
    BY <2>1, OwnCall DEF TypeInv, TypeOK
  <2>3. x \in Call
    BY <2>2, CallWith
  <2>4. x.tool = calls[at[c]].tool
    BY <2>2 DEF Call
  <2> HIDE DEF x
  <2> QED
    BY <2>1, <2>3, <2>4, RecordTools
<1>4. CASE Effect(c)
  <2> DEFINE x == [calls[at[c]] EXCEPT !.times = @ + 1]
  <2>1. calls' = [calls EXCEPT ![at[c]] = x] /\ pc[c] # "idle"
    BY <1>4 DEF Effect
  <2>2. calls[at[c]] \in Call
    BY <2>1, OwnCall
  <2>3. x \in Call
    BY <2>2, CallWith
  <2>4. x.tool = calls[at[c]].tool
    BY <2>2 DEF Call
  <2> HIDE DEF x
  <2> QED
    BY <2>1, <2>3, <2>4, RecordTools
<1>5. ASSUME NEW s \in {"completed", "failed"}, SetStatus(c, s), pc[c] # "idle"
      PROVE  KeepsTools
  <2> DEFINE x == [calls[at[c]] EXCEPT !.status = s]
  <2>1. calls' = [calls EXCEPT ![at[c]] = x]
    BY <1>5 DEF SetStatus
  <2>2. calls[at[c]] \in Call
    BY <1>5, OwnCall
  <2>3. x \in Call
    BY <2>2, CallWith
  <2>4. x.tool = calls[at[c]].tool
    BY <2>2 DEF Call
  <2> HIDE DEF x
  <2> QED
    BY <1>5, <2>1, <2>3, <2>4, RecordTools
<1>6. CASE Finish(c) \/ Fail(c)
  <2>1. PICK s \in {"completed", "failed"} : SetStatus(c, s)
    BY <1>6 DEF Finish, Fail
  <2>2. pc[c] # "idle"
    BY <1>6 DEF Finish, Fail
  <2> QED
    BY <1>5, <2>1, <2>2
<1>7. CASE calls' = calls
  BY <1>7, SameTools
<1>8. ASSUME NEW k \in DOMAIN calls, ExecuteApproved(c, k) PROVE calls' = calls
  BY <1>8 DEF ExecuteApproved
<1>9. CASE \/ FindGrant(c) \/ NoGrant(c) \/ Consume(c) \/ Bind(c)
           \/ RequestApproval(c) \/ LookAtApproval(c) \/ Refuse(c) \/ Acquire(c)
           \/ Release(c) \/ StoreFails(c) \/ TimesOut(c)
  <2>1. calls' = calls
    BY <1>9 DEF FindGrant, NoGrant, Consume, Bind, RequestApproval,
       LookAtApproval, Refuse, Acquire, Release, StoreFails, TimesOut
  <2> QED
    BY <1>7, <2>1
<1> QED
  BY <1>1, <1>2, <1>3, <1>4, <1>6, <1>7, <1>8, <1>9 DEF CallerStep

(* A caller leaves the others where they are.                              *)
LEMMA CallerFrame ==
  ASSUME TypeInv, NEW c \in Callers, CallerStep(c),
         NEW d \in Callers, d # c
  PROVE  pc'[d] = pc[d] /\ at'[d] = at[d]
<1>1. pc \in [Callers -> CallerPC] /\ at \in [Callers -> Nat]
  BY DEF TypeInv, TypeOK
<1>2. ASSUME NEW p, Goto(c, p) PROVE pc'[d] = pc[d]
  BY <1>1, <1>2 DEF Goto
<1>3. ASSUME NEW t \in Tools, Execute(c, t) PROVE pc'[d] = pc[d] /\ at'[d] = at[d]
  <2>1. at' = [at EXCEPT ![c] = Len(calls) + 1]
    BY <1>3 DEF Execute
  <2> QED
    BY <1>1, <1>2, <1>3, <2>1 DEF Execute
<1>4. ASSUME NEW k \in DOMAIN calls, ExecuteApproved(c, k)
      PROVE  pc'[d] = pc[d] /\ at'[d] = at[d]
  BY <1>1, <1>2, <1>4 DEF ExecuteApproved
<1>5. CASE \/ FindGrant(c) \/ NoGrant(c) \/ Consume(c) \/ Bind(c)
           \/ RequestApproval(c) \/ MarkWaitingApproval(c) \/ LookAtApproval(c)
           \/ MarkRunning(c) \/ Refuse(c)
  BY <1>2, <1>5 DEF FindGrant, NoGrant, Consume, Bind, RequestApproval,
     MarkWaitingApproval, LookAtApproval, MarkRunning, Refuse
<1>6. CASE \/ Acquire(c) \/ Effect(c) \/ Release(c) \/ Finish(c) \/ Fail(c)
           \/ StoreFails(c) \/ TimesOut(c)
  BY <1>2, <1>6 DEF Acquire, Effect, Release, Finish, Fail, StoreFails, TimesOut
<1> QED
  BY <1>3, <1>4, <1>5, <1>6 DEF CallerStep

LEMMA CallerLock ==
  ASSUME TypeInv, LockInv, NEW c \in Callers, CallerStep(c),
         \A d \in Callers \ {c} : pc[d] \in Working /\ LockOf(d) \in locks
                                   => LockOf(d) \in locks',
         \A l, m \in locks' : l.runs = m.runs /\ l.resource = m.resource => l = m,
         (pc[c] \in Working /\ Tool(c) \in Guarded => LockOf(c) \in locks)'
  PROVE  LockInv'
<1>1. ASSUME NEW d \in Callers, d # c, (pc[d] \in Working /\ Tool(d) \in Guarded)'
      PROVE  (LockOf(d) \in locks)'
  <2>1. pc'[d] = pc[d] /\ at'[d] = at[d]
    BY <1>1, CallerFrame
  <2>2. KeepsTools
    BY CallerKeepsTools
  <2> QED
    BY <1>1, <2>1, <2>2, OthersHold
<1> QED
  BY <1>1 DEF LockInv

LEMMA SameLock ==
  ASSUME TypeInv, NEW c \in Callers, CallerStep(c), pc[c] # "idle", at' = at
  PROVE  Tool(c)' = Tool(c) /\ LockOf(c)' = LockOf(c)
<1>1. at[c] \in DOMAIN calls
  BY OwnCall
<1>2. Tool(c)' = Tool(c)
  BY <1>1, CallerKeepsTools DEF KeepsTools, Tool
<1> QED
  BY <1>2 DEF LockOf

(* A step of c to p, somewhere it needs no lock.                           *)
LEMMA LockFree ==
  ASSUME TypeInv, LockInv, NEW c \in Callers, CallerStep(c), locks' = locks,
         NEW p, Goto(c, p), p \notin Working
  PROVE  LockInv'
<1>1. pc'[c] = p
  BY DEF Goto, TypeInv, TypeOK
<1>2. \A l, m \in locks' : l.runs = m.runs /\ l.resource = m.resource => l = m
  BY DEF LockInv
<1> QED
  BY <1>1, <1>2, CallerLock

(* A step of c that gives back its lock.                                   *)
LEMMA LockBack ==
  ASSUME TypeInv, LockInv, NEW c \in Callers, CallerStep(c), pc[c] # "idle",
         locks' = locks \ {LockOf(c)}, NEW p, Goto(c, p), p \notin Working
  PROVE  LockInv'
<1>1. pc'[c] = p
  BY DEF Goto, TypeInv, TypeOK
<1>2. \A l, m \in locks' : l.runs = m.runs /\ l.resource = m.resource => l = m
  BY DEF LockInv
<1>3. ASSUME NEW d \in Callers \ {c}, pc[d] \in Working, LockOf(d) \in locks
      PROVE  LockOf(d) \in locks'
  <2>1. at[d] # at[c]
    BY <1>3, Apart DEF Working
  <2>2. LockOf(d) # LockOf(c)
    BY <2>1, LockFields
  <2> QED
    BY <1>3, <2>2
<1> QED
  BY <1>1, <1>2, <1>3, CallerLock

LEMMA AcquireLock ==
  ASSUME TypeInv, LockInv, NEW c \in Callers, CallerStep(c), Acquire(c)
  PROVE  LockInv'
<1>1. CASE ~ Free(c)
  <2>1. locks' = locks /\ Goto(c, "fail") /\ "fail" \notin Working
    BY <1>1 DEF Acquire, Working
  <2> QED
    BY <2>1, LockFree
<1>2. CASE Free(c)
  <2>1. locks' = locks \union {LockOf(c)} /\ at' = at /\ pc[c] # "idle"
    BY <1>2 DEF Acquire
  <2>2. LockOf(c)' = LockOf(c)
    BY <2>1, SameLock
  <2>3. \A l \in locks : ~ (/\ l.runs = LockOf(c).runs
                            /\ l.resource = LockOf(c).resource)
    BY <1>2 DEF Free
  <2>4. \A l, m \in locks' : l.runs = m.runs /\ l.resource = m.resource => l = m
    BY <2>1, <2>3 DEF LockInv
  <2> QED
    BY <2>1, <2>2, <2>4, CallerLock
<1> QED
  BY <1>1, <1>2

LEMMA EffectLock ==
  ASSUME TypeInv, LockInv, NEW c \in Callers, CallerStep(c), Effect(c)
  PROVE  LockInv'
<1>1. locks' = locks /\ at' = at /\ pc[c] = "effect"
  BY DEF Effect
<1>2. Tool(c)' = Tool(c) /\ LockOf(c)' = LockOf(c)
  BY <1>1, SameLock
<1>3. Tool(c) \in Guarded => LockOf(c) \in locks
  BY <1>1 DEF LockInv, Working
<1>4. \A l, m \in locks' : l.runs = m.runs /\ l.resource = m.resource => l = m
  BY <1>1 DEF LockInv
<1> QED
  BY <1>1, <1>2, <1>3, <1>4, CallerLock

LEMMA MarkRunningLock ==
  ASSUME TypeInv, LockInv, NEW c \in Callers, CallerStep(c), MarkRunning(c)
  PROVE  LockInv'
<1>1. locks' = locks /\ at' = at /\ pc[c] # "idle"
  BY DEF MarkRunning
<1>2. CASE Tool(c) \in Guarded
  <2>1. Goto(c, "acquire") /\ "acquire" \notin Working
    BY <1>2 DEF MarkRunning, Working
  <2> QED
    BY <1>1, <2>1, LockFree
<1>3. CASE Tool(c) \notin Guarded
  <2>1. Tool(c)' \notin Guarded
    BY <1>1, <1>3, SameLock
  <2>2. \A l, m \in locks' : l.runs = m.runs /\ l.resource = m.resource => l = m
    BY <1>1 DEF LockInv
  <2> QED
    BY <1>1, <2>1, <2>2, CallerLock DEF Guarded
<1> QED
  BY <1>2, <1>3

LEMMA CallerLockStep ==
  ASSUME TypeInv, LockInv, NEW c \in Callers, CallerStep(c)
  PROVE  LockInv'
<1> DEFINE Idle == {"idle", "refuse", "check", "consume", "bind", "request",
                    "wait", "approved", "run", "finish", "fail"}
<1>1. ASSUME NEW p \in Idle, Goto(c, p), locks' = locks PROVE LockInv'
  <2>1. p \notin Working
    BY DEF Working
  <2> QED
    BY <1>1, <2>1, LockFree
<1>2. ASSUME NEW t \in Tools, Execute(c, t) PROVE LockInv'
  <2>1. PICK p \in {"refuse", "check", "run"} : Goto(c, p)
    BY <1>2 DEF Execute
  <2> QED
    BY <1>1, <1>2, <2>1 DEF Execute
<1>3. ASSUME NEW k \in DOMAIN calls, ExecuteApproved(c, k) PROVE LockInv'
  BY <1>1, <1>3 DEF ExecuteApproved
<1>4. CASE FindGrant(c)
  <2>1. PICK p \in {"consume", "bind", "run"} : Goto(c, p)
    BY <1>4 DEF FindGrant
  <2> QED
    BY <1>1, <1>4, <2>1 DEF FindGrant
<1>5. CASE NoGrant(c) \/ Consume(c) \/ Bind(c) \/ MarkWaitingApproval(c)
           \/ Refuse(c) \/ Finish(c) \/ Fail(c)
  <2>1. PICK p \in {"request", "run", "idle", "fail"} : Goto(c, p)
    BY <1>5 DEF NoGrant, Consume, Bind, MarkWaitingApproval, Refuse, Finish, Fail
  <2>2. locks' = locks
    BY <1>5 DEF NoGrant, Consume, Bind, MarkWaitingApproval, Refuse, Finish, Fail
  <2> QED
    BY <1>1, <2>1, <2>2
<1>6. CASE RequestApproval(c)
  <2>1. PICK p \in {"refuse", "wait"} : Goto(c, p)
    BY <1>6 DEF RequestApproval
  <2> QED
    BY <1>1, <1>6, <2>1 DEF RequestApproval
<1>7. CASE LookAtApproval(c)
  <2>1. PICK p \in {"run", "idle"} : Goto(c, p)
    BY <1>7 DEF LookAtApproval
  <2> QED
    BY <1>1, <1>7, <2>1 DEF LookAtApproval
<1>8. CASE StoreFails(c)
  <2>1. PICK p \in {"fail", "finish", "idle"} : Goto(c, p)
    BY <1>8 DEF StoreFails
  <2> QED
    BY <1>1, <1>8, <2>1 DEF StoreFails
<1>9. CASE TimesOut(c)
  <2>1. /\ pc[c] # "idle" /\ Goto(c, "idle") /\ "idle" \notin Working
        /\ locks' = locks \/ locks' = locks \ {LockOf(c)}
    BY <1>9 DEF TimesOut, Working
  <2> QED
    BY <2>1, LockFree, LockBack
<1>10. CASE Release(c)
  <2>1. /\ pc[c] # "idle" /\ Goto(c, "finish") /\ "finish" \notin Working
        /\ locks' = locks \ {LockOf(c)}
    BY <1>10 DEF Release, Working
  <2> QED
    BY <2>1, LockBack
<1> QED
  BY <1>2, <1>3, <1>4, <1>5, <1>6, <1>7, <1>8, <1>9, <1>10, AcquireLock,
     EffectLock, MarkRunningLock DEF CallerStep

LEMMA LockStep == ASSUME TypeInv, LockInv, [Next]_vars PROVE LockInv'
<1>1. CASE UNCHANGED << calls, at, pc, locks >>
  BY <1>1 DEF LockInv, Tool, LockOf
<1>2. CASE Crash
  BY <1>2 DEF Crash, LockInv, Working
<1>3. ASSUME NEW o \in Operators, OperatorStep(o)
      PROVE  UNCHANGED << calls, at, pc, locks >>
  BY <1>3 DEF OperatorStep, Look, Decide, callerVars
<1>4. UNCHANGED vars => UNCHANGED << calls, at, pc, locks >>
  BY DEF vars, callerVars
<1> QED
  BY <1>1, <1>2, <1>3, <1>4, CallerLockStep DEF Next

LEMMA LockInit == ASSUME Init PROVE LockInv
BY DEF Init, LockInv, Working

(* Two callers never write the same file, run a command in the same        *)
(* sandbox or drive an agent in the same workspace at the same time, even  *)
(* if releases fail and the gateway crashes.                               *)
THEOREM ExclusiveHolds == Spec => []Exclusive
<1>1. TypeInv /\ LockInv => Exclusive
  BY LockInvExclusive
<1> QED
  BY <1>1, TypeInit, TypeStep, LockInit, LockStep, PTL DEF Spec

-----------------------------------------------------------------------------
(* DecisionStands.  The update of Grant and Deny does not say of which     *)
(* status it starts, so that this takes an operator who is alone.          *)
OneOperator == \A o, p \in Operators : o = p

(* What an operator is about to decide is still to be decided.             *)
UndecidedInv ==
  \A o \in Operators :
    opc[o] # NoDecision => /\ opc[o].approval \in DOMAIN approvals
                          /\ approvals[opc[o].approval].status = "pending"

KeepsDecisions ==
  \A a \in DOMAIN approvals :
    /\ a \in DOMAIN approvals'
    /\ approvals'[a].status = approvals[a].status
    /\ approvals'[a].scope = approvals[a].scope
    /\ approvals'[a].tool = approvals[a].tool
    /\ approvals'[a].run = approvals[a].run

LEMMA CallerKeepsDecisions ==
  ASSUME TypeInv, NEW c \in Callers, CallerStep(c)
  PROVE  KeepsDecisions /\ opc' = opc
<1>1. approvals \in Seq(Approval)
  BY DEF TypeInv, TypeOK
<1>2. CASE Consume(c)
  <2> DEFINE x == [approvals[grant[c]] EXCEPT !.consumed = TRUE]
  <2>1. approvals' = [approvals EXCEPT ![grant[c]] = x] /\ opc' = opc
    BY <1>2 DEF Consume
  <2>2. ASSUME grant[c] \in DOMAIN approvals
        PROVE  /\ x.status = approvals[grant[c]].status
               /\ x.scope = approvals[grant[c]].scope
               /\ x.tool = approvals[grant[c]].tool
               /\ x.run = approvals[grant[c]].run
    <3>1. approvals[grant[c]] \in Approval
      BY <1>1, <2>2, EntryType
    <3> QED
      BY <3>1 DEF Approval
  <2> HIDE DEF x
  <2> QED
    BY <1>1, <2>1, <2>2 DEF KeepsDecisions
<1>3. CASE Bind(c)
  <2> DEFINE x == [approvals[grant[c]] EXCEPT !.bound = {RunOf(c)}]
  <2>1. approvals' = [approvals EXCEPT ![grant[c]] = x] /\ opc' = opc
    BY <1>3 DEF Bind
  <2>2. ASSUME grant[c] \in DOMAIN approvals
        PROVE  /\ x.status = approvals[grant[c]].status
               /\ x.scope = approvals[grant[c]].scope
               /\ x.tool = approvals[grant[c]].tool
               /\ x.run = approvals[grant[c]].run
    <3>1. approvals[grant[c]] \in Approval
      BY <1>1, <2>2, EntryType
    <3> QED
      BY <3>1 DEF Approval
  <2> HIDE DEF x
  <2> QED
    BY <1>1, <2>1, <2>2 DEF KeepsDecisions
<1>4. CASE RequestApproval(c)
  <2> DEFINE x == [run |-> RunOf(c), tool |-> Tool(c), consumed |-> FALSE,
                   bound |-> {}, status |-> "pending", scope |-> ""]
  <2>1. approvals' = Append(approvals, x) /\ opc' = opc /\ pc[c] # "idle"
    BY <1>4 DEF RequestApproval
  <2>2. x \in Approval
    BY <2>1, OwnCall DEF Approval
  <2> HIDE DEF x
  <2>3. /\ \A a \in 1 .. Len(approvals) : approvals'[a] = approvals[a]
        /\ DOMAIN approvals = 1 .. Len(approvals) /\ Len(approvals) \in Nat
        /\ DOMAIN approvals' = 1 .. (Len(approvals) + 1)
    BY <1>1, <2>1, <2>2, AppendProperties, LenProperties
  <2> QED
    BY <2>1, <2>3 DEF KeepsDecisions
<1>5. CASE approvals' = approvals /\ opc' = opc
  BY <1>5 DEF KeepsDecisions
<1>6. ASSUME NEW t \in Tools, Execute(c, t)
      PROVE  approvals' = approvals /\ opc' = opc
  BY <1>6 DEF Execute
<1>7. ASSUME NEW k \in DOMAIN calls, ExecuteApproved(c, k)
      PROVE  approvals' = approvals /\ opc' = opc
  BY <1>7 DEF ExecuteApproved
<1>8. CASE \/ FindGrant(c) \/ NoGrant(c) \/ MarkWaitingApproval(c)
           \/ LookAtApproval(c) \/ MarkRunning(c) \/ Refuse(c)
  <2>1. approvals' = approvals /\ opc' = opc
    BY <1>8 DEF FindGrant, NoGrant, MarkWaitingApproval, LookAtApproval,
       MarkRunning, Refuse
  <2> QED
    BY <1>5, <2>1
<1>9. CASE \/ Acquire(c) \/ Effect(c) \/ Release(c) \/ Finish(c) \/ Fail(c)
           \/ StoreFails(c) \/ TimesOut(c)
  <2>1. approvals' = approvals /\ opc' = opc
    BY <1>9 DEF Acquire, Effect, Release, Finish, Fail, StoreFails, TimesOut
  <2> QED
    BY <1>5, <2>1
<1> QED
  BY <1>2, <1>3, <1>4, <1>5, <1>6, <1>7, <1>8, <1>9 DEF CallerStep

Stands ==
  \A a \in DOMAIN approvals :
    approvals[a].status # "pending"
    => /\ approvals'[a].status = approvals[a].status
       /\ approvals'[a].scope = approvals[a].scope

LEMMA OperatorStands ==
  ASSUME TypeInv, OneOperator, UndecidedInv, NEW o \in Operators, OperatorStep(o)
  PROVE  UndecidedInv' /\ Stands
<1>1. approvals \in Seq(Approval) /\ opc \in [Operators -> Decision]
  BY DEF TypeInv, TypeOK
<1>2. ASSUME NEW a \in DOMAIN approvals, NEW s \in {"granted", "denied"},
             NEW p \in {"", "once", "run"}, Look(o, a, s, p)
      PROVE  UndecidedInv' /\ Stands
  <2> DEFINE d == [approval |-> a, status |-> s, scope |-> p]
  <2>1. /\ opc' = [opc EXCEPT ![o] = d]
        /\ approvals' = approvals
        /\ approvals[a].status = "pending"
    BY <1>2, Zenon DEF Look
  <2>2. d.approval = a
    OBVIOUS
  <2> HIDE DEF d
  <2>3. UndecidedInv'
    BY <1>1, <2>1, <2>2 DEF UndecidedInv, OneOperator
  <2> QED
    BY <2>1, <2>3 DEF Stands
<1>3. CASE Decide(o)
  <2> DEFINE a == opc[o].approval
             x == [approvals[a] EXCEPT !.status = opc[o].status,
                     !.scope = IF opc[o].status = "granted" THEN opc[o].scope
                                                            ELSE @]
  <2>1. approvals' = [approvals EXCEPT ![a] = x] /\ opc[o] # NoDecision
    BY <1>3 DEF Decide
  <2>2. opc'[o] = NoDecision
    BY <1>1, <1>3 DEF Decide
  <2>3. approvals[a].status = "pending"
    BY <2>1 DEF UndecidedInv
  <2> HIDE DEF a, x
  <2>4. Stands
    BY <1>1, <2>1, <2>3 DEF Stands
  <2>5. UndecidedInv'
    BY <2>2 DEF UndecidedInv, OneOperator
  <2> QED
    BY <2>4, <2>5
<1> QED
  BY <1>2, <1>3 DEF OperatorStep

LEMMA StandsStep ==
  ASSUME TypeInv, OneOperator, UndecidedInv, [Next]_vars
  PROVE  UndecidedInv' /\ Stands
<1>1. ASSUME NEW c \in Callers, CallerStep(c) PROVE UndecidedInv' /\ Stands
  BY <1>1, CallerKeepsDecisions DEF KeepsDecisions, UndecidedInv, Stands
<1>2. ASSUME NEW o \in Operators, OperatorStep(o) PROVE UndecidedInv' /\ Stands
  BY <1>2, OperatorStands
<1>3. CASE Crash \/ UNCHANGED vars
  BY <1>3 DEF Crash, vars, UndecidedInv, Stands
<1> QED
  BY <1>1, <1>2, <1>3 DEF Next

(* With one operator, a decision stands: once an approval is granted or    *)
(* denied, neither its status nor its scope changes.                       *)
THEOREM DecisionStandsHolds == ASSUME OneOperator PROVE Spec => DecisionStands
<1>1. ASSUME Init PROVE UndecidedInv
  BY <1>1 DEF Init, UndecidedInv
<1>2. Stands => (\A a \in DOMAIN approvals :
       approvals[a].status # "pending"
       => /\ approvals'[a].status = approvals[a].status
          /\ approvals'[a].scope = approvals[a].scope)
  BY DEF Stands
<1> QED
  BY <1>1, <1>2, TypeInit, TypeStep, StandsStep, PTL DEF Spec, DecisionStands

-----------------------------------------------------------------------------
(***************************************************************************)
(* What a tool call goes by: from the grant that is found, or the approval *)
(* that is asked for and given, to the effect.                             *)
(***************************************************************************)

(* Approval a is about what call x does; and it is granted.                *)
Fits(a, x) ==
  /\ a \in DOMAIN approvals
  /\ approvals[a].tool = x.tool
  /\ approvals[a].run \in Sharers(RunOf(x.caller), x.tool)
Grants(a, x) == Fits(a, x) /\ approvals[a].status = "granted"

(* What a record says it waits for and went by is right.                   *)
Backed(x) ==
  /\ x.status = "waiting" => Fits(x.ask, x)
  /\ x.tool \in Guarded /\ x.times > 0 => Grants(x.by, x)

(* So is what a caller at step p, with approval g, is about to go by.      *)
Entitled(p, g, x) ==
  /\ p \in {"consume", "bind"} => Grants(g, x)
  /\ p = "run" /\ x.tool \in Guarded => Grants(g, x)
  /\ p \in {"wait", "approved"} => Fits(g, x)
  /\ p \in {"acquire", "effect"} /\ x.tool \in Guarded => Grants(x.by, x)

GrantInv ==
  /\ \A k \in DOMAIN calls : Backed(calls[k])
  /\ \A c \in Callers : pc[c] # "idle" => Entitled(pc[c], grant[c], calls[at[c]])

(* An approval keeps what it is about, and stays granted.                  *)
KeepsApprovals ==
  \A a \in DOMAIN approvals :
    /\ a \in DOMAIN approvals'
    /\ approvals'[a].tool = approvals[a].tool
    /\ approvals'[a].run = approvals[a].run
    /\ approvals[a].status = "granted" => approvals'[a].status = "granted"

LEMMA KeptFits ==
  ASSUME KeepsApprovals, NEW a, NEW x
  PROVE  /\ Fits(a, x) => Fits(a, x)'
         /\ Grants(a, x) => Grants(a, x)'
BY DEF KeepsApprovals, Fits, Grants

LEMMA KeptBacked ==
  ASSUME KeepsApprovals, NEW x
  PROVE  /\ Backed(x) => Backed(x)'
         /\ \A p, g : Entitled(p, g, x) => Entitled(p, g, x)'
<1>1. Backed(x) => Backed(x)'
  BY KeptFits DEF Backed
<1>2. ASSUME NEW p, NEW g, Entitled(p, g, x)
      PROVE  Entitled(p, g, x)'
  BY <1>2, KeptFits DEF Entitled
<1> QED
  BY <1>1, <1>2

(* A step of c that makes its call into x and goes on to p with g.         *)
LEMMA GrantMoves ==
  ASSUME TypeInv, GrantInv, KeepsApprovals, NEW c \in Callers, pc[c] # "idle",
         NEW p, NEW g, NEW x \in Call, Goto(c, p), at' = at,
         grant' = [grant EXCEPT ![c] = g], calls' = [calls EXCEPT ![at[c]] = x],
         Backed(x)', p # "idle" => Entitled(p, g, x)'
  PROVE  GrantInv'
<1>1. /\ DOMAIN calls' = DOMAIN calls
      /\ calls'[at[c]] = x
      /\ \A k \in DOMAIN calls : k # at[c] => calls'[k] = calls[k]
  BY CallUpdate
<1>2. ASSUME NEW k \in DOMAIN calls'
      PROVE  Backed(calls[k])'
  <2>1. PICK y : y = calls'[k]
    OBVIOUS
  <2>2. Backed(y)'
    <3>1. CASE k = at[c]
      BY <1>1, <2>1, <3>1
    <3>2. CASE k # at[c]
      BY <1>1, <1>2, <2>1, <3>2, KeptBacked DEF GrantInv
    <3> QED
      BY <3>1, <3>2
  <2> QED
    BY <2>1, <2>2
<1>3. ASSUME NEW d \in Callers, pc'[d] # "idle"
      PROVE  Entitled(pc[d], grant[d], calls[at[d]])'
  <2>1. PICK q, h, y : q = pc'[d] /\ h = grant'[d] /\ y = calls'[at'[d]]
    OBVIOUS
  <2>2. Entitled(q, h, y)'
    <3>1. CASE d = c
      BY <1>1, <1>3, <2>1, <3>1 DEF TypeInv, TypeOK, Goto
    <3>2. CASE d # c
      <4>1. q = pc[d] /\ h = grant[d] /\ q # "idle"
        BY <1>3, <2>1, <3>2 DEF TypeInv, TypeOK, Goto
      <4>2. y = calls[at[d]]
        BY <1>1, <2>1, <3>2, <4>1, Apart, OwnCall
      <4> QED
        BY <4>1, <4>2, KeptBacked DEF GrantInv
    <3> QED
      BY <3>1, <3>2
  <2> QED
    BY <2>1, <2>2
<1> QED
  BY <1>2, <1>3 DEF GrantInv

(* A step that leaves all calls as they are.                               *)
LEMMA GrantQuiet ==
  ASSUME TypeInv, GrantInv, KeepsApprovals, NEW c \in Callers, pc[c] # "idle",
         NEW p, NEW g, NEW x, x = calls[at[c]], Goto(c, p), at' = at,
         grant' = [grant EXCEPT ![c] = g], calls' = calls,
         p # "idle" => Entitled(p, g, x)'
  PROVE  GrantInv'
<1>1. x \in Call /\ at[c] \in DOMAIN calls
  BY OwnCall
<1>2. calls' = [calls EXCEPT ![at[c]] = x]
  BY DEF TypeInv, TypeOK
<1>3. Backed(x)'
  BY <1>1, KeptBacked DEF GrantInv
<1> QED
  BY <1>1, <1>2, <1>3, GrantMoves

(* What an approval is about says only tool and caller of the call.        *)
LEMMA FitsAlike ==
  ASSUME NEW a, NEW x, NEW y, x.tool = y.tool, x.caller = y.caller
  PROVE  (Fits(a, x) => Fits(a, y)) /\ (Grants(a, x) => Grants(a, y))
BY DEF Fits, Grants

LEMMA CallerKeepsApprovals ==
  ASSUME TypeInv, NEW c \in Callers, CallerStep(c)
  PROVE  KeepsApprovals
BY CallerKeepsDecisions DEF KeepsDecisions, KeepsApprovals

-----------------------------------------------------------------------------
(* The steps of a caller.                                                  *)
LEMMA ExecuteGrants ==
  ASSUME TypeInv, GrantInv, NEW c \in Callers, NEW t \in Tools, Execute(c, t)
  PROVE  GrantInv'
<1>1. PICK x : x = [caller |-> c, tool |-> t, ask |-> 0, by |-> 0, times |-> 0,
                    status |-> "pending"]
  OBVIOUS
<1>2. PICK p : /\ Goto(c, p)
               /\ p = CASE t = "critical" -> "refuse"
                        [] t \in Guarded -> "check"
                        [] OTHER -> "run"
  BY DEF Execute
<1>3. x \in Call /\ calls \in Seq(Call) /\ calls' = Append(calls, x)
  BY <1>1 DEF Call, TypeInv, TypeOK, Execute
<1>4. /\ \A k \in DOMAIN calls : calls'[k] = calls[k]
      /\ DOMAIN calls' = DOMAIN calls \union {Len(calls) + 1}
      /\ calls'[Len(calls) + 1] = x
  BY <1>3
<1>5. KeepsApprovals
  BY DEF Execute, KeepsApprovals
<1>6. Backed(x)' /\ Entitled(p, 0, x)'
  BY <1>1, <1>2 DEF Backed, Entitled, Guarded
<1>7. ASSUME NEW k \in DOMAIN calls'
      PROVE  Backed(calls[k])'
  <2>1. PICK y : y = calls'[k]
    OBVIOUS
  <2>2. Backed(y)'
    BY <1>4, <1>5, <1>6, <1>7, <2>1, KeptBacked DEF GrantInv
  <2> QED
    BY <2>1, <2>2
<1>8. ASSUME NEW d \in Callers, pc'[d] # "idle"
      PROVE  Entitled(pc[d], grant[d], calls[at[d]])'
  <2>1. PICK q, h, y : q = pc'[d] /\ h = grant'[d] /\ y = calls'[at'[d]]
    OBVIOUS
  <2>2. Entitled(q, h, y)'
    <3>1. CASE d = c
      <4>1. q = p /\ h = 0 /\ at'[c] = Len(calls) + 1
        BY <1>2, <2>1, <3>1 DEF Execute, Goto, TypeInv, TypeOK
      <4> QED
        BY <1>4, <1>6, <2>1, <3>1, <4>1
    <3>2. CASE d # c
      <4>1. q = pc[d] /\ h = grant[d] /\ at'[d] = at[d]
        BY <1>2, <2>1, <3>2 DEF Execute, Goto, TypeInv, TypeOK
      <4>2. y = calls[at[d]]
        BY <1>4, <1>8, <2>1, <4>1, OwnCall
      <4> QED
        BY <1>5, <1>8, <2>1, <4>1, <4>2, KeptBacked DEF GrantInv
    <3> QED
      BY <3>1, <3>2
  <2> QED
    BY <2>1, <2>2
<1> QED
  BY <1>7, <1>8 DEF GrantInv

LEMMA ExecuteApprovedGrants ==
  ASSUME TypeInv, GrantInv, NEW c \in Callers, NEW k \in DOMAIN calls, ExecuteApproved(c, k)
  PROVE  GrantInv'
<1>1. UNCHANGED << approvals, calls >> /\ Fits(calls[k].ask, calls[k])
  BY DEF ExecuteApproved, GrantInv, Backed
<1>2. KeepsApprovals
  BY <1>1 DEF KeepsApprovals
<1>3. ASSUME NEW j \in DOMAIN calls'
      PROVE  Backed(calls[j])'
  BY <1>1, <1>3 DEF GrantInv, Backed, Fits, Grants
<1>4. ASSUME NEW d \in Callers, pc'[d] # "idle"
      PROVE  Entitled(pc[d], grant[d], calls[at[d]])'
  <2>1. PICK q, h, y : q = pc'[d] /\ h = grant'[d] /\ y = calls[at'[d]]
    OBVIOUS
  <2>2. Entitled(q, h, y)
    <3>1. CASE d = c
      <4>1. q = "approved" /\ h = calls[k].ask /\ at'[c] = k
        BY <2>1, <3>1 DEF ExecuteApproved, Goto, TypeInv, TypeOK
      <4> QED
        BY <1>1, <2>1, <3>1, <4>1 DEF Entitled
    <3>2. CASE d # c
      BY <1>4, <2>1, <3>2 DEF ExecuteApproved, Goto, TypeInv, TypeOK, GrantInv
    <3> QED
      BY <3>1, <3>2
  <2>3. Entitled(q, h, y)'
    BY <1>2, <2>2, KeptBacked
  <2> QED
    BY <1>1, <2>1, <2>3
<1> QED
  BY <1>3, <1>4 DEF GrantInv

(* The steps that look for a grant or ask for one.                         *)
LEMMA PolicyGrants ==
  ASSUME TypeInv, GrantInv, NEW c \in Callers, CallerStep(c),
         \/ FindGrant(c) \/ NoGrant(c) \/ Consume(c) \/ Bind(c)
         \/ RequestApproval(c) \/ LookAtApproval(c)
  PROVE  GrantInv'
<1>1. KeepsApprovals
  BY CallerKeepsApprovals
<1>2. /\ pc[c] # "idle" /\ calls' = calls /\ at' = at
      /\ grant \in [Callers -> Nat]
  BY DEF FindGrant, NoGrant, Consume, Bind, RequestApproval, LookAtApproval, TypeInv, TypeOK
<1>3. PICK x : x = calls[at[c]]
  OBVIOUS
<1>4. x.caller = c /\ Tool(c) = x.tool /\ RunOf(c) \in Runs
  BY <1>2, <1>3, OwnCall DEF Tool
<1>5. ASSUME NEW p, NEW g, Goto(c, p), grant' = [grant EXCEPT ![c] = g],
             p # "idle" => Entitled(p, g, x)'
      PROVE  GrantInv'
  BY <1>1, <1>2, <1>3, <1>5, GrantQuiet
<1>6. ASSUME NEW p, Goto(c, p), grant' = grant, p # "idle" => Entitled(p, grant[c], x)
      PROVE  GrantInv'
  <2>1. PICK g : g = grant[c]
    OBVIOUS
  <2>2. grant' = [grant EXCEPT ![c] = g]
    BY <1>2, <1>6, <2>1
  <2>3. p # "idle" => Entitled(p, g, x)'
    BY <1>1, <1>6, <2>1, KeptBacked
  <2> QED
    BY <1>5, <1>6, <2>2, <2>3
<1>7. Entitled(pc[c], grant[c], x)
  BY <1>2, <1>3 DEF GrantInv
<1>8. CASE FindGrant(c)
  <2>1. PICK a \in DOMAIN approvals :
           /\ Usable(a, c)
           /\ grant' = [grant EXCEPT ![c] = a]
           /\ Goto(c, IF approvals[a].scope = "once" THEN "consume"
                      ELSE IF approvals[a].bound = {} THEN "bind" ELSE "run")
    BY <1>8 DEF FindGrant
  <2>2. Grants(a, x)
    BY <1>4, <2>1 DEF Usable, Matches, Grants, Fits
  <2>3. PICK p \in {"consume", "bind", "run"} : Goto(c, p)
    BY <2>1
  <2>4. Entitled(p, a, x)'
    BY <1>1, <2>2, KeptFits DEF Entitled
  <2> QED
    BY <1>5, <2>1, <2>3, <2>4
<1>9. CASE NoGrant(c)
  BY <1>6, <1>9 DEF NoGrant, Entitled
<1>10. CASE Consume(c) \/ Bind(c)
  <2>1. Grants(grant[c], x) /\ Goto(c, "run") /\ grant' = grant
    BY <1>7, <1>10 DEF Consume, Bind, Entitled
  <2> QED
    BY <1>6, <2>1 DEF Entitled
<1>11. CASE RequestApproval(c)
  <2>1. PICK g, y : /\ g = Len(approvals) + 1
                    /\ y = [run |-> RunOf(c), tool |-> Tool(c), consumed |-> FALSE,
                             bound |-> {}, status |-> "pending", scope |-> ""]
    OBVIOUS
  <2>2. y \in Approval /\ approvals \in Seq(Approval)
    BY <1>2, <2>1, OwnCall DEF Approval, TypeInv, TypeOK
  <2>3. approvals' = Append(approvals, y) /\ grant' = [grant EXCEPT ![c] = g]
    BY <1>11, <2>1 DEF RequestApproval
  <2>4. g \in DOMAIN approvals' /\ approvals'[g] = y
    <3>1. PICK n : n = Len(approvals)
      OBVIOUS
    <3>2. /\ n \in Nat /\ DOMAIN approvals' = 1 .. (n + 1)
          /\ approvals'[n + 1] = y
      BY <2>2, <2>3, <3>1, AppendProperties, LenProperties
    <3>3. g = n + 1
      BY <2>1, <3>1
    <3> QED
      BY <3>2, <3>3
  <2>5. Fits(g, x)'
    <3>1. y.tool = x.tool /\ y.run = RunOf(x.caller) /\ y.run \in Runs
      BY <1>4, <2>1
    <3>2. y.run \in Sharers(RunOf(x.caller), x.tool)
      BY <3>1 DEF Sharers
    <3> QED
      BY <2>4, <3>1, <3>2 DEF Fits
  <2>6. PICK p \in {"refuse", "wait"} : Goto(c, p)
    BY <1>11 DEF RequestApproval
  <2>7. Entitled(p, g, x)'
    BY <2>5 DEF Entitled
  <2> QED
    BY <1>5, <2>3, <2>6, <2>7
<1>12. CASE LookAtApproval(c)
  <2>1. Fits(grant[c], x)
    BY <1>7, <1>12 DEF LookAtApproval, Entitled
  <2>2. PICK p \in {"run", "idle"} :
           Goto(c, p) /\ (p = "run" => approvals[grant[c]].status = "granted")
    BY <1>12 DEF LookAtApproval
  <2>3. p # "idle" => Entitled(p, grant[c], x)
    BY <2>1, <2>2 DEF Entitled, Grants
  <2> QED
    BY <1>6, <1>12, <2>2, <2>3 DEF LookAtApproval
<1> QED
  BY <1>8, <1>9, <1>10, <1>11, <1>12

(* The steps that write the record of the call.                            *)
LEMMA RecordGrants ==
  ASSUME TypeInv, GrantInv, NEW c \in Callers, CallerStep(c),
         MarkWaitingApproval(c) \/ MarkRunning(c) \/ Effect(c) \/ Finish(c) \/ Fail(c)
  PROVE  GrantInv'
<1>1. KeepsApprovals
  BY CallerKeepsApprovals
<1>2. /\ pc[c] # "idle" /\ at' = at /\ grant' = grant /\ grant \in [Callers -> Nat]
      /\ approvals' = approvals
  BY DEF MarkWaitingApproval, MarkRunning, Effect, Finish, Fail, TypeInv, TypeOK
<1>3. PICK y, g : y = calls[at[c]] /\ g = grant[c]
  OBVIOUS
<1>4. /\ y \in Call /\ Tool(c) = y.tool /\ grant' = [grant EXCEPT ![c] = g] /\ g \in Nat
      /\ Backed(y) /\ Entitled(pc[c], g, y)
  BY <1>2, <1>3, OwnCall DEF Tool, GrantInv
<1>5. ASSUME NEW p, NEW x \in Call, Goto(c, p), calls' = [calls EXCEPT ![at[c]] = x],
             Backed(x), p # "idle" => Entitled(p, g, x)
      PROVE  GrantInv'
  <2>1. Backed(x)' /\ (p # "idle" => Entitled(p, g, x)')
    BY <1>1, <1>5, KeptBacked
  <2> QED
    BY <1>1, <1>2, <1>4, <1>5, <2>1, GrantMoves
<1>6. CASE MarkWaitingApproval(c)
  <2>1. PICK x : x = [y EXCEPT !.status = "waiting", !.ask = g]
    OBVIOUS
  <2>2. /\ x \in Call /\ calls' = [calls EXCEPT ![at[c]] = x] /\ Goto(c, "idle")
    BY <1>3, <1>4, <1>6, <2>1, CallWith DEF MarkWaitingApproval
  <2>3. /\ x.tool = y.tool /\ x.caller = y.caller /\ x.ask = g
        /\ x.times = y.times /\ x.by = y.by
    BY <1>4, <2>1 DEF Call
  <2>4. Fits(g, y)
    BY <1>4, <1>6 DEF MarkWaitingApproval, Entitled
  <2>5. Backed(x)
    BY <1>4, <2>3, <2>4, FitsAlike DEF Backed
  <2> QED
    BY <1>5, <2>2, <2>5
<1>7. CASE MarkRunning(c)
  <2>1. PICK x : x = [y EXCEPT !.status = "running", !.by = g]
    OBVIOUS
  <2>2. /\ x \in Call /\ calls' = [calls EXCEPT ![at[c]] = x]
    BY <1>3, <1>4, <1>7, <2>1, CallWith DEF MarkRunning
  <2>3. /\ x.tool = y.tool /\ x.caller = y.caller /\ x.by = g /\ x.status = "running"
    BY <1>4, <2>1 DEF Call
  <2>4. x.tool \in Guarded => Grants(g, x)
    BY <1>4, <1>7, <2>3, FitsAlike DEF MarkRunning, Entitled
  <2>5. PICK p \in {"acquire", "effect"} : Goto(c, p)
    BY <1>7 DEF MarkRunning
  <2>6. Backed(x) /\ Entitled(p, g, x)
    BY <2>3, <2>4 DEF Backed, Entitled
  <2> QED
    BY <1>5, <2>2, <2>5, <2>6
<1>8. CASE Effect(c)
  <2>1. PICK x : x = [y EXCEPT !.times = @ + 1]
    OBVIOUS
  <2>2. /\ x \in Call /\ calls' = [calls EXCEPT ![at[c]] = x]
    BY <1>3, <1>4, <1>8, <2>1, CallWith DEF Effect
  <2>3. /\ x.tool = y.tool /\ x.caller = y.caller /\ x.by = y.by
        /\ x.status = y.status /\ x.ask = y.ask
    BY <1>4, <2>1 DEF Call
  <2>4. x.tool \in Guarded => Grants(x.by, x)
    BY <1>4, <1>8, <2>3, FitsAlike DEF Effect, Entitled
  <2>5. PICK p \in {"release", "finish"} : Goto(c, p)
    BY <1>8 DEF Effect
  <2>6. Backed(x) /\ Entitled(p, g, x)
    BY <1>4, <2>3, <2>4, FitsAlike DEF Backed, Entitled
  <2> QED
    BY <1>5, <2>2, <2>5, <2>6
<1>9. CASE Finish(c) \/ Fail(c)
  <2>1. PICK s \in {"completed", "failed"} : SetStatus(c, s)
    BY <1>9 DEF Finish, Fail
  <2>2. PICK x : x = [y EXCEPT !.status = s]
    OBVIOUS
  <2>3. /\ x \in Call /\ calls' = [calls EXCEPT ![at[c]] = x] /\ Goto(c, "idle")
    BY <1>3, <1>4, <1>9, <2>1, <2>2, CallWith DEF Finish, Fail, SetStatus
  <2>4. /\ x.tool = y.tool /\ x.caller = y.caller /\ x.by = y.by
        /\ x.status = s /\ x.times = y.times
    BY <1>4, <2>2 DEF Call
  <2>5. Backed(x)
    BY <1>4, <2>4, FitsAlike DEF Backed
  <2> QED
    BY <1>5, <2>3, <2>5
<1> QED
  BY <1>6, <1>7, <1>8, <1>9

(* The steps that go on, or give up, with nothing but locks changed.       *)
LEMMA OnwardGrants ==
  ASSUME TypeInv, GrantInv, NEW c \in Callers, CallerStep(c),
         Refuse(c) \/ Acquire(c) \/ Release(c) \/ StoreFails(c) \/ TimesOut(c)
  PROVE  GrantInv'
<1>1. KeepsApprovals
  BY CallerKeepsApprovals
<1>2. /\ pc[c] # "idle" /\ calls' = calls /\ at' = at /\ grant' = grant
      /\ grant \in [Callers -> Nat]
  BY DEF Refuse, Acquire, Release, StoreFails, TimesOut, TypeInv, TypeOK
<1>3. PICK x, g : x = calls[at[c]] /\ g = grant[c]
  OBVIOUS
<1>4. \E p : /\ Goto(c, p)
            /\ \/ p \in {"idle", "fail", "finish"}
               \/ pc[c] = "acquire" /\ p = "effect"
  <2>1. CASE Refuse(c) \/ Release(c) \/ TimesOut(c)
    BY <2>1 DEF Refuse, Release, TimesOut
  <2>2. CASE Acquire(c)
    BY <2>2 DEF Acquire
  <2>3. CASE StoreFails(c)
    BY <2>3 DEF StoreFails
  <2> QED
    BY <2>1, <2>2, <2>3
<1>p. PICK p : /\ Goto(c, p)
               /\ \/ p \in {"idle", "fail", "finish"}
                  \/ pc[c] = "acquire" /\ p = "effect"
  BY <1>4
<1>5. Entitled(pc[c], g, x)
  BY <1>2, <1>3 DEF GrantInv
<1>6. Entitled(p, g, x)
  BY <1>p, <1>5 DEF Entitled
<1>7. Entitled(p, g, x)'
  BY <1>1, <1>6, KeptBacked
<1>8. grant' = [grant EXCEPT ![c] = g]
  BY <1>2, <1>3
<1> QED
  BY <1>1, <1>2, <1>3, <1>p, <1>7, <1>8, GrantQuiet

-----------------------------------------------------------------------------
(* The decision of an operator is about an approval that is pending, so    *)
(* none that was granted is taken back.                                    *)
LEMMA OperatorKeepsApprovals ==
  ASSUME TypeInv, OneOperator, UndecidedInv, NEW o \in Operators, OperatorStep(o)
  PROVE  KeepsApprovals
<1>1. \A a \in DOMAIN approvals : DOMAIN approvals[a] = {"run", "tool", "consumed", "bound",
                                                        "status", "scope"}
  <2>1. \A a \in DOMAIN approvals : approvals[a] \in Approval
    BY EntryType DEF TypeInv, TypeOK
  <2> QED
    BY <2>1 DEF Approval
<1>2. Stands
  BY OperatorStands
<1>3. /\ DOMAIN approvals' = DOMAIN approvals
      /\ \A a \in DOMAIN approvals : /\ approvals'[a].tool = approvals[a].tool
                                    /\ approvals'[a].run = approvals[a].run
  <2>1. CASE approvals' = approvals
    BY <2>1
  <2>2. CASE Decide(o)
    <3>1. PICK b, s, q :
            approvals' = [approvals EXCEPT ![b].status = s, ![b].scope = q]
      <4>1. PICK b, s, q :
              /\ b = opc[o].approval /\ s = opc[o].status
              /\ q = IF opc[o].status = "granted" THEN opc[o].scope ELSE approvals[b].scope
        OBVIOUS
      <4>2. approvals' = [approvals EXCEPT ![b].status = s, ![b].scope = q]
        BY <2>2, <4>1 DEF Decide
      <4> QED
        BY <4>2
    <3> QED
      BY <1>1, <3>1
  <2> QED
    BY <2>1, <2>2 DEF OperatorStep, Look
<1> QED
  BY <1>2, <1>3 DEF KeepsApprovals, Stands

(* A step that touches no caller.                                          *)
LEMMA GrantStays ==
  ASSUME GrantInv, KeepsApprovals, UNCHANGED << calls, at, grant >>,
         \A c \in Callers : pc'[c] \in {pc[c], "idle"}
  PROVE  GrantInv'
<1>1. ASSUME NEW k \in DOMAIN calls'
      PROVE  Backed(calls[k])'
  <2>1. PICK y : y = calls[k]
    OBVIOUS
  <2>2. Backed(y)'
    BY <1>1, <2>1, KeptBacked DEF GrantInv
  <2> QED
    BY <2>1, <2>2
<1>2. ASSUME NEW c \in Callers, pc'[c] # "idle"
      PROVE  Entitled(pc[c], grant[c], calls[at[c]])'
  <2>1. PICK q, h, y : q = pc[c] /\ h = grant[c] /\ y = calls[at[c]]
    OBVIOUS
  <2>2. Entitled(q, h, y)'
    BY <1>2, <2>1, KeptBacked DEF GrantInv
  <2>3. q = pc'[c]
    BY <1>2, <2>1
  <2> QED
    BY <2>1, <2>2, <2>3
<1> QED
  BY <1>1, <1>2 DEF GrantInv

LEMMA GrantStep ==
  ASSUME TypeInv, OneOperator, UndecidedInv, GrantInv, [Next]_vars
  PROVE  GrantInv'
<1>1. ASSUME NEW c \in Callers, CallerStep(c)
      PROVE  GrantInv'
  BY <1>1, ExecuteGrants, ExecuteApprovedGrants, PolicyGrants, RecordGrants, OnwardGrants
     DEF CallerStep
<1>2. ASSUME NEW o \in Operators, OperatorStep(o)
      PROVE  GrantInv'
  <2>1. UNCHANGED << calls, at, grant, pc >>
    BY <1>2 DEF OperatorStep, Look, Decide, callerVars
  <2> QED
    BY <1>2, <2>1, OperatorKeepsApprovals, GrantStays
<1>3. CASE Crash \/ UNCHANGED vars
  <2>1. /\ UNCHANGED << calls, at, grant, approvals >>
        /\ \A c \in Callers : pc'[c] \in {pc[c], "idle"}
    BY <1>3 DEF Crash, vars, callerVars
  <2>2. KeepsApprovals
    BY <2>1 DEF KeepsApprovals
  <2> QED
    BY <2>1, <2>2, GrantStays
<1> QED
  BY <1>1, <1>2, <1>3 DEF Next

(* With one operator, a call with a risk that had its effect went by an    *)
(* approval that is granted, for its tool, and of its run or, for a CLI    *)
(* agent, of a run of the same workspace.                                  *)
THEOREM CoveredHolds == ASSUME OneOperator PROVE Spec => []Covered
<1>1. ASSUME Init PROVE UndecidedInv /\ GrantInv
  BY <1>1 DEF Init, UndecidedInv, GrantInv
<1>2. GrantInv => Covered
  BY DEF GrantInv, Backed, Grants, Fits, Covered
<1> QED
  BY <1>1, <1>2, TypeInit, TypeStep, StandsStep, GrantStep, PTL DEF Spec
=============================================================================
