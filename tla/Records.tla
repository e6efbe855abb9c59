-------------------------------- MODULE Records --------------------------------
(***************************************************************************)
(* What the gateway keeps of conversations and runs (internal/chats,       *)
(* artifacts, memory, sharedcontext, uploads): chat messages and the runs  *)
(* they start, feedback, artifacts and their revisions, memory proposals   *)
(* and the context items they become, uploads.                             *)
(*                                                                         *)
(* A handler is a sequence of store calls with no transaction around them; *)
(* a step is one call.  The client may go away between any two, which ends *)
(* the handler, and requests overlap.  When a worker's role is done, and   *)
(* when it pauses, is in WorkspaceRun; here it writes its records once.    *)
(* A plan is an artifact of the run; texts are numbers.                    *)
(***************************************************************************)
EXTENDS Naturals, Sequences, FiniteSets, TLC

CONSTANTS
  Clients,    (* requests and commands that may be at work at a time       *)
  Kinds,      (* what they may ask for                                     *)
  Names,      (* names of files uploaded                                   *)
  MaxRequests, (* bound: requests made                                     *)
  MaxRuns     (* bound: runs created                                       *)

ASSUME MaxAssumption == MaxRequests \in Nat /\ MaxRuns \in Nat
ASSUME KindsAssumption ==
  Kinds \subseteq {"chat", "feedback", "run", "approve", "reject", "delete", "forget",
                   "revise", "accept", "upload"}

VARIABLES
  chats,     (* how many chat_threads there are                            *)
  messages,  (* chat_messages                                              *)
  feedback,  (* chat_feedback, by message                                  *)
  runs,      (* run_sessions, run_tasks and sandboxes; and the workers     *)
  artifacts, (* artifact_records                                           *)
  revisions, (* artifact_revision_records                                  *)
  proposals, (* memory_proposals, by run                                   *)
  items,     (* context_items                                              *)
  uploads,   (* upload_records                                             *)
  disk,      (* the uploaded files: how each is                            *)
  req,       (* what each client is about to do                            *)
  given,     (* requests made                                              *)
  calm       (* no two were at work at once, and nothing failed            *)

vars == << chats, messages, feedback, runs, artifacts, revisions, proposals, items,
           uploads, disk, req, given, calm >>

Message == [role : {"user", "assistant"}, run : 0 .. MaxRequests]
Stages == {"session", "tasks", "whole"}
Run == [stage : Stages, started : BOOLEAN, todo : Seq({"plan", "plan_row", "snapshot",
          "attach", "report", "report_row", "proposal", "complete"}),
        status : {"running", "completed", "failed"}, saved : 0 .. 1, selected : 0 .. 1]
Proposal == [status : {"proposed", "approved", "rejected", "deleted"}, item : Nat]
Item == [run : 1 .. MaxRequests, status : {"active", "deleted"}]
Revision == [artifact : Nat, revision : Nat, preview : 0 .. MaxRequests]

Work == << "plan", "plan_row", "snapshot", "attach", "report", "report_row",
           "proposal", "complete" >>

Idle == [pc |-> "idle", do |-> "none", on |-> 0, run |-> 0, text |-> 0, name |-> "none"]

Init ==
  /\ chats = 0 /\ messages = << >> /\ feedback = << >>
  /\ runs = << >> /\ artifacts = << >> /\ revisions = {}
  /\ proposals = << >> /\ items = << >> /\ uploads = {}
  /\ disk = [f \in {} |-> "torn"]
  /\ req = [c \in Clients |-> Idle]
  /\ given = 0 /\ calm = TRUE

-----------------------------------------------------------------------------
chatVars == << chats, messages, feedback >>
fileVars == << artifacts, revisions >>
memoryVars == << proposals, items >>
uploadVars == << uploads, disk >>
boundVars == << given, calm >>

At(c, pc) == req[c].pc = pc
Step(c, r) == req' = [req EXCEPT ![c] = r]
Go(c, pc) == Step(c, [req[c] EXCEPT !.pc = pc])
End(c) == Step(c, Idle)

(* A row inserted, or updated if there is one: ON CONFLICT DO UPDATE.      *)
Put(f, k, row) == [x \in DOMAIN f \union {k} |-> IF x = k THEN row ELSE f[x]]

(* What a request may be about: the chat, 0 when there is none yet (chats  *)
(* share nothing); its last message, or one that does not exist; the run   *)
(* of a proposal; an item, an artifact, a run.                             *)
About(do) ==
  CASE do = "chat" -> {chats}
    [] do = "feedback" -> IF chats = 0 THEN {} ELSE {0, Len(messages)}
    [] do = "run" -> {0}
    [] do \in {"approve", "reject", "delete"} -> DOMAIN proposals
    [] do = "forget" -> DOMAIN items
    [] do \in {"revise", "accept"} -> DOMAIN artifacts
    [] do = "upload" -> DOMAIN runs

Give(c) ==
  /\ At(c, "idle") /\ given < MaxRequests
  /\ \E do \in Kinds : \E on \in About(do) :
     \E name \in IF do = "upload" THEN Names ELSE {"none"} :
       Step(c, [do |-> do, on |-> on, run |-> 0, text |-> given + 1, name |-> name,
                pc |-> CASE do = "chat" -> IF on = 0 THEN "create" ELSE "message"
                         [] do = "run" -> "session"
                         [] do = "approve" -> "approve_look"
                         [] do = "revise" -> "revise_look"
                         [] do = "feedback" -> "lookup"
                         [] OTHER -> do])
  /\ given' = given + 1
  /\ calm' = (calm /\ \A o \in Clients : At(o, "idle"))
  /\ UNCHANGED << chatVars, runs, fileVars, memoryVars, uploadVars >>

(* The client is gone, or a store call fails: the rest is not done.        *)
CutOff(c) ==
  /\ ~At(c, "idle")
  /\ End(c)
  /\ calm' = FALSE
  /\ UNCHANGED << chatVars, runs, fileVars, memoryVars, uploadVars, given >>

-----------------------------------------------------------------------------
(* Chats.                                                                  *)
CreateThread(c) ==
  /\ At(c, "create")
  /\ chats' = chats + 1
  /\ Go(c, "message") \/ End(c)
  /\ UNCHANGED << messages, feedback, runs, fileVars, memoryVars, uploadVars, boundVars >>

(* The user's message is saved first; `on` becomes its number.             *)
AddMessage(c) ==
  /\ At(c, "message")
  /\ messages' = Append(messages, [role |-> "user", run |-> 0])
  /\ Step(c, [req[c] EXCEPT !.pc = "route", !.on = Len(messages) + 1])
  /\ UNCHANGED << chats, feedback, runs, fileVars, memoryVars, uploadVars, boundVars >>

(* RoleFlow says which of these it is.  When the provider fails there is   *)
(* no reply to save.                                                       *)
RouteChat(c) ==
  /\ At(c, "route")
  /\ Go(c, "reply") \/ Go(c, "session") \/ End(c)
  /\ UNCHANGED << chatVars, runs, fileVars, memoryVars, uploadVars, boundVars >>

Reply(c) ==
  /\ At(c, "reply")
  /\ messages' = Append(messages, [role |-> "assistant", run |-> 0])
  /\ End(c)
  /\ UNCHANGED << chats, feedback, runs, fileVars, memoryVars, uploadVars, boundVars >>

(* createRunLedger: the session, its tasks, then the sandbox.              *)
CreateSession(c) ==
  /\ At(c, "session") /\ Len(runs) < MaxRuns
  /\ runs' = Append(runs, [stage |-> "session", started |-> FALSE, todo |-> << >>,
                           status |-> "running", saved |-> 0, selected |-> 0])
  /\ Step(c, [req[c] EXCEPT !.pc = "tasks", !.run = Len(runs) + 1])
  /\ UNCHANGED << chatVars, fileVars, memoryVars, uploadVars, boundVars >>

CreateTasks(c) ==
  /\ At(c, "tasks")
  /\ runs' = [runs EXCEPT ![req[c].run].stage = "tasks"]
  /\ Go(c, "sandbox")
  /\ UNCHANGED << chatVars, fileVars, memoryVars, uploadVars, boundVars >>

AcquireSandbox(c) ==
  /\ At(c, "sandbox")
  /\ runs' = [runs EXCEPT ![req[c].run].stage = "whole"]
  /\ Go(c, IF req[c].do = "chat" THEN "link" ELSE "start")
  /\ UNCHANGED << chatVars, fileVars, memoryVars, uploadVars, boundVars >>

(* Mutant of UpdateMessageRun: the handler is done once the run is linked. *)
LinkOnly(c) ==
  /\ At(c, "link")
  /\ messages' = [messages EXCEPT ![req[c].on].run = req[c].run]
  /\ End(c) /\ calm' = calm
  /\ UNCHANGED << chats, feedback, runs, fileVars, memoryVars, uploadVars, given >>

(* An error here is not looked at.                                         *)
UpdateMessageRun(c) ==
  /\ At(c, "link")
  /\ \/ messages' = [messages EXCEPT ![req[c].on].run = req[c].run] /\ calm' = calm
     \/ UNCHANGED messages /\ calm' = FALSE
  /\ Go(c, "start")
  /\ UNCHANGED << chats, feedback, runs, fileVars, memoryVars, uploadVars, given >>

StartRunWorker(c) ==
  /\ At(c, "start")
  /\ runs' = [runs EXCEPT ![req[c].run] = [@ EXCEPT !.started = TRUE, !.todo = Work]]
  /\ End(c)
  /\ UNCHANGED << chatVars, fileVars, memoryVars, uploadVars, boundVars >>

(* UpsertFeedback: the id of the row there is, or a new one, is looked up; *)
(* a row that has come since keeps its own.                                *)
LookupFeedback(c) ==
  /\ At(c, "lookup")
  /\ Step(c, [req[c] EXCEPT
                !.pc = "upsert",
                !.run = IF req[c].on \in DOMAIN feedback
                        THEN feedback[req[c].on].id ELSE req[c].text])
  /\ UNCHANGED << chatVars, runs, fileVars, memoryVars, uploadVars, boundVars >>

UpsertFeedback(c) ==
  /\ At(c, "upsert")
  /\ LET r == req[c] IN
     feedback' = Put(feedback, r.on,
                     [id |-> IF r.on \in DOMAIN feedback THEN feedback[r.on].id ELSE r.run,
                      score |-> r.text])
  /\ End(c)
  /\ UNCHANGED << chats, messages, runs, fileVars, memoryVars, uploadVars, boundVars >>

-----------------------------------------------------------------------------
(* The records a worker writes of its run.                                 *)
Next1(r) == [runs EXCEPT ![r].todo = Tail(@)]
Doing(r, what) == runs[r].todo # << >> /\ Head(runs[r].todo) = what

CreateArtifact(r) ==
  /\ Doing(r, "plan") \/ Doing(r, "report")
  /\ artifacts' = Append(artifacts,
                    [run |-> r, revision |-> 1, preview |-> 0, held |-> << 0 >>,
                     state |-> IF Doing(r, "plan") THEN "draft" ELSE "approved"])
  /\ runs' = Next1(r)
  /\ UNCHANGED << chatVars, revisions, memoryVars, uploadVars, req, boundVars >>

(* Create records the artifact it made, not the row as it is by now.       *)
Own(r) == {a \in DOMAIN artifacts : artifacts[a].run = r}
CreateRevision(r) ==
  /\ Doing(r, "plan_row") \/ Doing(r, "report_row")
  /\ revisions' = revisions \union
       {[artifact |-> CHOOSE a \in Own(r) : \A b \in Own(r) : b <= a,
         revision |-> 1, preview |-> 0]}
  /\ runs' = Next1(r)
  /\ UNCHANGED << chatVars, artifacts, memoryVars, uploadVars, req, boundVars >>

SaveSnapshot(r) ==
  /\ Doing(r, "snapshot")
  /\ runs' = [Next1(r) EXCEPT ![r].saved = 1]
  /\ UNCHANGED << chatVars, fileVars, memoryVars, uploadVars, req, boundVars >>

SelectSnapshot(r) ==
  /\ Doing(r, "attach")
  /\ runs' = [Next1(r) EXCEPT ![r].selected = runs[r].saved]
  /\ UNCHANGED << chatVars, fileVars, memoryVars, uploadVars, req, boundVars >>

CreateProposal(r) ==
  /\ Doing(r, "proposal")
  /\ proposals' = Put(proposals, r, [status |-> "proposed", item |-> 0])
  /\ runs' = Next1(r)
  /\ UNCHANGED << chatVars, fileVars, items, uploadVars, req, boundVars >>

CompleteSession(r) ==
  /\ Doing(r, "complete")
  /\ runs' = [Next1(r) EXCEPT ![r].status = "completed"]
  /\ UNCHANGED << chatVars, fileVars, memoryVars, uploadVars, req, boundVars >>

(* The worker fails, or the gateway goes down with it.                     *)
GiveUp(r) ==
  /\ runs[r].todo # << >>
  /\ \E status \in {"failed", "running"} :
       runs' = [runs EXCEPT ![r] = [@ EXCEPT !.todo = << >>, !.status = status]]
  /\ calm' = FALSE
  /\ UNCHANGED << chatVars, fileVars, memoryVars, uploadVars, req, given >>

-----------------------------------------------------------------------------
(* Memory.  Only Approve looks at the status.                              *)

(* Mutant of LookProposal: whatever was decided may be approved. *)
LookAnyhow(c) ==
  /\ At(c, "approve_look")
  /\ Go(c, "save_item")
  /\ UNCHANGED << chatVars, runs, fileVars, memoryVars, uploadVars, boundVars >>

LookProposal(c) ==
  /\ At(c, "approve_look")
  /\ IF proposals[req[c].on].status = "proposed" THEN Go(c, "save_item") ELSE End(c)
  /\ UNCHANGED << chatVars, runs, fileVars, memoryVars, uploadVars, boundVars >>

SaveItem(c) ==
  /\ At(c, "save_item")
  /\ items' = Append(items, [run |-> req[c].on, status |-> "active"])
  /\ Step(c, [req[c] EXCEPT !.pc = "approve", !.run = Len(items) + 1])
  /\ UNCHANGED << chatVars, runs, fileVars, proposals, uploadVars, boundVars >>

SetStatus(c) ==
  /\ At(c, "approve") \/ At(c, "reject") \/ At(c, "delete")
  /\ LET r == req[c] IN
     proposals' = [proposals EXCEPT
       ![r.on] = [status |-> CASE r.do = "approve" -> "approved"
                               [] r.do = "reject" -> "rejected" [] OTHER -> "deleted",
                  item |-> IF r.run # 0 THEN r.run ELSE proposals[r.on].item]]
  /\ End(c)
  /\ UNCHANGED << chatVars, runs, fileVars, items, uploadVars, boundVars >>

SetItemStatus(c) ==
  /\ At(c, "forget")
  /\ items' = [items EXCEPT ![req[c].on].status = "deleted"]
  /\ End(c)
  /\ UNCHANGED << chatVars, runs, fileVars, proposals, uploadVars, boundVars >>

-----------------------------------------------------------------------------
(* Artifacts.                                                              *)
LookArtifact(c) ==
  /\ At(c, "revise_look")
  /\ Go(c, "revise")
  /\ UNCHANGED << chatVars, runs, fileVars, memoryVars, uploadVars, boundVars >>

(* Mutant of Revise: the number it read is written back. *)
ReviseInPlace(c) ==
  /\ At(c, "revise")
  /\ LET r == req[c]  row == artifacts[req[c].on] IN
     artifacts' = [artifacts EXCEPT
       ![r.on] = [run |-> row.run, revision |-> row.revision, preview |-> r.text,
                  held |-> Append(row.held, r.text), state |-> "revised"]]
  /\ Go(c, "reload")
  /\ UNCHANGED << chatVars, runs, revisions, memoryVars, uploadVars, boundVars >>

Revise(c) ==
  /\ At(c, "revise")
  /\ LET r == req[c]  row == artifacts[req[c].on] IN
     artifacts' = [artifacts EXCEPT
       ![r.on] = [run |-> row.run, revision |-> row.revision + 1, preview |-> r.text,
                  held |-> Append(row.held, r.text), state |-> "revised"]]
  /\ Go(c, "reload")
  /\ UNCHANGED << chatVars, runs, revisions, memoryVars, uploadVars, boundVars >>

(* Mutant of Reload: the text the request came with is recorded, not the   *)
(* text the row has by now. *)
ReloadOwn(c) ==
  /\ At(c, "reload")
  /\ Step(c, [req[c] EXCEPT !.pc = "record", !.run = artifacts[req[c].on].revision])
  /\ UNCHANGED << chatVars, runs, fileVars, memoryVars, uploadVars, boundVars >>

Reload(c) ==
  /\ At(c, "reload")
  /\ LET row == artifacts[req[c].on] IN
     Step(c, [req[c] EXCEPT !.pc = "record", !.run = row.revision, !.text = row.preview])
  /\ UNCHANGED << chatVars, runs, fileVars, memoryVars, uploadVars, boundVars >>

RecordRevision(c) ==
  /\ At(c, "record")
  /\ revisions' = revisions \union
       {[artifact |-> req[c].on, revision |-> req[c].run, preview |-> req[c].text]}
  /\ End(c)
  /\ UNCHANGED << chatVars, runs, artifacts, memoryVars, uploadVars, boundVars >>

(* Whatever the artifact holds by now.                                     *)
SetReviewState(c) ==
  /\ At(c, "accept")
  /\ artifacts' = [artifacts EXCEPT ![req[c].on].state = "approved"]
  /\ End(c)
  /\ UNCHANGED << chatVars, runs, revisions, memoryVars, uploadVars, boundVars >>

-----------------------------------------------------------------------------
(* Uploads: the file is emptied, filled, and then recorded.                *)
File(c) == << req[c].on, req[c].name >>

OpenFile(c) ==
  /\ At(c, "upload")
  /\ IF runs[req[c].on].stage # "whole"
     THEN End(c) /\ UNCHANGED disk
     ELSE Go(c, "fill") /\ disk' = Put(disk, File(c), "torn")
  /\ UNCHANGED << chatVars, runs, fileVars, memoryVars, uploads, boundVars >>

FillFile(c) ==
  /\ At(c, "fill")
  /\ disk' = [disk EXCEPT ![File(c)] = "whole"]
  /\ Go(c, "upload_row")
  /\ UNCHANGED << chatVars, runs, fileVars, memoryVars, uploads, boundVars >>

CreateUpload(c) ==
  /\ At(c, "upload_row")
  /\ uploads' = uploads \union {File(c)}
  /\ End(c)
  /\ UNCHANGED << chatVars, runs, fileVars, memoryVars, disk, boundVars >>

-----------------------------------------------------------------------------
ClientStep(c) ==
  \/ Give(c) \/ CutOff(c)
  \/ CreateThread(c) \/ AddMessage(c) \/ RouteChat(c) \/ Reply(c)
  \/ CreateSession(c) \/ CreateTasks(c) \/ AcquireSandbox(c)
  \/ UpdateMessageRun(c) \/ StartRunWorker(c)
  \/ LookupFeedback(c) \/ UpsertFeedback(c)
  \/ LookProposal(c) \/ SaveItem(c) \/ SetStatus(c) \/ SetItemStatus(c)
  \/ LookArtifact(c) \/ Revise(c) \/ Reload(c) \/ RecordRevision(c) \/ SetReviewState(c)
  \/ OpenFile(c) \/ FillFile(c) \/ CreateUpload(c)

WorkerStep(r) ==
  \/ CreateArtifact(r) \/ CreateRevision(r) \/ SaveSnapshot(r) \/ SelectSnapshot(r)
  \/ CreateProposal(r) \/ CompleteSession(r) \/ GiveUp(r)

Next == (\E c \in Clients : ClientStep(c)) \/ (\E r \in DOMAIN runs : WorkerStep(r))

Spec == Init /\ [][Next]_vars

-----------------------------------------------------------------------------
(* Types; and the number of an artifact's revision counts its texts.       *)
TypeOK ==
  /\ chats \in 0 .. MaxRequests /\ given \in 0 .. MaxRequests /\ calm \in BOOLEAN
  /\ messages \in Seq(Message) /\ DOMAIN feedback \subseteq 0 .. Len(messages)
  /\ runs \in Seq(Run) /\ revisions \subseteq Revision
  /\ \A r \in DOMAIN proposals : r \in DOMAIN runs /\ proposals[r] \in Proposal
  /\ items \in Seq(Item)
  /\ \A a \in DOMAIN artifacts :
       /\ artifacts[a].revision = Len(artifacts[a].held)
       /\ artifacts[a].preview = artifacts[a].held[artifacts[a].revision]
  /\ \A f \in DOMAIN disk : f[1] \in DOMAIN runs /\ f[2] \in Names /\ disk[f] \in {"torn", "whole"}

Quiet == calm /\ \A c \in Clients : At(c, "idle")

(* A worker is at a run only when its ledger is whole: session, tasks and  *)
(* sandbox.  A message names a run only then, and no two name the same.    *)
(* And when requests came one by one and none failed, every run has had    *)
(* its worker: there is nobody else to start one.                          *)
Worked ==
  /\ \A r \in DOMAIN runs : runs[r].started => runs[r].stage = "whole"
  /\ \A m \in DOMAIN messages : messages[m].run # 0 =>
       /\ messages[m].role = "user" /\ runs[messages[m].run].stage = "whole"
       /\ \A n \in DOMAIN messages : messages[n].run = messages[m].run => n = m
  /\ Quiet => \A r \in DOMAIN runs : runs[r].started

(* What a prompt is given as reusable context came from a proposal, and an *)
(* approved proposal names the item it became, whatever failed on the way. *)
(* Only approvals that overlap or are cut off make two items of one.       *)
Remembered ==
  /\ \A i \in DOMAIN items : items[i].run \in DOMAIN proposals
  /\ \A r \in DOMAIN proposals : proposals[r].status = "approved" =>
       proposals[r].item \in DOMAIN items /\ items[proposals[r].item].run = r
  /\ calm => \A i, j \in DOMAIN items : items[i].run = items[j].run => i = j

(* A recorded revision says what the artifact held at that number, however *)
(* revisions overlap; an upload's row comes after its file.  When nothing  *)
(* overlaps or fails, no revision is missing.                              *)
History ==
  /\ \A v \in revisions : v.preview = artifacts[v.artifact].held[v.revision]
  /\ uploads \subseteq DOMAIN disk
  /\ Quiet /\ (\A r \in DOMAIN runs : ~Doing(r, "plan_row") /\ ~Doing(r, "report_row")) =>
       \A a \in DOMAIN artifacts : \A n \in 1 .. artifacts[a].revision :
         \E v \in revisions : v.artifact = a /\ v.revision = n

Symmetry == Permutations(Clients)

=============================================================================
